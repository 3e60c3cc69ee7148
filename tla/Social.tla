------------------------------- MODULE Social -------------------------------
(***************************************************************************)
(* One user's friends, blocks and private messages: the rows of the tables *)
(* relationships and mail, the sets a session in game carries, and the     *)
(* packets, commands and requests of the website that change them.  What   *)
(* another user keeps is the same and apart from it.                       *)
(*                                                                         *)
(* An action ends where the code awaits the database.                      *)
(***************************************************************************)
EXTENDS Naturals, FiniteSets, Sequences

CONSTANTS Others,      \* the other users
          Hidden,      \* those of them the website does not show to this user
          Edits,       \* packets, commands and requests that are handled at once
          MaxEdits,    \* bound: changes of relationships
          MaxMessages  \* bound: messages

ASSUME SocialAssumption == Hidden \subseteq Others /\ MaxEdits \in Nat /\ MaxMessages \in Nat

VARIABLES
    relation,         \* relationships: the type of the row of this user and another
    friends, blocks,  \* Player.friends and Player.blocks
    presence,         \* "off"; "login", "related", "mailed": how far a login is; "on"
    private,          \* Player.pm_private
    silenced,         \* silence_end has not come: the same in the row and in memory
    edits,            \* the edits that are being handled
    edited,           \* counts them
    editsOverlap,     \* history: two edits, or an edit and a login, were open at once
    sending,          \* where the handling of another user's message is
    mail,             \* the rows of the table, in the order of their ids
    shown,            \* history: messages that this user's client was sent
    overtaken         \* history: messages looked up before and stored after a login's fetch

socialVars == <<relation, friends, blocks, presence, private, silenced, edits, edited, editsOverlap,
                sending, mail, shown, overtaken>>

relationVars == <<relation, friends, blocks, edits, edited, editsOverlap>>
mailVars == <<sending, mail, shown, overtaken>>

NoEdit == [at |-> "none"]
OpenEdits == {e \in Edits : edits[e] # NoEdit}
MailIds == 1..Len(mail)
InLogin == presence \in {"login", "related", "mailed"}

SocialInit ==
    /\ relation = [o \in Others |-> "none"]
    /\ friends = {} /\ blocks = {}
    /\ presence = "off"
    /\ private = FALSE /\ silenced = FALSE
    /\ edits = [e \in Edits |-> NoEdit]
    /\ edited = 0
    /\ editsOverlap = FALSE
    /\ sending = [o \in Others |-> "none"]
    /\ mail = <<>>
    /\ shown = {} /\ overtaken = {}

-----------------------------------------------------------------------------
(* The session *)

\* handle_osu_login_request, up to the query of the relationships.
Connect ==
    /\ presence = "off"
    /\ presence' = "login"
    /\ private' \in BOOLEAN
    /\ editsOverlap' = (editsOverlap \/ OpenEdits # {})
    /\ UNCHANGED <<relation, friends, blocks, silenced, edits, edited, mailVars>>

\* RelationshipsRepository.fetch_all
FetchAll(type) == {o \in Others : relation[o] = type}

\* relationships_from_sql
LoadRelationships ==
    /\ presence = "login"
    /\ presence' = "related"
    /\ friends' = FetchAll("friend")
    /\ blocks' = FetchAll("block")
    /\ UNCHANGED <<relation, edits, edited, editsOverlap, private, silenced, mailVars>>

\* fetch_unread_mail: the rows stay unread.
FetchUnreadMail == {i \in MailIds : ~mail[i].read}

DeliverMail ==
    /\ presence = "related"
    /\ presence' = "mailed"
    /\ shown' = shown \cup FetchUnreadMail
    /\ UNCHANGED <<relationVars, private, silenced, sending, mail, overtaken>>

\* players.append
AppearInList ==
    /\ presence = "mailed"
    /\ presence' = "on"
    /\ UNCHANGED <<relationVars, private, silenced, mailVars>>

Disconnect ==
    /\ presence = "on"
    /\ presence' = "off"
    /\ friends' = {} /\ blocks' = {}
    /\ UNCHANGED <<relation, edits, edited, editsOverlap, private, silenced, mailVars>>

ToggleBlockingDMs ==
    /\ presence = "on"
    /\ private' = ~private
    /\ UNCHANGED <<relationVars, presence, silenced, mailVars>>

SilenceChanges ==
    /\ silenced' = ~silenced
    /\ UNCHANGED <<relationVars, presence, private, mailVars>>

-----------------------------------------------------------------------------
(* Friends and blocks *)

Free(e) == edits[e] = NoEdit /\ edited < MaxEdits
Crosses == editsOverlap \/ OpenEdits # {} \/ InLogin
Counted == edited' = edited + 1 /\ editsOverlap' = Crosses
Still == UNCHANGED <<presence, private, silenced, mailVars>>

\* In game the sets are changed first; the statement is left to be executed.
Write(e, o, type) == edits' = [edits EXCEPT ![e] = [at |-> "write", of |-> o, type |-> type]]

\* FriendAdd and Player.add_friend
FriendAdd(e, o) ==
    /\ Free(e) /\ presence = "on"
    /\ blocks' = blocks \ {o}
    /\ o \notin friends
    /\ friends' = friends \cup {o}
    /\ Write(e, o, "friend")
    /\ Counted /\ UNCHANGED relation /\ Still

\* FriendAdd of a friend: add_friend returns, the block is lifted all the same.
FriendAgain(o) ==
    /\ presence = "on"
    /\ o \in friends /\ o \in blocks
    /\ blocks' = blocks \ {o}
    /\ UNCHANGED <<relation, friends, edits, edited, editsOverlap>> /\ Still

\* FriendRemove and Player.remove_friend
FriendRemove(e, o) ==
    /\ Free(e) /\ presence = "on"
    /\ o \in friends
    /\ friends' = friends \ {o}
    /\ Write(e, o, "none")
    /\ Counted /\ UNCHANGED <<relation, blocks>> /\ Still

\* The command block and Player.add_block
Block(e, o) ==
    /\ Free(e) /\ presence = "on"
    /\ o \notin blocks
    /\ friends' = friends \ {o}
    /\ blocks' = blocks \cup {o}
    /\ Write(e, o, "block")
    /\ Counted /\ UNCHANGED relation /\ Still

\* The command unblock and Player.remove_block
Unblock(e, o) ==
    /\ Free(e) /\ presence = "on"
    /\ o \in blocks
    /\ blocks' = blocks \ {o}
    /\ Write(e, o, "none")
    /\ Counted /\ UNCHANGED <<relation, friends>> /\ Still

\* Mutant: a delete does nothing.
ReplaceOnly(e) ==
    /\ edits[e].at = "write"
    /\ relation' = IF edits[e].type = "none" THEN relation
                   ELSE [relation EXCEPT ![edits[e].of] = edits[e].type]
    /\ edits' = [edits EXCEPT ![e] = NoEdit]
    /\ UNCHANGED <<friends, blocks, edited, editsOverlap>> /\ Still

\* REPLACE INTO relationships, or DELETE FROM it, whatever the type of the row.
Execute(e) ==
    /\ edits[e].at = "write"
    /\ relation' = [relation EXCEPT ![edits[e].of] = edits[e].type]
    /\ edits' = [edits EXCEPT ![e] = NoEdit]
    /\ UNCHANGED <<friends, blocks, edited, editsOverlap>> /\ Still

\* The website: RelationshipsService.add_friend, a user it shows.
AddFriend(e, o) ==
    /\ Free(e) /\ o \notin Hidden
    /\ edits' = [edits EXCEPT ![e] = [at |-> "look", of |-> o, type |-> "friend"]]
    /\ Counted /\ UNCHANGED <<relation, friends, blocks>> /\ Still

\* RelationshipsService.remove_friend
RemoveFriend(e, o) ==
    /\ Free(e)
    /\ edits' = [edits EXCEPT ![e] = [at |-> "look", of |-> o, type |-> "none"]]
    /\ Counted /\ UNCHANGED <<relation, friends, blocks>> /\ Still

\* The row is fetched: what is to be done depends on it.
Look(e) ==
    LET o == edits[e].of
        next == IF edits[e].type = "none"
                THEN IF relation[o] = "friend" THEN "delete" ELSE "end"
                ELSE CASE relation[o] = "friend" -> "end"
                       [] relation[o] = "block" -> "delete"
                       [] OTHER -> "create"
    IN
    /\ edits[e].at = "look"
    /\ edits' = [edits EXCEPT ![e] = IF next = "end" THEN NoEdit ELSE [@ EXCEPT !.at = next]]
    /\ UNCHANGED <<relation, friends, blocks, edited, editsOverlap>> /\ Still

Delete(e) ==
    /\ edits[e].at = "delete"
    /\ relation' = [relation EXCEPT ![edits[e].of] = "none"]
    /\ edits' = [edits EXCEPT ![e].at = IF edits[e].type = "none" THEN "memory" ELSE "create"]
    /\ UNCHANGED <<friends, blocks, edited, editsOverlap>> /\ Still

\* The insert raises if a row has come to be there.
CreateRow(e) ==
    LET o == edits[e].of IN
    /\ edits[e].at = "create"
    /\ IF relation[o] # "none"
       THEN relation' = relation /\ edits' = [edits EXCEPT ![e] = NoEdit]
       ELSE /\ relation' = [relation EXCEPT ![o] = "friend"]
            /\ edits' = [edits EXCEPT ![e].at = "memory"]
    /\ UNCHANGED <<friends, blocks, edited, editsOverlap>> /\ Still

\* "the game server caches friends in memory for online players": the set of
\* the blocked is left alone.
Remember(e) ==
    LET o == edits[e].of IN
    /\ edits[e].at = "memory"
    /\ friends' = IF presence # "on" THEN friends
                  ELSE IF edits[e].type = "friend" THEN friends \cup {o} ELSE friends \ {o}
    /\ edits' = [edits EXCEPT ![e] = NoEdit]
    /\ UNCHANGED <<relation, blocks, edited, editsOverlap>> /\ Still

-----------------------------------------------------------------------------
(* Private messages *)

MaySend(o) ==
    /\ sending[o] = "none"
    /\ Len(mail) + Cardinality({q \in Others : sending[q] # "none"}) < MaxMessages

Mailed == UNCHANGED <<relationVars, presence, private, silenced>>

\* A player that is found in game refuses by its sets; the object get_sql makes
\* of a row has no friends, no blocks and takes messages of everybody.
Refuses(o) == silenced \/ (presence = "on" /\ (o \in blocks \/ (private /\ o \notin friends)))

\* SendPrivateMessage: to a player in game it is sent, and then stored.
Send(o) ==
    /\ MaySend(o)
    /\ presence = "on" /\ ~Refuses(o)
    /\ sending' = [sending EXCEPT ![o] = "sent"]
    /\ Mailed /\ UNCHANGED <<mail, shown, overtaken>>

\* To somebody who is not in the list: the row is looked for.  The object made
\* of it has a token, is taken to be online and is given the message; nobody
\* reads its queue.
LookUp(o) ==
    /\ MaySend(o)
    /\ presence # "on" /\ ~Refuses(o)
    /\ sending' = [sending EXCEPT ![o] = "unseen"]
    /\ Mailed /\ UNCHANGED <<mail, shown, overtaken>>

\* Mutant: what was given to the target is stored as read.
StoreAsRead(o) ==
    LET id == Len(mail) + 1 IN
    /\ sending[o] # "none"
    /\ sending' = [sending EXCEPT ![o] = "none"]
    /\ mail' = Append(mail, [from |-> o, read |-> TRUE])
    /\ shown' = IF sending[o] = "sent" THEN shown \cup {id} ELSE shown
    /\ overtaken' = IF sending[o] = "unseen" /\ presence \in {"mailed", "on"}
                    THEN overtaken \cup {id} ELSE overtaken
    /\ Mailed

\* MailRepository.create
StoreMail(o) ==
    LET id == Len(mail) + 1 IN
    /\ sending[o] # "none"
    /\ sending' = [sending EXCEPT ![o] = "none"]
    /\ mail' = Append(mail, [from |-> o, read |-> FALSE])
    /\ shown' = IF sending[o] = "sent" THEN shown \cup {id} ELSE shown
    /\ overtaken' = IF sending[o] = "unseen" /\ presence \in {"mailed", "on"}
                    THEN overtaken \cup {id} ELSE overtaken
    /\ Mailed

\* osu-markasread: the client has the conversation with o in front.
MarkAsRead(o) ==
    /\ presence = "on"
    /\ mail' = [i \in MailIds |-> IF mail[i].from = o THEN [mail[i] EXCEPT !.read = TRUE]
                                 ELSE mail[i]]
    /\ Mailed /\ UNCHANGED <<sending, shown, overtaken>>

-----------------------------------------------------------------------------
SessionNext ==
    Connect \/ LoadRelationships \/ DeliverMail \/ AppearInList \/ Disconnect
      \/ ToggleBlockingDMs \/ SilenceChanges

EditNext ==
    \/ \E e \in Edits, o \in Others :
         FriendAdd(e, o) \/ FriendRemove(e, o) \/ Block(e, o) \/ Unblock(e, o)
           \/ AddFriend(e, o) \/ RemoveFriend(e, o)
    \/ \E o \in Others : FriendAgain(o)
    \/ \E e \in Edits : Execute(e) \/ Look(e) \/ Delete(e) \/ CreateRow(e) \/ Remember(e)

MailNext == \E o \in Others : Send(o) \/ LookUp(o) \/ StoreMail(o) \/ MarkAsRead(o)

SocialNext == SessionNext \/ EditNext \/ MailNext

SocialSpec == SocialInit /\ [][SocialNext]_socialVars

-----------------------------------------------------------------------------
(* Properties *)

SocialTypeOK ==
    /\ relation \in [Others -> {"none", "friend", "block"}]
    /\ friends \subseteq Others /\ blocks \subseteq Others
    /\ presence \in {"off", "login", "related", "mailed", "on"}
    /\ private \in BOOLEAN /\ silenced \in BOOLEAN /\ editsOverlap \in BOOLEAN
    /\ \A e \in OpenEdits : edits[e].of \in Others
    /\ edited \in 0..MaxEdits
    /\ sending \in [Others -> {"none", "sent", "unseen"}]
    /\ mail \in Seq([from : Others, read : BOOLEAN]) /\ Len(mail) <= MaxMessages
    /\ shown \cup overtaken \subseteq MailIds

\* A message leaves the unread mail only when this user's client was given it, in
\* game or with the mail of a login: the one exception is a message that looked
\* for the user before a login and was stored after it had fetched the mail.
ReadWasShown == \A i \in MailIds : mail[i].read => i \in shown \cup overtaken

\* While edits and logins have not overlapped and none is open, a session honours
\* every row: who has one as a friend is a friend, who has one as blocked is
\* blocked.  (The converse fails: AddFriend of a blocked user leaves the block.)
SerialRowsHonoured ==
    ~editsOverlap /\ OpenEdits = {} /\ presence = "on" =>
      FetchAll("friend") \subseteq friends /\ FetchAll("block") \subseteq blocks
=============================================================================
