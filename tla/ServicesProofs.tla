--------------------------- MODULE ServicesProofs ---------------------------
(***************************************************************************)
(* Proofs about Social, Accounts, Pools and Visibility: for every number   *)
(* of users, names, passwords, pools, maps and viewers, and for any number *)
(* of requests and commands handled at once. Each part begins with the     *)
(* inductive invariant of its component; the last is about all services,   *)
(* with those of CopiesProofs.                                             *)
(***************************************************************************)
EXTENDS MCServices, CopiesProofs, SequenceTheorems, FiniteSetTheorems

-----------------------------------------------------------------------------
(***************************************************************************)
(* The mail of Social. That a message which is read was shown is not       *)
(* inductive: a client marks a whole conversation. Once a login has        *)
(* fetched the unread mail, every message there is was read before, was    *)
(* shown, or was stored behind the back of that login (Delivered).         *)
(***************************************************************************)

Delivered ==
    presence \in {"mailed", "on"} => \A i \in MailIds : i \in shown \cup overtaken

Row == [from : Others, read : BOOLEAN]

SocialIInv ==
    /\ mail \in Seq(Row)
    /\ sending \in [Others -> {"none", "sent", "unseen"}]
    /\ Delivered
    /\ ReadWasShown

LEMMA SocialInitially == SocialInit => SocialIInv
BY DEF SocialInit, SocialIInv, Delivered, ReadWasShown, MailIds

\* Nothing but a login, a message and a mark as read touches the mail.
LEMMA OthersPreserve ==
    ASSUME SocialIInv, UNCHANGED mailVars,
           presence' = presence \/ presence' \notin {"mailed", "on"}
                     \/ presence \in {"mailed", "on"}
    PROVE  SocialIInv'
BY DEF SocialIInv, Delivered, ReadWasShown, MailIds, mailVars

LEMMA EditsPreserve ==
    ASSUME SocialIInv, EditNext
    PROVE  SocialIInv'
<1>1. UNCHANGED mailVars /\ UNCHANGED presence
  BY DEF EditNext, FriendAdd, FriendRemove, Block, Unblock, AddFriend, RemoveFriend, FriendAgain,
         Execute, Look, Delete, CreateRow, Remember, Still
<1> QED
  BY <1>1, OthersPreserve

LEMMA SessionsPreserve ==
    ASSUME SocialIInv, SessionNext
    PROVE  SocialIInv'
<1>1. CASE DeliverMail
  <2>1. /\ UNCHANGED <<sending, mail, overtaken>>
        /\ shown' = shown \cup FetchUnreadMail
    BY <1>1 DEF DeliverMail
  <2>2. \A i \in MailIds : i \in shown' \cup overtaken'
    BY <2>1 DEF SocialIInv, ReadWasShown, FetchUnreadMail, MailIds
  <2> QED
    BY <2>1, <2>2 DEF SocialIInv, Delivered, ReadWasShown, MailIds
<1>2. CASE Connect \/ LoadRelationships \/ AppearInList \/ Disconnect
             \/ ToggleBlockingDMs \/ SilenceChanges
  <2>1. /\ UNCHANGED mailVars
        /\ \/ presence' = presence
           \/ presence' \notin {"mailed", "on"}
           \/ presence \in {"mailed", "on"}
    BY <1>2
    DEF Connect, LoadRelationships, AppearInList, Disconnect, ToggleBlockingDMs, SilenceChanges,
        mailVars
  <2> QED
    BY <2>1, OthersPreserve
<1> QED
  BY <1>1, <1>2 DEF SessionNext

LEMMA MailPreserves ==
    ASSUME SocialIInv, NEW o \in Others, Send(o) \/ LookUp(o) \/ StoreMail(o) \/ MarkAsRead(o)
    PROVE  SocialIInv'
<1>1. CASE Send(o) \/ LookUp(o)
  <2>1. /\ UNCHANGED <<mail, shown, overtaken, presence>>
        /\ \E to \in {"sent", "unseen"} : sending' = [sending EXCEPT ![o] = to]
    BY <1>1 DEF Send, LookUp, Mailed
  <2>2. sending' \in [Others -> {"none", "sent", "unseen"}]
    BY <2>1 DEF SocialIInv
  <2> QED
    BY <2>1, <2>2 DEF SocialIInv, Delivered, ReadWasShown, MailIds
<1>2. CASE StoreMail(o)
  <2> DEFINE id == Len(mail) + 1
             tuple == [from |-> o, read |-> FALSE]
  <2>1. /\ mail' = Append(mail, tuple) /\ UNCHANGED presence
        /\ sending' = [sending EXCEPT ![o] = "none"] /\ sending[o] # "none"
        /\ shown' = IF sending[o] = "sent" THEN shown \cup {id} ELSE shown
        /\ overtaken' = IF sending[o] = "unseen" /\ presence \in {"mailed", "on"}
                        THEN overtaken \cup {id} ELSE overtaken
    BY <1>2 DEF StoreMail, Mailed
  <2>2. /\ sending' \in [Others -> {"none", "sent", "unseen"}]
        /\ sending[o] \in {"sent", "unseen"}
    BY <2>1 DEF SocialIInv
  <2>3. /\ shown \subseteq shown' /\ overtaken \subseteq overtaken'
        /\ presence \in {"mailed", "on"} => id \in shown' \cup overtaken'
    <3> HIDE DEF id
    <3> QED
      BY <2>1, <2>2
  <2>4. /\ mail' \in Seq(Row)
        /\ MailIds' = MailIds \cup {id}
        /\ \A i \in MailIds : mail'[i] = mail[i]
        /\ mail'[id] = tuple
    BY <2>1 DEF SocialIInv, MailIds, Row
  <2>5. Delivered'
    <3> HIDE DEF id
    <3> QED
      BY <2>1, <2>3, <2>4 DEF SocialIInv, Delivered
  <2>6. ReadWasShown'
    <3>1. ASSUME NEW i \in MailIds', mail'[i].read
          PROVE  i \in shown' \cup overtaken'
      <4>1. i # id
        BY <3>1, <2>4
      <4>2. i \in MailIds /\ mail[i].read
        <5> HIDE DEF id
        <5> QED
          BY <3>1, <4>1, <2>4
      <4> QED
        BY <4>2, <2>3 DEF SocialIInv, ReadWasShown
    <3> QED
      BY <3>1 DEF ReadWasShown
  <2> QED
    BY <2>2, <2>4, <2>5, <2>6 DEF SocialIInv
<1>3. CASE MarkAsRead(o)
  <2>1. /\ presence = "on" /\ UNCHANGED <<presence, sending, shown, overtaken>>
        /\ mail' = [i \in MailIds |-> IF mail[i].from = o THEN [mail[i] EXCEPT !.read = TRUE]
                                     ELSE mail[i]]
    BY <1>3 DEF MarkAsRead, Mailed
  <2>2. mail' \in Seq(Row) /\ MailIds' = MailIds
    <3>1. ASSUME NEW i \in MailIds
          PROVE  mail'[i] \in Row
      <4>1. mail[i] \in Row
        BY DEF SocialIInv, MailIds
      <4>2. [mail[i] EXCEPT !.read = TRUE] \in Row
        BY <4>1 DEF Row
      <4>3. mail'[i] = IF mail[i].from = o THEN [mail[i] EXCEPT !.read = TRUE] ELSE mail[i]
        BY <2>1
      <4> QED
        BY <4>1, <4>2, <4>3
    <3>2. Len(mail) \in Nat
      BY DEF SocialIInv
    <3>3. DOMAIN mail' = 1..Len(mail) /\ mail' = [i \in 1..Len(mail) |-> mail'[i]]
      BY <2>1 DEF MailIds
    <3>4. mail' \in [1..Len(mail) -> Row]
      BY <3>1, <3>3 DEF MailIds
    <3>5. mail' \in Seq(Row) /\ Len(mail') = Len(mail)
      BY <3>2, <3>4, SeqDef, LenProperties
    <3> QED
      BY <3>5 DEF MailIds
  <2> QED
    BY <2>1, <2>2 DEF SocialIInv, Delivered, ReadWasShown
<1> QED
  BY <1>1, <1>2, <1>3

LEMMA MailAlways == SocialSpec => []SocialIInv
<1>1. ASSUME SocialIInv, [SocialNext]_socialVars
      PROVE  SocialIInv'
  <2>1. CASE UNCHANGED socialVars
    BY <1>1, <2>1 DEF socialVars, SocialIInv, Delivered, ReadWasShown, MailIds
  <2>2. CASE SessionNext
    BY <1>1, <2>2, SessionsPreserve
  <2>3. CASE EditNext
    BY <1>1, <2>3, EditsPreserve
  <2>4. CASE MailNext
    BY <1>1, <2>4, MailPreserves DEF MailNext
  <2> QED
    BY <1>1, <2>1, <2>2, <2>3, <2>4 DEF SocialNext
<1> QED
  BY <1>1, SocialInitially, PTL DEF SocialSpec

\* No message leaves the unread mail without having been given to this user's client,
\* but for one that was looked up before a login and stored after it had fetched the
\* mail (cho.py SendPrivateMessage, the login's unread mail, osu.py osu-markasread).
THEOREM ReadMailWasShown == SocialSpec => []ReadWasShown
<1>1. SocialIInv => ReadWasShown
  BY DEF SocialIInv
<1> QED
  BY <1>1, MailAlways, PTL

-----------------------------------------------------------------------------
(***************************************************************************)
(* The relationships of Social. That a session honours the rows holds      *)
(* between edits only: EditSound says what each edit that nothing overlaps *)
(* has still to write, so that the last of its steps makes row and session *)
(* agree again (SerialSettled).                                            *)
(***************************************************************************)

EditTypes ==
    [at : {"write", "look", "delete", "create", "memory"}, of : Others,
     type : {"none", "friend", "block"}]

RowsShape ==
    /\ relation \in [Others -> {"none", "friend", "block"}]
    /\ presence \in {"off", "login", "related", "mailed", "on"}
    /\ edits \in [Edits -> EditTypes \cup {NoEdit}]

\* A row is honoured, and who is blocked is no friend: else a FriendAdd of this friend
\* would lift the block and write nothing.
PairSettled(o) ==
    /\ relation[o] = "friend" => o \in friends
    /\ relation[o] = "block" => o \in blocks \ friends

\* What an edit that nothing overlaps relies on.
EditSound(e) ==
    LET r == edits[e] IN
    /\ r.at = "write" /\ r.type = "friend" => r.of \in friends
    /\ r.at = "write" /\ r.type = "block" => r.of \in blocks \ friends
    /\ r.at = "create" => r.type = "friend" /\ relation[r.of] = "none"
    /\ r.at = "memory" => relation[r.of] = r.type
    /\ r.at # "write" => r.type # "block"

Loaded == presence \in {"related", "mailed", "on"}

SerialSettled ==
    ~editsOverlap =>
      /\ \A d, e \in OpenEdits : d = e
      /\ InLogin => OpenEdits = {}
      /\ Loaded =>
           /\ \A e \in OpenEdits : EditSound(e)
           /\ \A o \in Others :
                (\A e \in OpenEdits : edits[e].of # o \/ edits[e].at = "look") => PairSettled(o)

RowsIInv == RowsShape /\ SerialSettled

LEMMA RowsInitially == SocialInit => RowsIInv
BY DEF SocialInit, RowsIInv, RowsShape, SerialSettled, OpenEdits, Loaded, InLogin

LEMMA EditsAreSome == ASSUME NEW r \in EditTypes PROVE r # NoEdit
BY DEF EditTypes, NoEdit

\* Steps of the session and of the mail.
LEMMA SessionKeepsRows ==
    ASSUME RowsIInv, SessionNext
    PROVE  RowsIInv'
<1>1. CASE Connect
  BY <1>1 DEF Connect, RowsIInv, RowsShape, SerialSettled, OpenEdits, Loaded, InLogin
<1>2. CASE LoadRelationships
  <2>1. /\ presence = "login" /\ presence' = "related"
        /\ friends' = FetchAll("friend") /\ blocks' = FetchAll("block")
        /\ UNCHANGED <<relation, edits, editsOverlap>>
    BY <1>2 DEF LoadRelationships
  <2>2. RowsShape' /\ OpenEdits' = OpenEdits
    BY <2>1 DEF RowsIInv, RowsShape, OpenEdits
  <2>3. ~editsOverlap => OpenEdits = {}
    BY <2>1 DEF RowsIInv, SerialSettled, InLogin
  <2>4. \A o \in Others : PairSettled(o)'
    BY <2>1 DEF PairSettled, FetchAll
  <2> QED
    BY <2>1, <2>2, <2>3, <2>4 DEF RowsIInv, SerialSettled
<1>3. CASE DeliverMail \/ AppearInList
  <2>1. /\ presence \in {"related", "mailed"} /\ presence' \in {"mailed", "on"}
        /\ UNCHANGED relationVars
    BY <1>3 DEF DeliverMail, AppearInList
  <2>2. OpenEdits' = OpenEdits /\ (\A e : EditSound(e)' = EditSound(e)) /\ \A o : PairSettled(o)' = PairSettled(o)
    BY <2>1 DEF relationVars, OpenEdits, EditSound, PairSettled
  <2> QED
    BY <2>1, <2>2 DEF relationVars, RowsIInv, RowsShape, SerialSettled, Loaded, InLogin
<1>4. CASE Disconnect
  BY <1>4 DEF Disconnect, RowsIInv, RowsShape, SerialSettled, OpenEdits, Loaded, InLogin
<1>5. CASE ToggleBlockingDMs \/ SilenceChanges
  <2>1. UNCHANGED <<relation, friends, blocks, edits, editsOverlap, presence>>
    BY <1>5 DEF ToggleBlockingDMs, SilenceChanges, relationVars
  <2>2. OpenEdits' = OpenEdits /\ (\A e : EditSound(e)' = EditSound(e)) /\ \A o : PairSettled(o)' = PairSettled(o)
    BY <2>1 DEF OpenEdits, EditSound, PairSettled
  <2> QED
    BY <2>1, <2>2 DEF RowsIInv, RowsShape, SerialSettled, Loaded, InLogin
<1> QED
  BY <1>1, <1>2, <1>3, <1>4, <1>5 DEF SessionNext

\* An edit begins: until it ends, the user it is about is its own matter.
LEMMA EditBegins ==
    ASSUME RowsIInv, NEW e \in Edits, NEW r \in EditTypes, Free(e), Counted, Still,
           edits' = [edits EXCEPT ![e] = r], UNCHANGED relation,
           r.at \in {"write", "look"},
           r.at = "look" => r.type # "block" /\ UNCHANGED <<friends, blocks>>,
           r.at = "write" => presence = "on",
           r.at = "write" /\ r.type = "friend" => r.of \in friends',
           r.at = "write" /\ r.type = "block" => r.of \in blocks' \ friends',
           \A o \in Others \ {r.of} : /\ o \in friends' <=> o \in friends
                                      /\ o \in blocks' <=> o \in blocks
    PROVE  RowsIInv'
<1>1. /\ \A d \in Edits : edits'[d] = IF d = e THEN r ELSE edits[d]
      /\ edits' \in [Edits -> EditTypes \cup {NoEdit}]
      /\ edits[e] = NoEdit
      /\ presence' = presence
      /\ editsOverlap' = (editsOverlap \/ OpenEdits # {} \/ InLogin)
  BY DEF RowsIInv, RowsShape, Free, Still, Counted, Crosses
<1>2. OpenEdits' = OpenEdits \cup {e}
  BY <1>1, EditsAreSome DEF OpenEdits
<1>3. RowsShape'
  BY <1>1 DEF RowsIInv, RowsShape
<1>4. ASSUME ~editsOverlap'
      PROVE  /\ ~editsOverlap /\ OpenEdits = {} /\ OpenEdits' = {e} /\ ~InLogin /\ InLogin' = InLogin
             /\ Loaded' = Loaded
  BY <1>1, <1>2, <1>4 DEF InLogin, Loaded
<1>5. EditSound(e)'
  BY <1>1 DEF EditSound
<1>6. ASSUME ~editsOverlap', Loaded', NEW o \in Others, r.of # o \/ r.at = "look"
      PROVE  PairSettled(o)'
  <2>1. PairSettled(o)
    BY <1>4, <1>6 DEF RowsIInv, SerialSettled
  <2> QED
    BY <1>6, <2>1 DEF PairSettled
<1> QED
  BY <1>1, <1>3, <1>4, <1>5, <1>6 DEF RowsIInv, SerialSettled

\* An edit goes on or ends.
LEMMA EditGoes ==
    ASSUME RowsIInv, NEW e \in OpenEdits, NEW r \in EditTypes \cup {NoEdit}, Still,
           NEW of \in Others, of = edits[e].of,
           edits' = [edits EXCEPT ![e] = r], UNCHANGED editsOverlap,
           relation' \in [Others -> {"none", "friend", "block"}],
           \A o \in Others \ {of} : /\ relation'[o] = relation[o]
                                    /\ o \in friends' <=> o \in friends
                                    /\ o \in blocks' <=> o \in blocks,
           r # NoEdit => r.of = of /\ r.at # "look",
           ~editsOverlap /\ Loaded /\ r # NoEdit => EditSound(e)',
           ~editsOverlap /\ Loaded /\ r = NoEdit => PairSettled(of)'
    PROVE  RowsIInv'
<1>1. /\ e \in Edits /\ \A d \in Edits : edits'[d] = IF d = e THEN r ELSE edits[d]
      /\ edits' \in [Edits -> EditTypes \cup {NoEdit}]
      /\ presence' = presence
  BY DEF RowsIInv, RowsShape, OpenEdits, Still
<1>2. OpenEdits' = IF r = NoEdit THEN OpenEdits \ {e} ELSE OpenEdits
  BY <1>1 DEF OpenEdits
<1>3. RowsShape'
  BY <1>1 DEF RowsIInv, RowsShape
<1>4. Loaded' = Loaded /\ InLogin' = InLogin
  BY <1>1 DEF Loaded, InLogin
<1>5. ASSUME ~editsOverlap
      PROVE  OpenEdits = {e}
  BY <1>5 DEF RowsIInv, SerialSettled
<1>6. ASSUME ~editsOverlap, Loaded, NEW o \in Others \ {of}
      PROVE  PairSettled(o)'
  <2>1. PairSettled(o)
    BY <1>5, <1>6 DEF RowsIInv, SerialSettled
  <2> QED
    BY <1>6, <2>1 DEF PairSettled
<1>7. ASSUME ~editsOverlap
      PROVE  /\ \A c, d \in OpenEdits' : c = d
             /\ InLogin' => OpenEdits' = {}
  BY <1>2, <1>4, <1>5, <1>7 DEF RowsIInv, SerialSettled
<1>8. ASSUME ~editsOverlap, Loaded
      PROVE  /\ \A d \in OpenEdits' : EditSound(d)'
             /\ \A o \in Others :
                  (\A d \in OpenEdits' : edits'[d].of # o \/ edits'[d].at = "look") => PairSettled(o)'
  <2>1. CASE r = NoEdit
    BY <1>2, <1>5, <1>6, <1>8, <2>1
  <2>2. CASE r # NoEdit
    BY <1>1, <1>2, <1>5, <1>6, <1>8, <2>2
  <2> QED
    BY <2>1, <2>2
<1> QED
  BY <1>3, <1>4, <1>7, <1>8 DEF RowsIInv, SerialSettled

LEMMA OpenEdit ==
    ASSUME RowsIInv, NEW e \in Edits, edits[e].at # "none"
    PROVE  /\ e \in OpenEdits /\ edits[e] \in EditTypes /\ edits[e].of \in Others
           /\ ~editsOverlap /\ Loaded => EditSound(e)
           /\ ~editsOverlap /\ Loaded /\ edits[e].at = "look" => PairSettled(edits[e].of)
<1>1. edits[e] # NoEdit
  BY DEF NoEdit
<1>2. e \in OpenEdits /\ edits[e] \in EditTypes /\ edits[e].of \in Others
  BY <1>1 DEF OpenEdits, RowsIInv, RowsShape, EditTypes
<1>3. ASSUME ~editsOverlap, Loaded
      PROVE  EditSound(e) /\ (edits[e].at = "look" => PairSettled(edits[e].of))
  BY <1>2, <1>3 DEF RowsIInv, SerialSettled
<1> QED
  BY <1>2, <1>3

-----------------------------------------------------------------------------
LEMMA GameEditsBegin ==
    ASSUME RowsIInv, NEW e \in Edits, NEW o \in Others,
           FriendAdd(e, o) \/ FriendRemove(e, o) \/ Block(e, o) \/ Unblock(e, o)
    PROVE  RowsIInv'
<1>1. PICK type \in {"none", "friend", "block"} :
        /\ Free(e) /\ Counted /\ Still /\ UNCHANGED relation /\ presence = "on"
        /\ Write(e, o, type)
        /\ type = "friend" => o \in friends'
        /\ type = "block" => o \in blocks' \ friends'
        /\ \A p \in Others \ {o} : (p \in friends' <=> p \in friends) /\ (p \in blocks' <=> p \in blocks)
  BY DEF FriendAdd, FriendRemove, Block, Unblock
<1> DEFINE r == [at |-> "write", of |-> o, type |-> type]
<1>2. r \in EditTypes /\ r.at = "write" /\ r.of = o /\ r.type = type
  BY DEF EditTypes
<1>3. edits' = [edits EXCEPT ![e] = r]
  BY <1>1, Zenon DEF Write
<1> HIDE DEF r
<1> QED
  BY <1>1, <1>2, <1>3, EditBegins

LEMMA WebEditsBegin ==
    ASSUME RowsIInv, NEW e \in Edits, NEW o \in Others, AddFriend(e, o) \/ RemoveFriend(e, o)
    PROVE  RowsIInv'
<1>1. PICK type \in {"none", "friend"} :
        /\ Free(e) /\ Counted /\ Still /\ UNCHANGED <<relation, friends, blocks>>
        /\ edits' = [edits EXCEPT ![e] = [at |-> "look", of |-> o, type |-> type]]
  BY DEF AddFriend, RemoveFriend
<1> DEFINE r == [at |-> "look", of |-> o, type |-> type]
<1>2. r \in EditTypes /\ r.at = "look" /\ r.of = o /\ r.type = type
  BY DEF EditTypes
<1>3. edits' = [edits EXCEPT ![e] = r]
  BY <1>1, Zenon
<1> HIDE DEF r
<1> QED
  BY <1>1, <1>2, <1>3, EditBegins

\* To add a friend again lifts a block that has no row.
LEMMA AgainKeepsRows ==
    ASSUME RowsIInv, NEW o \in Others, FriendAgain(o)
    PROVE  RowsIInv'
<1>1. /\ presence = "on" /\ o \in friends /\ o \in blocks /\ blocks' = blocks \ {o}
      /\ UNCHANGED <<relation, friends, edits, editsOverlap, presence>>
  BY DEF FriendAgain, Still
<1>2. OpenEdits' = OpenEdits /\ RowsShape' /\ InLogin' = InLogin /\ Loaded' = Loaded
  BY <1>1 DEF OpenEdits, RowsIInv, RowsShape, InLogin, Loaded
<1>3. ASSUME NEW e \in OpenEdits, EditSound(e)
      PROVE  EditSound(e)'
  BY <1>1, <1>3 DEF EditSound
<1>4. ASSUME NEW p \in Others, PairSettled(p)
      PROVE  PairSettled(p)'
  BY <1>1, <1>4 DEF PairSettled
<1> QED
  BY <1>1, <1>2, <1>3, <1>4 DEF RowsIInv, SerialSettled

LEMMA ExecuteKeepsRows ==
    ASSUME RowsIInv, NEW e \in Edits, Execute(e)
    PROVE  RowsIInv'
<1>1. /\ edits[e].at = "write" /\ relation' = [relation EXCEPT ![edits[e].of] = edits[e].type]
      /\ edits' = [edits EXCEPT ![e] = NoEdit]
      /\ UNCHANGED <<friends, blocks, editsOverlap>> /\ Still
  BY DEF Execute
<1>2. /\ e \in OpenEdits /\ edits[e] \in EditTypes /\ edits[e].of \in Others
      /\ ~editsOverlap /\ Loaded => EditSound(e)
  BY <1>1, OpenEdit
<1>3. edits[e].type \in {"none", "friend", "block"}
  BY <1>2 DEF EditTypes
<1>4. PICK of \in Others : of = edits[e].of
  BY <1>2
<1>5. ~editsOverlap /\ Loaded => PairSettled(of)'
  <2>1. relation'[of] = edits[e].type
    BY <1>1, <1>4 DEF RowsIInv, RowsShape
  <2> QED
    BY <1>1, <1>2, <1>4, <2>1 DEF EditSound, PairSettled
<1>6. relation' \in [Others -> {"none", "friend", "block"}]
      /\ \A o \in Others \ {of} : relation'[o] = relation[o]
  BY <1>1, <1>3, <1>4 DEF RowsIInv, RowsShape
<1> QED
  BY <1>1, <1>2, <1>4, <1>5, <1>6, EditGoes

\* The row decides: a friend stays one, a block gives way, and what is there is removed
\* only if it is a friend.
LEMMA LookKeepsRows ==
    ASSUME RowsIInv, NEW e \in Edits, Look(e)
    PROVE  RowsIInv'
<1>1. /\ edits[e].at = "look" /\ UNCHANGED <<relation, friends, blocks, editsOverlap>> /\ Still
      /\ \/ edits' = [edits EXCEPT ![e] = NoEdit]
         \/ \E at \in {"delete", "create"} :
              /\ edits' = [edits EXCEPT ![e] = [@ EXCEPT !.at = at]]
              /\ at = "create" => edits[e].type # "none" /\ relation[edits[e].of] = "none"
  <2> DEFINE next == IF edits[e].type = "none"
                     THEN IF relation[edits[e].of] = "friend" THEN "delete" ELSE "end"
                     ELSE CASE relation[edits[e].of] = "friend" -> "end"
                            [] relation[edits[e].of] = "block" -> "delete"
                            [] OTHER -> "create"
  <2>1. /\ edits[e].at = "look" /\ UNCHANGED <<relation, friends, blocks, editsOverlap>> /\ Still
        /\ edits' = [edits EXCEPT ![e] = IF next = "end" THEN NoEdit ELSE [@ EXCEPT !.at = next]]
    BY DEF Look
  <2>2. edits[e].of \in Others
    BY <2>1, OpenEdit
  <2>3. relation[edits[e].of] \in {"none", "friend", "block"}
    BY <2>2 DEF RowsIInv, RowsShape
  <2>4. /\ next \in {"end", "delete", "create"}
        /\ next = "create" => edits[e].type # "none" /\ relation[edits[e].of] = "none"
    BY <2>3
  <2> HIDE DEF next
  <2>5. CASE next = "end"
    BY <2>1, <2>5
  <2>6. CASE next # "end"
    BY <2>1, <2>4, <2>6
  <2> QED
    BY <2>5, <2>6
<1>2. /\ e \in OpenEdits /\ edits[e] \in EditTypes /\ edits[e].of \in Others
      /\ ~editsOverlap /\ Loaded => EditSound(e) /\ PairSettled(edits[e].of)
  BY <1>1, OpenEdit
<1>3. PICK of \in Others : of = edits[e].of
  BY <1>2
<1>4. relation' \in [Others -> {"none", "friend", "block"}]
  BY <1>1 DEF RowsIInv, RowsShape
<1>5. CASE edits' = [edits EXCEPT ![e] = NoEdit]
  <2>1. ~editsOverlap /\ Loaded => PairSettled(of)'
    BY <1>1, <1>2, <1>3 DEF PairSettled
  <2> QED
    BY <1>1, <1>2, <1>3, <1>4, <1>5, <2>1, EditGoes
<1>6. ASSUME NEW at \in {"delete", "create"}, edits' = [edits EXCEPT ![e] = [@ EXCEPT !.at = at]],
             at = "create" => edits[e].type # "none" /\ relation[edits[e].of] = "none"
      PROVE  RowsIInv'
  <2> DEFINE r == [edits[e] EXCEPT !.at = at]
  <2>1. r \in EditTypes /\ r.at = at /\ r.of = edits[e].of /\ r.type = edits[e].type
    BY <1>2 DEF EditTypes
  <2>2. edits' = [edits EXCEPT ![e] = r]
    BY <1>6, Zenon
  <2> HIDE DEF r
  <2>3. r # NoEdit
    BY <2>1, EditsAreSome
  <2>4. ~editsOverlap /\ Loaded => EditSound(e)'
    <3>1. edits'[e] = r
      BY <1>2, <2>2 DEF RowsIInv, RowsShape, OpenEdits
    <3> QED
      BY <1>1, <1>2, <1>6, <2>1, <3>1 DEF EditSound, EditTypes
  <2> QED
    BY <1>1, <1>2, <1>3, <1>4, <2>1, <2>2, <2>3, <2>4, EditGoes
<1> QED
  BY <1>1, <1>5, <1>6

LEMMA DeleteKeepsRows ==
    ASSUME RowsIInv, NEW e \in Edits, Delete(e)
    PROVE  RowsIInv'
<1> DEFINE at == IF edits[e].type = "none" THEN "memory" ELSE "create"
           r == [edits[e] EXCEPT !.at = at]
<1>1. /\ edits[e].at = "delete" /\ UNCHANGED <<friends, blocks, editsOverlap>> /\ Still
      /\ relation' = [relation EXCEPT ![edits[e].of] = "none"]
      /\ edits' = [edits EXCEPT ![e].at = at]
  BY DEF Delete
<1>2. /\ e \in OpenEdits /\ edits[e] \in EditTypes /\ edits[e].of \in Others
      /\ ~editsOverlap /\ Loaded => EditSound(e)
  BY <1>1, OpenEdit
<1>3. PICK of \in Others : of = edits[e].of
  BY <1>2
<1>4. at \in {"memory", "create"} /\ (edits[e].type = "none" <=> at = "memory")
  OBVIOUS
<1> HIDE DEF at
<1>5. r \in EditTypes /\ r.at = at /\ r.of = edits[e].of /\ r.type = edits[e].type
  BY <1>2, <1>4 DEF EditTypes
<1>6. edits' = [edits EXCEPT ![e] = r]
  BY <1>1, Zenon
<1> HIDE DEF r
<1>7. r # NoEdit
  BY <1>5, EditsAreSome
<1>8. /\ relation' \in [Others -> {"none", "friend", "block"}]
      /\ \A o \in Others \ {of} : relation'[o] = relation[o]
      /\ relation'[of] = "none"
  BY <1>1, <1>3 DEF RowsIInv, RowsShape
<1>9. ~editsOverlap /\ Loaded => EditSound(e)'
  <2>1. edits'[e] = r
    BY <1>2, <1>6 DEF RowsIInv, RowsShape, OpenEdits
  <2> QED
    BY <1>1, <1>2, <1>3, <1>4, <1>5, <1>8, <2>1 DEF EditSound, EditTypes
<1> QED
  BY <1>1, <1>2, <1>3, <1>4, <1>5, <1>6, <1>7, <1>8, <1>9, EditGoes

LEMMA CreateRowKeepsRows ==
    ASSUME RowsIInv, NEW e \in Edits, CreateRow(e)
    PROVE  RowsIInv'
<1>1. /\ edits[e].at = "create" /\ UNCHANGED <<friends, blocks, editsOverlap>> /\ Still
      /\ IF relation[edits[e].of] # "none"
         THEN relation' = relation /\ edits' = [edits EXCEPT ![e] = NoEdit]
         ELSE /\ relation' = [relation EXCEPT ![edits[e].of] = "friend"]
              /\ edits' = [edits EXCEPT ![e].at = "memory"]
  BY DEF CreateRow
<1>2. /\ e \in OpenEdits /\ edits[e] \in EditTypes /\ edits[e].of \in Others
      /\ ~editsOverlap /\ Loaded => EditSound(e)
  BY <1>1, OpenEdit
<1>3. PICK of \in Others : of = edits[e].of
  BY <1>2
<1>4. ~editsOverlap /\ Loaded => relation[of] = "none"
  BY <1>1, <1>2, <1>3 DEF EditSound
<1>5. CASE relation[of] # "none"
  <2>1. relation' = relation /\ edits' = [edits EXCEPT ![e] = NoEdit]
    BY <1>1, <1>3, <1>5
  <2>2. relation' \in [Others -> {"none", "friend", "block"}]
    BY <2>1 DEF RowsIInv, RowsShape
  <2> QED
    BY <1>1, <1>2, <1>3, <1>4, <1>5, <2>1, <2>2, EditGoes
<1>6. CASE relation[of] = "none"
  <2> DEFINE r == [edits[e] EXCEPT !.at = "memory"]
  <2>1. r \in EditTypes /\ r.at = "memory" /\ r.of = edits[e].of /\ r.type = edits[e].type
    BY <1>2 DEF EditTypes
  <2>2. edits' = [edits EXCEPT ![e] = r]
    BY <1>1, <1>3, <1>6, Zenon
  <2> HIDE DEF r
  <2>3. r # NoEdit
    BY <2>1, EditsAreSome
  <2>4. /\ relation' \in [Others -> {"none", "friend", "block"}]
        /\ \A o \in Others \ {of} : relation'[o] = relation[o]
        /\ relation'[of] = "friend"
    BY <1>1, <1>3, <1>6 DEF RowsIInv, RowsShape
  <2>5. ~editsOverlap /\ Loaded => edits[e].type = "friend"
    BY <1>1, <1>2 DEF EditSound, EditTypes
  <2>6. ~editsOverlap /\ Loaded => EditSound(e)'
    <3>1. edits'[e] = r
      BY <1>2, <2>2 DEF RowsIInv, RowsShape, OpenEdits
    <3> QED
      BY <1>3, <2>1, <2>4, <2>5, <3>1 DEF EditSound
  <2> QED
    BY <1>1, <1>2, <1>3, <2>1, <2>2, <2>3, <2>4, <2>6, EditGoes
<1> QED
  BY <1>3, <1>5, <1>6

LEMMA RememberKeepsRows ==
    ASSUME RowsIInv, NEW e \in Edits, Remember(e)
    PROVE  RowsIInv'
<1>1. /\ edits[e].at = "memory" /\ UNCHANGED <<relation, blocks, editsOverlap>> /\ Still
      /\ friends' = IF presence # "on" THEN friends
                    ELSE IF edits[e].type = "friend" THEN friends \cup {edits[e].of}
                         ELSE friends \ {edits[e].of}
      /\ edits' = [edits EXCEPT ![e] = NoEdit]
  BY DEF Remember
<1>2. /\ e \in OpenEdits /\ edits[e] \in EditTypes /\ edits[e].of \in Others
      /\ ~editsOverlap /\ Loaded => EditSound(e)
  BY <1>1, OpenEdit
<1>3. PICK of \in Others : of = edits[e].of
  BY <1>2
<1>4. relation' \in [Others -> {"none", "friend", "block"}]
  BY <1>1 DEF RowsIInv, RowsShape
<1>5. ~editsOverlap /\ Loaded => PairSettled(of)'
  <2>1. ASSUME ~editsOverlap, Loaded
        PROVE  PairSettled(of)'
    <3>1. presence = "on"
      BY <1>2, <2>1 DEF RowsIInv, SerialSettled, Loaded, InLogin
    <3>2. relation[of] = edits[e].type /\ edits[e].type # "block"
      BY <1>1, <1>2, <1>3, <2>1 DEF EditSound
    <3> QED
      BY <1>1, <1>3, <3>1, <3>2 DEF PairSettled
  <2> QED
    BY <2>1
<1> QED
  BY <1>1, <1>2, <1>3, <1>4, <1>5, EditGoes

LEMMA RowsInductive == SocialSpec => []RowsIInv
<1>1. ASSUME RowsIInv, [SocialNext]_socialVars
      PROVE  RowsIInv'
  <2>1. CASE UNCHANGED <<relationVars, presence>>
    <3>1. OpenEdits' = OpenEdits /\ (\A e : EditSound(e)' = EditSound(e)) /\ \A o : PairSettled(o)' = PairSettled(o)
      BY <2>1 DEF relationVars, OpenEdits, EditSound, PairSettled
    <3> QED
      BY <1>1, <2>1, <3>1 DEF relationVars, RowsIInv, RowsShape, SerialSettled, Loaded, InLogin
  <2>2. CASE SessionNext
    BY <1>1, <2>2, SessionKeepsRows
  <2>3. CASE EditNext
    BY <1>1, <2>3, GameEditsBegin, WebEditsBegin, AgainKeepsRows, ExecuteKeepsRows, LookKeepsRows,
       DeleteKeepsRows, CreateRowKeepsRows, RememberKeepsRows DEF EditNext
  <2>4. CASE MailNext \/ UNCHANGED socialVars
    BY <2>1, <2>4 DEF MailNext, Send, LookUp, StoreMail, MarkAsRead, Mailed, socialVars, relationVars
  <2> QED
    BY <1>1, <2>2, <2>3, <2>4 DEF SocialNext
<1> QED
  BY <1>1, RowsInitially, PTL DEF SocialSpec

\* While nothing has overlapped and no edit is open, a session honours every row
\* (Player.add_friend, add_block and their opposites, RelationshipsService, the login's
\* relationships_from_sql).
THEOREM RowsAreHonoured == SocialSpec => []SerialRowsHonoured
<1>1. RowsIInv => SerialRowsHonoured
  BY DEF RowsIInv, RowsShape, SerialSettled, SerialRowsHonoured, FetchAll, PairSettled, Loaded
<1> QED
  BY <1>1, RowsInductive, PTL

-----------------------------------------------------------------------------
(***************************************************************************)
(* The types of Social. A message that is being handled will be a row,     *)
(* which is what bounds the mail (MailFits).                               *)
(***************************************************************************)

\* Every message that is being handled will be a row.
Senders == {o \in Others : sending[o] # "none"}
MailFits == IsFiniteSet(Senders) /\ Len(mail) + Cardinality(Senders) <= MaxMessages

SocialTypes ==
    /\ friends \subseteq Others /\ blocks \subseteq Others
    /\ private \in BOOLEAN /\ silenced \in BOOLEAN /\ editsOverlap \in BOOLEAN
    /\ edited \in 0..MaxEdits
    /\ shown \cup overtaken \subseteq MailIds

LEMMA SocialTypesInitially == SocialInit => SocialTypes /\ MailFits
<1> SUFFICES ASSUME SocialInit PROVE SocialTypes /\ MailFits
  OBVIOUS
<1>1. Senders = {}
  BY DEF SocialInit, Senders
<1>2. IsFiniteSet(Senders) /\ Cardinality(Senders) = 0
  BY <1>1, FS_EmptySet
<1>3. mail = <<>>
  BY DEF SocialInit
<1>4. Len(mail) = 0 /\ MaxMessages \in Nat /\ MaxEdits \in Nat
  BY <1>3, SocialAssumption
<1>5. MailFits
  BY <1>2, <1>4 DEF MailFits
<1>6. SocialTypes
  <2>1. edited \in 0..MaxEdits
    BY <1>4 DEF SocialInit
  <2>2. friends = {} /\ blocks = {} /\ shown \cup overtaken = {}
    BY DEF SocialInit
  <2>3. private \in BOOLEAN /\ silenced \in BOOLEAN /\ editsOverlap \in BOOLEAN
    BY DEF SocialInit
  <2> QED
    BY <2>1, <2>2, <2>3 DEF SocialTypes
<1> QED
  BY <1>5, <1>6

\* A message is taken up, or stored.
LEMMA MailStaysSmall ==
    ASSUME SocialIInv, SocialTypes, MailFits, MailNext
    PROVE  MailFits' /\ (shown \cup overtaken \subseteq MailIds)'
<1>1. /\ mail \in Seq(Row) /\ Len(mail) \in Nat /\ IsFiniteSet(Senders) /\ Cardinality(Senders) \in Nat
      /\ sending \in [Others -> {"none", "sent", "unseen"}] /\ MaxMessages \in Nat
  BY FS_CardinalityType, SocialAssumption DEF SocialIInv, MailFits
<1>2. ASSUME NEW o \in Others, Send(o) \/ LookUp(o)
      PROVE  MailFits' /\ (shown \cup overtaken \subseteq MailIds)'
  <2>1. /\ UNCHANGED <<mail, shown, overtaken>> /\ o \notin Senders
        /\ \E to \in {"sent", "unseen"} : sending' = [sending EXCEPT ![o] = to]
        /\ Len(mail) + Cardinality(Senders) < MaxMessages
    BY <1>2 DEF Send, LookUp, MaySend, Senders
  <2>2. Senders' = Senders \cup {o}
    BY <1>1, <2>1 DEF Senders
  <2>3. IsFiniteSet(Senders') /\ Cardinality(Senders') = Cardinality(Senders) + 1
    BY <1>1, <2>1, <2>2, FS_AddElement
  <2> QED
    BY <1>1, <2>1, <2>3 DEF MailFits, SocialTypes, MailIds
<1>3. ASSUME NEW o \in Others, StoreMail(o)
      PROVE  MailFits' /\ (shown \cup overtaken \subseteq MailIds)'
  <2>1. /\ mail' = Append(mail, [from |-> o, read |-> FALSE])
        /\ sending' = [sending EXCEPT ![o] = "none"] /\ o \in Senders
        /\ shown' \cup overtaken' \subseteq shown \cup overtaken \cup {Len(mail) + 1}
    BY <1>3 DEF StoreMail, Senders
  <2>2. Senders' = Senders \ {o}
    BY <1>1, <2>1 DEF Senders
  <2>3. IsFiniteSet(Senders') /\ Cardinality(Senders') = Cardinality(Senders) - 1
    BY <1>1, <2>1, <2>2, FS_RemoveElement
  <2>4. Len(mail') = Len(mail) + 1
    BY <1>1, <2>1
  <2>5. MailIds' = MailIds \cup {Len(mail) + 1}
    BY <1>1, <2>4 DEF MailIds
  <2>6. MailFits'
    BY <1>1, <2>3, <2>4 DEF MailFits
  <2> QED
    BY <2>1, <2>5, <2>6 DEF SocialTypes
<1>4. ASSUME NEW o \in Others, MarkAsRead(o)
      PROVE  MailFits' /\ (shown \cup overtaken \subseteq MailIds)'
  <2>1. UNCHANGED <<sending, shown, overtaken>> /\ DOMAIN mail' = 1..Len(mail)
    BY <1>4 DEF MarkAsRead, MailIds
  <2>2. mail' \in Seq(Row)
    BY <1>4, MailPreserves DEF SocialIInv
  <2>3. Len(mail') = Len(mail)
    <3>1. Len(mail') \in Nat /\ DOMAIN mail' = 1..Len(mail')
      BY <2>2, LenProperties
    <3> QED
      BY <1>1, <2>1, <3>1
  <2> QED
    BY <2>1, <2>3 DEF MailFits, SocialTypes, Senders, MailIds
<1> QED
  BY <1>2, <1>3, <1>4 DEF MailNext

LEMMA SocialTypesStep ==
    ASSUME SocialIInv, RowsIInv, SocialTypes /\ MailFits, [SocialNext]_socialVars
    PROVE  (SocialTypes /\ MailFits)'
<1>1. CASE SessionNext
  <2>1. /\ UNCHANGED <<sending, mail, edited>> /\ shown' \subseteq shown \cup MailIds
        /\ overtaken' = overtaken /\ friends' \subseteq Others /\ blocks' \subseteq Others
        /\ private' \in BOOLEAN /\ silenced' \in BOOLEAN /\ editsOverlap' \in BOOLEAN
    BY <1>1 DEF SessionNext, Connect, LoadRelationships, DeliverMail, AppearInList, Disconnect,
                ToggleBlockingDMs, SilenceChanges, relationVars, mailVars, SocialTypes, FetchAll,
                FetchUnreadMail
  <2> QED
    BY <2>1 DEF SocialTypes, MailFits, Senders, MailIds
<1>2. CASE EditNext
  <2>1. UNCHANGED <<private, silenced, mailVars>>
    BY <1>2 DEF EditNext, FriendAdd, FriendRemove, Block, Unblock, AddFriend, RemoveFriend,
                FriendAgain, Execute, Look, Delete, CreateRow, Remember, Still
  <2>2. ASSUME NEW e \in Edits, NEW o \in Others,
               \/ FriendAdd(e, o) \/ FriendRemove(e, o) \/ Block(e, o) \/ Unblock(e, o)
               \/ AddFriend(e, o) \/ RemoveFriend(e, o)
        PROVE  /\ friends' \subseteq Others /\ blocks' \subseteq Others
               /\ editsOverlap' \in BOOLEAN /\ edited' \in 0..MaxEdits
    <3>1. edited' \in 0..MaxEdits /\ editsOverlap' \in BOOLEAN
      <4>1. edited < MaxEdits /\ edited' = edited + 1 /\ editsOverlap' = Crosses
        BY <2>2 DEF FriendAdd, FriendRemove, Block, Unblock, AddFriend, RemoveFriend, Free, Counted
      <4> QED
        BY <4>1, SocialAssumption DEF Crosses, InLogin, SocialTypes
    <3> QED
      BY <2>2, <3>1 DEF FriendAdd, FriendRemove, Block, Unblock, AddFriend, RemoveFriend, SocialTypes
  <2>3. ASSUME NEW o \in Others, FriendAgain(o)
        PROVE  /\ friends' \subseteq Others /\ blocks' \subseteq Others
               /\ editsOverlap' \in BOOLEAN /\ edited' \in 0..MaxEdits
    BY <2>3 DEF FriendAgain, SocialTypes
  <2>4. ASSUME NEW e \in Edits, Execute(e) \/ Look(e) \/ Delete(e) \/ CreateRow(e) \/ Remember(e)
        PROVE  /\ friends' \subseteq Others /\ blocks' \subseteq Others
               /\ editsOverlap' \in BOOLEAN /\ edited' \in 0..MaxEdits
    <3>1. UNCHANGED <<blocks, edited, editsOverlap>>
      BY <2>4 DEF Execute, Look, Delete, CreateRow, Remember
    <3>2. friends' \subseteq friends \cup {edits[e].of}
      BY <2>4 DEF Execute, Look, Delete, CreateRow, Remember
    <3>3. friends' = friends \/ edits[e].of \in Others
      <4>1. CASE edits[e] = NoEdit
        <5>1. edits[e].at = "none"
          BY <4>1 DEF NoEdit
        <5> QED
          BY <2>4, <5>1 DEF Execute, Look, Delete, CreateRow, Remember
      <4>2. CASE edits[e] # NoEdit
        BY <4>2 DEF RowsIInv, RowsShape, EditTypes
      <4> QED
        BY <4>1, <4>2
    <3> QED
      BY <3>1, <3>2, <3>3 DEF SocialTypes
  <2> QED
    BY <1>2, <2>1, <2>2, <2>3, <2>4 DEF EditNext, SocialTypes, MailFits, Senders, MailIds, mailVars
<1>3. CASE MailNext
  <2>1. UNCHANGED <<relationVars, private, silenced>>
    BY <1>3 DEF MailNext, Send, LookUp, StoreMail, MarkAsRead, Mailed
  <2> QED
    BY <1>3, <2>1, MailStaysSmall DEF SocialTypes, relationVars
<1>4. CASE UNCHANGED socialVars
  BY <1>4 DEF socialVars, SocialTypes, MailFits, Senders, MailIds
<1> QED
  BY <1>1, <1>2, <1>3, <1>4 DEF SocialNext

\* However edits, messages and logins interleave, rows, sets and mail keep their types.
THEOREM SocialTypeCorrect == SocialSpec => []SocialTypeOK
<1>1. ASSUME SocialIInv, RowsIInv, SocialTypes /\ MailFits
      PROVE  SocialTypeOK
  <2>1. \A e \in OpenEdits : edits[e].of \in Others
    BY <1>1 DEF OpenEdits, RowsIInv, RowsShape, EditTypes
  <2>2. Len(mail) <= MaxMessages
    <3>1. Len(mail) \in Nat /\ Cardinality(Senders) \in Nat /\ MaxMessages \in Nat
      BY <1>1, FS_CardinalityType, SocialAssumption DEF MailFits, SocialIInv
    <3> QED
      BY <1>1, <3>1 DEF MailFits
  <2> QED
    BY <1>1, <2>1, <2>2 DEF SocialTypeOK, SocialIInv, RowsIInv, RowsShape, SocialTypes, Row
<1>2. SocialInit => SocialTypes /\ MailFits
  BY SocialTypesInitially
<1>3. SocialIInv /\ RowsIInv /\ (SocialTypes /\ MailFits) /\ [SocialNext]_socialVars
        => (SocialTypes /\ MailFits)'
  BY SocialTypesStep
<1> QED
  BY <1>1, <1>2, <1>3, MailAlways, RowsInductive, PTL DEF SocialSpec

-----------------------------------------------------------------------------
(***************************************************************************)
(* Accounts. AccountsSound needs what an open request knows: the password  *)
(* it got past was the account's at some time since it began               *)
(* (RequestSound), and the row it will commit has the id and the name of   *)
(* no other (InsertsApart); and what the tables, the bcrypt cache and the  *)
(* sessions say of each other between requests (DataSound).                *)
(***************************************************************************)

AtAccount == {"fetch", "check", "token", "enter", "appear", "evict", "update", "cache"}
OfUser == {"evict", "update", "cache", "name", "rename", "localize", "tell name", "tell alias"}
Places == {"validate", "insert", "stats", "find"} \cup AtAccount \cup OfUser
Targets == {"insert", "token", "enter", "evict", "rename", "localize"}
RequestTypes ==
    [at : Places, then : Targets, user : Ids \cup {None}, name : AccountNames,
     alias : AccountNames \cup {None}, given : Passwords, id : Ids \cup {None},
     hash : Hashes \cup {None}, new : Hashes]

AccountsShape ==
    /\ account \in [Ids -> AccountRows \cup {None}]
    /\ statsOf \subseteq Ids /\ webSessions \subseteq Ids /\ renamed \subseteq AccountNames
    /\ passwordCache \subseteq Hashes \X Passwords
    /\ inGame \in [Ids -> AccountRows \cup {None}]
    /\ byName \in [AccountNames -> Indexed \cup {None}]
    /\ former \subseteq Ids \X Passwords

\* The cache holds what bcrypt would say.
CacheIsTrue == \A entry \in passwordCache : entry[2] = entry[1].of

\* What refers to an account refers to one there is; a password of an account is none
\* of its former ones; no name is in two rows.
RowsAgree ==
    /\ \A i \in Ids : account[i] # None => <<i, account[i].hash.of>> \notin former
    /\ \A i \in Ids, p \in Passwords : <<i, p>> \in former => account[i] # None
    /\ \A i \in webSessions : account[i] # None
    /\ \A i, j \in Ids :
         account[i] # None /\ account[j] # None /\ account[i].name = account[j].name => i = j

\* A session has the name of its account, unless that changed under it.
SessionsAgree ==
    \A i \in Ids : inGame[i] # None =>
      /\ account[i] # None
      /\ inGame[i].name # account[i].name => inGame[i].name \in renamed /\ account[i].name \in renamed

DataSound ==
    AccountsShape /\ CacheIsTrue /\ RowsAgree /\ SessionsAgree /\ AccountsHaveStats
      /\ NameFindsSession

\* What a request has found is still so, but for its name, and its password was that of
\* the account after the request began.
RequestSound(q) ==
    LET r == request[q] IN
    /\ r.at = "validate" => r.then = "insert" /\ r.new.of = r.given
    /\ r.at = "stats" => r.id \in Ids /\ account[r.id] = None /\ Owners(r.name) = {}
    /\ r.at \in AtAccount => r.id \in Ids /\ account[r.id] # None
    /\ r.at \in OfUser \/ r.then \in {"evict", "rename", "localize"} =>
         r.user \in Ids /\ account[r.user] # None
    /\ r.at \in {"check", "appear"} => r.hash \in Hashes
    /\ r.at = "check" => <<r.id, r.hash.of>> \notin retired[q]
    /\ r.at \in {"token", "enter", "appear", "evict", "update", "cache"} =>
         <<r.id, r.given>> \notin retired[q]
    /\ r.at = "name" => r.then = "rename"
    /\ r.at \in {"enter", "appear"} => r.then = "enter"
    /\ r.then = "enter" => r.at \in {"find"} \cup AtAccount
    /\ r.then = "enter" /\ r.at \in AtAccount /\ r.name # account[r.id].name =>
         r.name \in renamed /\ account[r.id].name \in renamed

\* Two transactions do not insert the same row.
InsertsApart ==
    \A q, r \in OpenRequests :
      request[q].at = "stats" /\ request[r].at = "stats" /\ q # r =>
        request[q].id # request[r].id /\ request[q].name # request[r].name

RequestsSound ==
    /\ request \in [AccountRequests -> RequestTypes \cup {NoRequest}]
    /\ requested \in 0..MaxAccountRequests
    /\ retired \in [AccountRequests -> SUBSET former]
    /\ \A q \in OpenRequests : RequestSound(q)
    /\ InsertsApart

AccountsIInv == DataSound /\ RequestsSound

-----------------------------------------------------------------------------
LEMMA AccountsInitially == AccountsInit => AccountsIInv
<1> SUFFICES ASSUME AccountsInit PROVE AccountsIInv
  OBVIOUS
<1>1. FirstName \in AccountNames /\ [of |-> FirstPassword, salt |-> 0] \in Hashes
  BY AccountsAssumption DEF Hashes
<1> DEFINE tuple == [name |-> FirstName, alias |-> None, hash |-> [of |-> FirstPassword, salt |-> 0]]
<1>2. tuple \in AccountRows
  BY <1>1 DEF AccountRows
<1>3. account = [i \in Ids |-> IF i # First THEN None ELSE tuple]
  BY DEF AccountsInit
<1> HIDE DEF tuple
<1>4. AccountsShape
  BY <1>2, <1>3, AccountsAssumption DEF AccountsInit, AccountsShape
<1>5. RowsAgree
  BY <1>3 DEF AccountsInit, RowsAgree
<1>6. AccountsHaveStats
  BY <1>3 DEF AccountsInit, AccountsHaveStats
<1>7. NameFindsSession
  BY NoneAssumption DEF AccountsInit, NameFindsSession, Leads
<1>8. CacheIsTrue /\ SessionsAgree
  BY DEF AccountsInit, CacheIsTrue, SessionsAgree
<1>9. OpenRequests = {}
  BY DEF AccountsInit, OpenRequests
<1>10. RequestsSound
  BY <1>9, AccountsAssumption DEF AccountsInit, RequestsSound, InsertsApart
<1> QED
  BY <1>4, <1>5, <1>6, <1>7, <1>8, <1>10 DEF AccountsIInv, DataSound

-----------------------------------------------------------------------------
(* Requests *)

LEMMA PlacesAreRequests == ASSUME NEW r \in RequestTypes PROVE r # NoRequest
BY DEF RequestTypes, NoRequest, Places, AtAccount

LEMMA OpenRequest ==
    ASSUME AccountsIInv, NEW q \in AccountRequests, request[q].at # "none"
    PROVE  q \in OpenRequests /\ request[q] \in RequestTypes /\ RequestSound(q)
<1>1. request[q] # NoRequest
  BY DEF NoRequest
<1> QED
  BY <1>1 DEF OpenRequests, AccountsIInv, RequestsSound

LEMMA RequestGoes ==
    ASSUME NEW r \in RequestTypes, NEW at \in Places
    PROVE  LET next == [r EXCEPT !.at = at] IN
           /\ next \in RequestTypes /\ next.at = at /\ next.then = r.then /\ next.user = r.user
           /\ next.name = r.name /\ next.alias = r.alias /\ next.given = r.given /\ next.id = r.id
           /\ next.hash = r.hash /\ next.new = r.new
BY DEF RequestTypes

\* A step of one request that leaves the tables as they are.
LEMMA RequestMoves ==
    ASSUME AccountsIInv, NEW q \in OpenRequests, NEW next \in RequestTypes,
           request' = [request EXCEPT ![q] = next], UNCHANGED <<tables, history>>,
           DataSound', RequestSound(q)',
           next.at = "stats" => \A r \in OpenRequests :
             request[r].at = "stats" => request[r].id # next.id /\ request[r].name # next.name
    PROVE  AccountsIInv'
<1>1. /\ \A r \in AccountRequests : request'[r] = IF r = q THEN next ELSE request[r]
      /\ request' \in [AccountRequests -> RequestTypes \cup {NoRequest}]
  BY DEF AccountsIInv, RequestsSound, OpenRequests
<1>2. OpenRequests' = OpenRequests
  BY <1>1, PlacesAreRequests DEF OpenRequests
<1>3. \A r \in OpenRequests : RequestSound(r)'
  <2>1. ASSUME NEW r \in OpenRequests, r # q
        PROVE  RequestSound(r)'
    <3>1. RequestSound(r) /\ request'[r] = request[r]
      BY <1>1, <2>1 DEF AccountsIInv, RequestsSound, OpenRequests
    <3>2. \A n : Owners(n)' = Owners(n)
      BY DEF Owners, tables
    <3> QED
      BY <3>1, <3>2 DEF RequestSound, tables, history
  <2> QED
    BY <2>1
<1>4. InsertsApart'
  BY <1>1, <1>2 DEF AccountsIInv, RequestsSound, InsertsApart, OpenRequests
<1> QED
  BY <1>1, <1>2, <1>3, <1>4 DEF AccountsIInv, RequestsSound, history

LEMMA RequestEnds ==
    ASSUME AccountsIInv, NEW q \in OpenRequests, End(q), UNCHANGED <<requested, former, retired>>,
           DataSound', \A r \in OpenRequests \ {q} : RequestSound(r)'
    PROVE  AccountsIInv'
<1>1. /\ \A r \in AccountRequests : request'[r] = IF r = q THEN NoRequest ELSE request[r]
      /\ request' \in [AccountRequests -> RequestTypes \cup {NoRequest}]
  BY DEF AccountsIInv, RequestsSound, OpenRequests, End
<1>2. OpenRequests' = OpenRequests \ {q}
  BY <1>1 DEF OpenRequests
<1>3. InsertsApart'
  BY <1>1, <1>2 DEF AccountsIInv, RequestsSound, InsertsApart, OpenRequests
<1> QED
  BY <1>1, <1>2, <1>3 DEF AccountsIInv, RequestsSound

\* What the other requests found stays so when the tables do.
LEMMA OthersSound ==
    ASSUME AccountsIInv, NEW q \in OpenRequests,
           \A r \in OpenRequests \ {q} : request'[r] = request[r],
           UNCHANGED <<account, former, retired>>, renamed \subseteq renamed'
    PROVE  \A r \in OpenRequests \ {q} : RequestSound(r)'
<1>1. ASSUME NEW r \in OpenRequests \ {q}
      PROVE  RequestSound(r)'
  <2>1. RequestSound(r) /\ request'[r] = request[r] /\ r \in AccountRequests
    BY <1>1 DEF AccountsIInv, RequestsSound, OpenRequests
  <2>2. \A n : Owners(n)' = Owners(n)
    BY DEF Owners
  <2> QED
    BY <2>1, <2>2 DEF RequestSound
<1> QED
  BY <1>1

LEMMA EndsOnly ==
    ASSUME AccountsIInv, NEW q \in OpenRequests, End(q),
           UNCHANGED <<tables, passwordCache, signedIn, history>>
    PROVE  AccountsIInv'
<1>1. \A r \in OpenRequests \ {q} : request'[r] = request[r]
  BY DEF End, AccountsIInv, RequestsSound, OpenRequests
<1>2. DataSound'
  BY DEF AccountsIInv, DataSound, AccountsShape, CacheIsTrue, RowsAgree, SessionsAgree,
     AccountsHaveStats, NameFindsSession, Leads, tables, memory, signedIn, history
<1> QED
  BY <1>1, <1>2, OthersSound, RequestEnds DEF tables, history

LEMMA CacheChanges ==
    ASSUME DataSound, passwordCache' \subseteq Hashes \X Passwords, CacheIsTrue',
           UNCHANGED <<tables, signedIn, former, renamed>>
    PROVE  DataSound'
BY DEF DataSound, AccountsShape, RowsAgree, SessionsAgree, AccountsHaveStats, NameFindsSession, Leads,
   tables, signedIn

-----------------------------------------------------------------------------
LEMMA AcceptPreserves ==
    ASSUME AccountsIInv, NEW q \in AccountRequests, NEW n \in AccountNames,
           NEW given \in Passwords, NEW new \in Passwords, NEW user \in Ids \cup {None},
           NEW alias \in AccountNames \cup {None},
           NEW at \in {"validate", "find", "name", "localize"}, NEW then \in Targets,
           at = "validate" => then = "insert" /\ new = given,
           at \in {"name", "localize"} \/ then \in {"evict", "rename", "localize"} =>
             user \in Ids /\ account[user] # None,
           at = "name" => then = "rename",
           then = "enter" => at = "find",
           Accept(q, <<at, then>>, user, n, alias, given, new)
    PROVE  AccountsIInv'
<1> DEFINE r == [at |-> at, then |-> then, user |-> user, name |-> n, alias |-> alias,
                 given |-> given, id |-> None, hash |-> None,
                 new |-> [of |-> new, salt |-> requested + 1]]
<1>1. /\ requested < MaxAccountRequests /\ requested' = requested + 1
      /\ request' = [request EXCEPT ![q] = r] /\ retired' = [retired EXCEPT ![q] = former]
      /\ request[q] = NoRequest
      /\ UNCHANGED <<tables, memory, former, renamed>>
  BY DEF Accept
<1>2. requested + 1 \in 0..MaxAccountRequests
  BY <1>1, AccountsAssumption DEF AccountsIInv, RequestsSound
<1>3. [of |-> new, salt |-> requested + 1] \in Hashes
  BY <1>2 DEF Hashes
<1>4. r \in RequestTypes
  BY <1>3 DEF RequestTypes, Places, AtAccount, OfUser
<1>5. r.at = at /\ r.then = then /\ r.user = user /\ r.given = given /\ r.new.of = new
  OBVIOUS
<1> HIDE DEF r
<1>6. /\ \A p \in AccountRequests : request'[p] = IF p = q THEN r ELSE request[p]
      /\ \A p \in AccountRequests : retired'[p] = IF p = q THEN former ELSE retired[p]
      /\ request' \in [AccountRequests -> RequestTypes \cup {NoRequest}]
      /\ retired' \in [AccountRequests -> SUBSET former']
  BY <1>1, <1>4 DEF AccountsIInv, RequestsSound
<1>7. OpenRequests' = OpenRequests \cup {q} /\ q \notin OpenRequests
  BY <1>1, <1>4, <1>6, PlacesAreRequests DEF OpenRequests
<1>8. \A m : Owners(m)' = Owners(m)
  BY <1>1 DEF Owners, tables
<1>9. ASSUME NEW p \in OpenRequests
      PROVE  RequestSound(p)'
  <2>1. RequestSound(p) /\ request'[p] = request[p] /\ retired'[p] = retired[p]
    BY <1>6, <1>7 DEF AccountsIInv, RequestsSound, OpenRequests
  <2> QED
    BY <1>1, <1>8, <2>1 DEF RequestSound, tables
<1>10. RequestSound(q)'
  <2>1. request'[q] = r
    BY <1>6
  <2> QED
    BY <1>1, <1>5, <2>1 DEF RequestSound, AtAccount, OfUser, tables
<1>11. InsertsApart'
  BY <1>5, <1>6, <1>7 DEF AccountsIInv, RequestsSound, InsertsApart, OpenRequests
<1>12. DataSound'
  BY <1>1, CacheChanges DEF AccountsIInv, DataSound, AccountsShape, CacheIsTrue, memory, signedIn
<1> QED
  BY <1>1, <1>2, <1>6, <1>7, <1>9, <1>10, <1>11, <1>12 DEF AccountsIInv, RequestsSound

LEMMA BeginsPreserve ==
    ASSUME AccountsIInv, NEW q \in AccountRequests, NEW n \in AccountNames, NEW p \in Passwords,
           Register(q, n, p) \/ WebLogin(q, n, p) \/ GameLogin(q, n, p)
    PROVE  AccountsIInv'
BY AcceptPreserves DEF Register, WebLogin, GameLogin, Targets

LEMMA ChangesBegin ==
    ASSUME AccountsIInv, NEW q \in AccountRequests, NEW i \in Ids,
           \/ \E p, new \in Passwords : ChangePassword(q, i, p, new)
           \/ \E n \in AccountNames : Rename(q, i, n)
           \/ \E alias \in AccountNames \cup {None} : Localize(q, i, alias)
    PROVE  AccountsIInv'
<1>1. ASSUME i \in webSessions
      PROVE  account[i] # None /\ account[i].name \in AccountNames
  BY <1>1 DEF AccountsIInv, DataSound, AccountsShape, RowsAgree, AccountRows
<1>2. ASSUME NEW p \in Passwords, NEW new \in Passwords, ChangePassword(q, i, p, new)
      PROVE  AccountsIInv'
  BY <1>1, <1>2, AcceptPreserves DEF ChangePassword, Targets
<1>3. ASSUME NEW n \in AccountNames, Rename(q, i, n)
      PROVE  AccountsIInv'
  BY <1>1, <1>3, AcceptPreserves, AccountsAssumption DEF Rename, Targets
<1>4. ASSUME NEW alias \in AccountNames \cup {None}, Localize(q, i, alias)
      PROVE  AccountsIInv'
  BY <1>1, <1>4, AcceptPreserves, AccountsAssumption DEF Localize, Targets
<1> QED
  BY <1>2, <1>3, <1>4

-----------------------------------------------------------------------------
(* Registration *)

LEMMA ValidatePreserves ==
    ASSUME AccountsIInv, NEW q \in AccountRequests, ValidateRegistration(q)
    PROVE  AccountsIInv'
<1>1. /\ request[q].at = "validate"
      /\ UNCHANGED <<tables, signedIn, history>>
      /\ \/ End(q) /\ UNCHANGED passwordCache
         \/ /\ passwordCache' = passwordCache \cup {<<request[q].new, request[q].given>>}
            /\ Go(q, request[q].then)
  BY DEF ValidateRegistration, RequestAt, Cache
<1>2. q \in OpenRequests /\ request[q] \in RequestTypes /\ RequestSound(q)
  BY <1>1, OpenRequest
<1>3. CASE End(q) /\ UNCHANGED passwordCache
  BY <1>1, <1>2, <1>3, EndsOnly DEF memory, signedIn
<1>4. CASE /\ passwordCache' = passwordCache \cup {<<request[q].new, request[q].given>>}
           /\ Go(q, request[q].then)
  <2> DEFINE next == [request[q] EXCEPT !.at = "insert"]
  <2>1. request[q].then = "insert" /\ request[q].new.of = request[q].given
    BY <1>1, <1>2 DEF RequestSound
  <2>2. /\ next \in RequestTypes /\ next.at = "insert" /\ next.then = "insert"
    <3>1. "insert" \in Places
      BY DEF Places
    <3> QED
      BY <1>2, <2>1, <3>1, RequestGoes, Zenon
  <2>3. request' = [request EXCEPT ![q] = next]
    BY <1>4, <2>1, Zenon DEF Go
  <2> HIDE DEF next
  <2>4. request[q].new \in Hashes /\ request[q].given \in Passwords
    BY <1>2 DEF RequestTypes
  <2>5. DataSound'
    <3>1. passwordCache' \subseteq Hashes \X Passwords /\ CacheIsTrue'
      BY <1>4, <2>1, <2>4 DEF AccountsIInv, DataSound, AccountsShape, CacheIsTrue
    <3> QED
      BY <1>1, <3>1, CacheChanges DEF AccountsIInv, history
  <2>6. request'[q] = next
    BY <1>2, <2>3 DEF AccountsIInv, RequestsSound, OpenRequests
  <2>7. RequestSound(q)'
    BY <1>1, <1>2, <2>2, <2>6 DEF RequestSound, AtAccount, OfUser, tables
  <2> QED
    BY <1>1, <1>2, <2>2, <2>3, <2>5, <2>7, RequestMoves
<1> QED
  BY <1>1, <1>3, <1>4

LEMMA InsertPreserves ==
    ASSUME AccountsIInv, NEW q \in AccountRequests, InsertUser(q)
    PROVE  AccountsIInv'
<1>1. /\ request[q].at = "insert" /\ UNCHANGED <<tables, memory, history>>
      /\ \A r \in OpenRequests : request[r].at = "stats" => request[r].name # request[q].name
  BY DEF InsertUser, RequestAt
<1>2. q \in OpenRequests /\ request[q] \in RequestTypes /\ RequestSound(q)
  BY <1>1, OpenRequest
<1>3. CASE End(q)
  BY <1>1, <1>2, <1>3, EndsOnly DEF memory
<1>4. ASSUME Owners(request[q].name) = {}, NEW i \in Ids, account[i] = None,
             \A r \in OpenRequests : request[r].at = "stats" => request[r].id # i,
             request' = [request EXCEPT ![q].at = "stats", ![q].id = i]
      PROVE  AccountsIInv'
  <2> DEFINE next == [request[q] EXCEPT !.at = "stats", !.id = i]
  <2>1. /\ next \in RequestTypes /\ next.at = "stats" /\ next.id = i
        /\ next.name = request[q].name /\ next.then = request[q].then /\ next.user = request[q].user
    BY <1>2 DEF RequestTypes, Places
  <2>2. request' = [request EXCEPT ![q] = next]
    BY <1>4, Zenon
  <2> HIDE DEF next
  <2>3. request[q].then # "enter"
    BY <1>1, <1>2 DEF RequestSound, AtAccount
  <2>4. request'[q] = next
    BY <1>2, <2>2 DEF AccountsIInv, RequestsSound, OpenRequests
  <2>5. \A n : Owners(n)' = Owners(n)
    BY <1>1 DEF Owners, tables
  <2>6. RequestSound(q)'
    BY <1>1, <1>2, <1>4, <2>1, <2>3, <2>4, <2>5 DEF RequestSound, AtAccount, OfUser, tables
  <2>7. DataSound'
    BY <1>1, CacheChanges DEF AccountsIInv, DataSound, AccountsShape, CacheIsTrue, memory, signedIn, history
  <2>8. \A r \in OpenRequests :
          request[r].at = "stats" => request[r].id # next.id /\ request[r].name # next.name
    BY <1>1, <1>4, <2>1
  <2>9. UNCHANGED <<tables, history>>
    BY <1>1
  <2> QED
    BY <1>2, <2>1, <2>2, <2>6, <2>7, <2>8, <2>9, RequestMoves
<1> QED
  BY <1>3, <1>4 DEF InsertUser, RequestAt

LEMMA CreateKeeps ==
    ASSUME AccountsIInv, NEW q \in AccountRequests, CreateAccount(q)
    PROVE  AccountsIInv'
<1> DEFINE i == request[q].id
           tuple == [name |-> request[q].name, alias |-> None, hash |-> request[q].new]
<1>1. /\ request[q].at = "stats" /\ End(q) /\ UNCHANGED <<memory, history>>
      /\ \/ account' = [account EXCEPT ![i] = tuple] /\ statsOf' = statsOf \cup {i}
         \/ UNCHANGED tables
  BY DEF CreateAccount, RequestAt
<1>2. q \in OpenRequests /\ request[q] \in RequestTypes /\ RequestSound(q)
  BY <1>1, OpenRequest
<1>3. CASE UNCHANGED tables
  BY <1>1, <1>2, <1>3, EndsOnly DEF memory
<1>4. CASE account' = [account EXCEPT ![i] = tuple] /\ statsOf' = statsOf \cup {i}
  <2>1. i \in Ids /\ account[i] = None /\ Owners(request[q].name) = {}
    BY <1>1, <1>2 DEF RequestSound
  <2>2. tuple \in AccountRows /\ tuple.name = request[q].name /\ tuple # None
    BY <1>2, NoneAssumption DEF RequestTypes, AccountRows
  <2> DEFINE name == request[q].name
  <2> HIDE DEF i, tuple, name
  <2>3. \A j \in Ids : account'[j] = IF j = i THEN tuple ELSE account[j]
    BY <1>4 DEF AccountsIInv, DataSound, AccountsShape
  <2>4. \A j \in Ids : account[j] # None => account[j].name # tuple.name
    BY <2>1, <2>2 DEF Owners
  <2>5. RowsAgree'
    <3>1. \A p \in Passwords : <<i, p>> \notin former
      BY <2>1 DEF AccountsIInv, DataSound, RowsAgree
    <3>2. i \notin webSessions
      BY <2>1 DEF AccountsIInv, DataSound, RowsAgree
    <3>3. tuple.hash.of \in Passwords
      BY <2>2 DEF AccountRows, Hashes
    <3>4. \A j \in Ids : account'[j] # None => <<j, account'[j].hash.of>> \notin former'
      BY <1>1, <2>3, <3>1, <3>3 DEF history, AccountsIInv, DataSound, RowsAgree
    <3>5. \A j, k \in Ids :
            account'[j] # None /\ account'[k] # None /\ account'[j].name = account'[k].name => j = k
      BY <2>3, <2>4 DEF AccountsIInv, DataSound, RowsAgree
    <3>6. /\ \A j \in Ids, p \in Passwords : <<j, p>> \in former' => account'[j] # None
          /\ \A j \in webSessions' : account'[j] # None
      BY <1>1, <2>2, <2>3 DEF AccountsIInv, DataSound, RowsAgree, AccountsShape, memory, signedIn, history
    <3> QED
      BY <3>4, <3>5, <3>6 DEF RowsAgree
  <2>6. inGame[i] = None /\ SessionsAgree' /\ NameFindsSession'
    <3>1. inGame[i] = None
      BY <2>1 DEF AccountsIInv, DataSound, SessionsAgree
    <3>2. SessionsAgree'
      BY <1>1, <2>3, <3>1 DEF AccountsIInv, DataSound, SessionsAgree, memory, signedIn, history
    <3>3. NameFindsSession'
      BY <1>1, <2>3, <3>1 DEF AccountsIInv, DataSound, NameFindsSession, Leads, memory, signedIn, history
    <3> QED
      BY <3>1, <3>2, <3>3
  <2>7. AccountsShape' /\ CacheIsTrue' /\ AccountsHaveStats'
    BY <1>1, <1>4, <2>1, <2>2, <2>3
    DEF AccountsIInv, DataSound, AccountsShape, CacheIsTrue, AccountsHaveStats, memory, signedIn, history
  <2>8. ASSUME NEW r \in OpenRequests \ {q}
        PROVE  RequestSound(r)'
    <3>1. RequestSound(r) /\ request'[r] = request[r] /\ r \in AccountRequests
      BY <1>1 DEF AccountsIInv, RequestsSound, OpenRequests, End
    <3>2. request[r].at = "stats" => request[r].id # i /\ request[r].name # tuple.name
      BY <1>1, <1>2, <2>2 DEF AccountsIInv, RequestsSound, InsertsApart, i
    <3>3. \A n : n # tuple.name => Owners(n)' = Owners(n)
      BY <2>1, <2>3 DEF Owners
    <3>4. /\ request[r].at \in AtAccount => request[r].id # i
          /\ request[r].at \in OfUser \/ request[r].then \in {"evict", "rename", "localize"} =>
               request[r].user # i
      BY <2>1, <3>1 DEF RequestSound
    <3> QED
      BY <1>1, <2>3, <3>1, <3>2, <3>3, <3>4 DEF RequestSound, history
  <2> QED
    BY <1>1, <1>2, <2>5, <2>6, <2>7, <2>8, RequestEnds DEF AccountsIInv, DataSound, history
<1> QED
  BY <1>1, <1>3, <1>4

-----------------------------------------------------------------------------
(* Passwords *)

LEMMA FindPreserves ==
    ASSUME AccountsIInv, NEW q \in AccountRequests, FindUser(q)
    PROVE  AccountsIInv'
<1>1. /\ request[q].at = "find" /\ UNCHANGED <<tables, memory, history>>
      /\ \/ End(q)
         \/ \E i \in Named(request[q].name) :
              request' = [request EXCEPT ![q].id = i, ![q].name = account[i].name,
                                         ![q].alias = account[i].alias, ![q].at = "fetch"]
  BY DEF FindUser, RequestAt
<1>2. q \in OpenRequests /\ request[q] \in RequestTypes /\ RequestSound(q)
  BY <1>1, OpenRequest
<1>3. CASE End(q)
  BY <1>1, <1>2, <1>3, EndsOnly DEF memory
<1>4. ASSUME NEW i \in Named(request[q].name),
             request' = [request EXCEPT ![q].id = i, ![q].name = account[i].name,
                                         ![q].alias = account[i].alias, ![q].at = "fetch"]
      PROVE  AccountsIInv'
  <2> DEFINE next == [request[q] EXCEPT !.id = i, !.name = account[i].name,
                                     !.alias = account[i].alias, !.at = "fetch"]
  <2>1. i \in Ids /\ account[i] # None /\ account[i] \in AccountRows
    BY DEF Named, AccountsIInv, DataSound, AccountsShape
  <2>2. /\ next \in RequestTypes /\ next.at = "fetch" /\ next.id = i /\ next.name = account[i].name
        /\ next.then = request[q].then /\ next.user = request[q].user
    BY <1>2, <2>1 DEF RequestTypes, Places, AtAccount, AccountRows
  <2>3. request' = [request EXCEPT ![q] = next]
    BY <1>4, Zenon
  <2> HIDE DEF next
  <2>4. request'[q] = next
    BY <1>2, <2>3 DEF AccountsIInv, RequestsSound, OpenRequests
  <2>5. RequestSound(q)'
    BY <1>1, <1>2, <2>1, <2>2, <2>4 DEF RequestSound, AtAccount, OfUser, tables, history
  <2>6. DataSound' /\ UNCHANGED <<tables, history>>
    BY <1>1, CacheChanges DEF AccountsIInv, DataSound, AccountsShape, CacheIsTrue, memory, signedIn, history
  <2> QED
    BY <1>2, <2>2, <2>3, <2>5, <2>6, RequestMoves
<1> QED
  BY <1>1, <1>3, <1>4

\* The hash that is fetched is of no former password.
LEMMA FetchPreserves ==
    ASSUME AccountsIInv, NEW q \in AccountRequests,
           FetchHash(q) \/ FetchOldHash(q) \/ FetchSessionHash(q)
    PROVE  AccountsIInv'
<1> DEFINE of(at) == IF at = "update" THEN request[q].user ELSE request[q].id
<1>1. PICK at \in {"check", "update", "appear"} :
        /\ request[q].at = IF at = "check" THEN "fetch" ELSE IF at = "update" THEN "evict" ELSE "enter"
        /\ request' = [request EXCEPT ![q].hash = account[of(at)].hash, ![q].at = at]
        /\ UNCHANGED <<tables, memory, history>>
  <2>1. CASE FetchHash(q)
    BY <2>1 DEF FetchHash, RequestAt
  <2>2. CASE FetchOldHash(q)
    BY <2>2 DEF FetchOldHash, RequestAt
  <2>3. CASE FetchSessionHash(q)
    BY <2>3 DEF FetchSessionHash, RequestAt
  <2> QED
    BY <2>1, <2>2, <2>3
<1> DEFINE hash == account[of(at)].hash
<1>2. q \in OpenRequests /\ request[q] \in RequestTypes /\ RequestSound(q)
  BY <1>1, OpenRequest
<1>3. /\ request[q].id \in Ids /\ account[request[q].id] # None
      /\ of(at) \in Ids /\ account[of(at)] # None
  BY <1>1, <1>2 DEF RequestSound, AtAccount, OfUser
<1>4. hash \in Hashes /\ <<of(at), hash.of>> \notin former
  BY <1>3 DEF AccountsIInv, DataSound, AccountsShape, RowsAgree, AccountRows
<1>5. retired[q] \subseteq former
  BY <1>2 DEF AccountsIInv, RequestsSound, OpenRequests
<1>6. at = "check" => of(at) = request[q].id
  OBVIOUS
<1> HIDE DEF hash, of
<1> DEFINE next == [request[q] EXCEPT !.hash = hash, !.at = at]
<1>7. /\ next \in RequestTypes /\ next.at = at /\ next.then = request[q].then
      /\ next.name = request[q].name /\ next.given = request[q].given
      /\ next.id = request[q].id /\ next.user = request[q].user /\ next.hash = hash
  BY <1>2, <1>4 DEF RequestTypes, Places, AtAccount, OfUser
<1>8. request' = [request EXCEPT ![q] = next]
  BY <1>1, Zenon DEF hash
<1> HIDE DEF next
<1>9. request'[q] = next
  BY <1>2, <1>8 DEF AccountsIInv, RequestsSound, OpenRequests
<1>10. RequestSound(q)'
  <2>1. UNCHANGED <<account, retired, renamed>>
    BY <1>1 DEF tables, history
  <2>2. request[q].then = "enter" /\ request[q].name # account[request[q].id].name =>
          request[q].name \in renamed /\ account[request[q].id].name \in renamed
    BY <1>1, <1>2 DEF RequestSound, AtAccount
  <2>3. /\ at = "check" => <<next.id, next.hash.of>> \notin retired[q]
        /\ at \in {"update", "appear"} => <<next.id, next.given>> \notin retired[q]
    BY <1>1, <1>2, <1>4, <1>5, <1>6, <1>7 DEF RequestSound
  <2>4. /\ at \in AtAccount /\ next.id \in Ids /\ account[next.id] # None /\ next.hash \in Hashes
        /\ at \in OfUser \/ next.then \in {"evict", "rename", "localize"} =>
             next.user \in Ids /\ account[next.user] # None
        /\ at = "appear" => next.then = "enter"
    BY <1>1, <1>2, <1>3, <1>4, <1>7 DEF AtAccount, OfUser, RequestSound
  <2>5. next.then = "enter" /\ next.name # account[next.id].name =>
          next.name \in renamed /\ account[next.id].name \in renamed
    BY <1>7, <2>2
  <2>6. /\ next.at \in {"check", "appear"} => next.hash \in Hashes
        /\ next.at \in {"token", "enter", "appear", "evict", "update", "cache"} =>
             <<next.id, next.given>> \notin retired[q]
        /\ next.at \notin {"validate", "stats", "name"}
    BY <1>1, <1>7, <2>3, <2>4
  <2> QED
    BY <1>7, <1>9, <2>1, <2>3, <2>4, <2>5, <2>6 DEF RequestSound
<1>11. DataSound' /\ UNCHANGED <<tables, history>>
  BY <1>1, CacheChanges DEF AccountsIInv, DataSound, AccountsShape, CacheIsTrue, memory, signedIn, history
<1> QED
  BY <1>1, <1>2, <1>7, <1>8, <1>10, <1>11, RequestMoves

\* Whatever the cache has, a password that is verified is that of the hash.
LEMMA VerifyPreserves ==
    ASSUME AccountsIInv, NEW q \in AccountRequests, Verify(q)
    PROVE  AccountsIInv'
<1> DEFINE r == request[q]
<1>1. /\ r.at = "check" /\ UNCHANGED <<tables, signedIn, history>>
      /\ IF Verifies(r.hash, r.given)
         THEN passwordCache' = passwordCache \cup {<<r.hash, r.given>>} /\ Go(q, r.then)
         ELSE UNCHANGED passwordCache /\ End(q)
  BY DEF Verify, RequestAt, Cache
<1>2. q \in OpenRequests /\ r \in RequestTypes /\ RequestSound(q)
  BY <1>1, OpenRequest
<1>3. CASE ~Verifies(r.hash, r.given)
  BY <1>1, <1>2, <1>3, EndsOnly DEF memory, signedIn
<1>4. CASE Verifies(r.hash, r.given)
  <2>1. /\ r.hash \in Hashes /\ r.given \in Passwords /\ r.then \in Places
        /\ <<r.id, r.hash.of>> \notin retired[q]
        /\ r.id \in Ids /\ account[r.id] # None
    BY <1>1, <1>2 DEF RequestSound, RequestTypes, Places, Targets, AtAccount, OfUser
  <2>2. r.given = r.hash.of
    BY <1>4 DEF Verifies, AccountsIInv, DataSound, CacheIsTrue
  <2> DEFINE next == [r EXCEPT !.at = r.then]
  <2>3. /\ next \in RequestTypes /\ next.at = r.then /\ next.then = r.then /\ next.name = r.name
        /\ next.given = r.given /\ next.id = r.id /\ next.user = r.user
    BY <1>2, <2>1, RequestGoes, Zenon
  <2>4. request' = [request EXCEPT ![q] = next]
    BY <1>1, <1>4, Zenon DEF Go
  <2>5. r.then \in {"insert", "token", "enter", "evict", "rename", "localize"}
    BY <1>2 DEF RequestTypes, Targets
  <2>6. passwordCache' = passwordCache \cup {<<r.hash, r.given>>}
    BY <1>1, <1>4
  <2> HIDE DEF next
  <2>7. request'[q] = next
    BY <1>2, <2>4 DEF AccountsIInv, RequestsSound, OpenRequests
  <2>8. RequestSound(q)'
    BY <1>1, <1>2, <2>1, <2>2, <2>3, <2>5, <2>7 DEF RequestSound, AtAccount, OfUser, tables, history
  <2>9. DataSound'
    <3>1. passwordCache' \subseteq Hashes \X Passwords /\ CacheIsTrue'
      BY <2>1, <2>2, <2>6 DEF AccountsIInv, DataSound, AccountsShape, CacheIsTrue
    <3> QED
      BY <1>1, <3>1, CacheChanges DEF AccountsIInv, history
  <2> QED
    BY <1>1, <1>2, <2>3, <2>4, <2>5, <2>8, <2>9, RequestMoves
<1> QED
  BY <1>3, <1>4

\* A step of one request that changes the tables.
LEMMA RequestWrites ==
    ASSUME AccountsIInv, NEW q \in OpenRequests, NEW next \in RequestTypes, next.at # "stats",
           request' = [request EXCEPT ![q] = next], UNCHANGED requested,
           retired' \in [AccountRequests -> SUBSET former'],
           DataSound', \A r \in OpenRequests : RequestSound(r)'
    PROVE  AccountsIInv'
<1>1. /\ \A r \in AccountRequests : request'[r] = IF r = q THEN next ELSE request[r]
      /\ request' \in [AccountRequests -> RequestTypes \cup {NoRequest}]
  BY DEF AccountsIInv, RequestsSound, OpenRequests
<1>2. OpenRequests' = OpenRequests
  BY <1>1, PlacesAreRequests DEF OpenRequests
<1>3. InsertsApart'
  BY <1>1, <1>2 DEF AccountsIInv, RequestsSound, InsertsApart, OpenRequests
<1> QED
  BY <1>1, <1>2, <1>3 DEF AccountsIInv, RequestsSound

LEMMA UpdatePreserves ==
    ASSUME AccountsIInv, NEW q \in AccountRequests, UpdatePassword(q)
    PROVE  AccountsIInv'
<1> DEFINE i == request[q].user
           new == request[q].new
           old == <<i, account[i].hash.of>>
           again == <<i, new.of>>
           tuple == [account[i] EXCEPT !.hash = new]
<1>1. /\ request[q].at = "update"
      /\ account' = [account EXCEPT ![i].hash = new]
      /\ former' = (former \cup {old}) \ {again}
      /\ retired' = [r \in AccountRequests |-> retired[r] \ {again}]
      /\ request' = [request EXCEPT ![q].at = "cache"]
      /\ UNCHANGED <<statsOf, passwordCache, signedIn, requested, renamed>>
  BY DEF UpdatePassword, RequestAt, Go
<1>2. q \in OpenRequests /\ request[q] \in RequestTypes /\ RequestSound(q)
  BY <1>1, OpenRequest
<1>3. /\ i \in Ids /\ account[i] # None /\ account[i] \in AccountRows
      /\ new \in Hashes /\ new.of \in Passwords /\ account[i].hash.of \in Passwords
  BY <1>1, <1>2 DEF RequestSound, OfUser, RequestTypes, AccountRows, Hashes, AccountsIInv, DataSound,
     AccountsShape
<1> HIDE DEF new
<1>4. tuple \in AccountRows /\ tuple.name = account[i].name /\ tuple.hash = new
  BY <1>3 DEF AccountRows
<1>5. account' = [account EXCEPT ![i] = tuple]
  BY <1>1, Zenon
<1>6. tuple # None
  BY <1>4, NoneAssumption
<1> DEFINE next == [request[q] EXCEPT !.at = "cache"]
<1>7. /\ next \in RequestTypes /\ next.at = "cache" /\ next.user = i /\ next.id = request[q].id
      /\ next.name = request[q].name /\ next.given = request[q].given /\ next.then = request[q].then
  <2>1. "cache" \in Places
    BY DEF Places, AtAccount
  <2> QED
    BY <1>2, <2>1, RequestGoes, Zenon
<1>8. request' = [request EXCEPT ![q] = next]
  BY <1>1, Zenon
<1> HIDE DEF tuple, next, i
<1>9. \A j \in Ids : account'[j] = IF j = i THEN tuple ELSE account[j]
  BY <1>5 DEF AccountsIInv, DataSound, AccountsShape
<1>10. \A j \in Ids :
         /\ account'[j] = None <=> account[j] = None
         /\ account[j] # None => account'[j].name = account[j].name
  BY <1>3, <1>4, <1>6, <1>9
<1>11. /\ former' \subseteq Ids \X Passwords
       /\ \A r \in AccountRequests : retired'[r] \subseteq retired[r]
       /\ retired' \in [AccountRequests -> SUBSET former']
  <2>1. old \in Ids \X Passwords
    BY <1>3
  <2> HIDE DEF old, again
  <2> QED
    BY <1>1, <2>1 DEF AccountsIInv, DataSound, RequestsSound, AccountsShape
<1>12. RowsAgree'
  <2>1. ASSUME NEW j \in Ids, account'[j] # None
        PROVE  <<j, account'[j].hash.of>> \notin former'
    <3>1. CASE j = i
      BY <1>1, <1>4, <1>9, <3>1
    <3>2. CASE j # i
      BY <1>1, <1>9, <2>1, <3>2 DEF AccountsIInv, DataSound, RowsAgree
    <3> QED
      BY <3>1, <3>2
  <2>2. \A j \in Ids, p \in Passwords : <<j, p>> \in former' => account'[j] # None
    BY <1>1, <1>3, <1>10 DEF AccountsIInv, DataSound, RowsAgree
  <2>3. \A j \in webSessions' : account'[j] # None
    BY <1>1, <1>10 DEF AccountsIInv, DataSound, RowsAgree, AccountsShape, signedIn
  <2>4. \A j, k \in Ids :
          account'[j] # None /\ account'[k] # None /\ account'[j].name = account'[k].name => j = k
    BY <1>10 DEF AccountsIInv, DataSound, RowsAgree
  <2> QED
    BY <2>1, <2>2, <2>3, <2>4 DEF RowsAgree
<1>13. SessionsAgree' /\ NameFindsSession' /\ AccountsHaveStats'
  <2>1. SessionsAgree'
    BY <1>1, <1>10 DEF AccountsIInv, DataSound, SessionsAgree, signedIn
  <2>2. NameFindsSession'
    BY <1>1, <1>10 DEF AccountsIInv, DataSound, NameFindsSession, Leads, SessionsAgree, signedIn
  <2>3. AccountsHaveStats'
    BY <1>1, <1>10 DEF AccountsIInv, DataSound, AccountsHaveStats
  <2> QED
    BY <2>1, <2>2, <2>3
<1>14. AccountsShape' /\ CacheIsTrue'
  <2>1. account' \in [Ids -> AccountRows \cup {None}]
    BY <1>4, <1>5 DEF AccountsIInv, DataSound, AccountsShape
  <2>2. UNCHANGED <<statsOf, passwordCache, webSessions, inGame, byName, renamed>>
    BY <1>1 DEF signedIn
  <2> QED
    BY <1>11, <2>1, <2>2 DEF AccountsIInv, DataSound, AccountsShape, CacheIsTrue
<1>15. \A n : Owners(n)' = Owners(n)
  BY <1>10 DEF Owners
<1>16. ASSUME NEW r \in OpenRequests
       PROVE  RequestSound(r)'
  <2>1. CASE r # q
    <3>1. RequestSound(r) /\ request'[r] = request[r] /\ retired'[r] \subseteq retired[r]
      BY <1>8, <1>11, <2>1 DEF AccountsIInv, RequestsSound, OpenRequests
    <3>2. request[r].at = "stats" =>
            request[r].id \in Ids /\ account'[request[r].id] = None /\ Owners(request[r].name)' = {}
      BY <1>10, <1>15, <3>1 DEF RequestSound
    <3>3. request[r].at \in AtAccount =>
            /\ request[r].id \in Ids /\ account'[request[r].id] # None
            /\ account'[request[r].id].name = account[request[r].id].name
      BY <1>10, <3>1 DEF RequestSound
    <3>4. request[r].at \in OfUser \/ request[r].then \in {"evict", "rename", "localize"} =>
            request[r].user \in Ids /\ account'[request[r].user] # None
      BY <1>10, <3>1 DEF RequestSound
    <3>5. renamed' = renamed
      BY <1>1
    <3> QED
      BY <3>1, <3>2, <3>3, <3>4, <3>5 DEF RequestSound
  <2>2. CASE r = q
    <3>1. request'[q] = next /\ retired'[q] \subseteq retired[q]
      BY <1>2, <1>8, <1>11 DEF AccountsIInv, RequestsSound, OpenRequests
    <3>2. /\ next.id \in Ids /\ account'[next.id] # None /\ next.user \in Ids /\ account'[next.user] # None
          /\ <<next.id, next.given>> \notin retired'[q]
      BY <1>1, <1>2, <1>3, <1>7, <1>10, <3>1 DEF RequestSound, AtAccount
    <3>3. next.then = "enter" /\ next.name # account'[next.id].name =>
            next.name \in renamed' /\ account'[next.id].name \in renamed'
      BY <1>1, <1>2, <1>7, <1>10, <3>2 DEF RequestSound, AtAccount
    <3> QED
      BY <1>7, <2>2, <3>1, <3>2, <3>3 DEF RequestSound, AtAccount
  <2> QED
    BY <2>1, <2>2
<1> QED
  BY <1>1, <1>2, <1>7, <1>8, <1>11, <1>12, <1>13, <1>14, <1>16, RequestWrites DEF DataSound

LEMMA EvictPreserves ==
    ASSUME AccountsIInv, NEW q \in AccountRequests, EvictOldHash(q)
    PROVE  AccountsIInv'
<1> DEFINE r == request[q]
<1>1. /\ r.at = "cache" /\ End(q) /\ UNCHANGED <<tables, signedIn, history>>
      /\ passwordCache' = {entry \in passwordCache : entry[1] # r.hash} \cup {<<r.new, r.new.of>>}
  BY DEF EvictOldHash, RequestAt, Cache
<1>2. q \in OpenRequests /\ r \in RequestTypes
  BY <1>1, OpenRequest
<1>3. r.new \in Hashes /\ r.new.of \in Passwords
  BY <1>2 DEF RequestTypes, Hashes
<1> HIDE DEF r
<1>4. passwordCache' \subseteq Hashes \X Passwords /\ CacheIsTrue'
  BY <1>1, <1>3 DEF AccountsIInv, DataSound, AccountsShape, CacheIsTrue
<1>5. DataSound'
  BY <1>1, <1>4, CacheChanges DEF AccountsIInv, history
<1>6. \A p \in OpenRequests \ {q} : request'[p] = request[p]
  BY <1>1 DEF End, AccountsIInv, RequestsSound, OpenRequests
<1>7. \A p \in OpenRequests \ {q} : RequestSound(p)'
  BY <1>1, <1>2, <1>6, OthersSound DEF tables, history
<1> QED
  BY <1>1, <1>2, <1>5, <1>7, RequestEnds DEF history

-----------------------------------------------------------------------------
(* Sessions *)

LEMMA MemoryChanges ==
    ASSUME AccountsIInv, UNCHANGED <<tables, request, history>>, DataSound'
    PROVE  AccountsIInv'
<1>1. OpenRequests' = OpenRequests /\ \A n : Owners(n)' = Owners(n)
  BY DEF OpenRequests, Owners, tables
<1>2. \A q : RequestSound(q)' = RequestSound(q)
  BY <1>1 DEF RequestSound, tables, history
<1>3. RequestsSound'
  BY <1>1, <1>2 DEF AccountsIInv, RequestsSound, InsertsApart, history
<1> QED
  BY <1>3 DEF AccountsIInv

LEMMA TokenPreserves ==
    ASSUME AccountsIInv, NEW q \in AccountRequests, CreateToken(q)
    PROVE  AccountsIInv'
<1>1. /\ request[q].at = "token" /\ webSessions' = webSessions \cup {request[q].id} /\ End(q)
      /\ UNCHANGED <<tables, passwordCache, inGame, byName, history>>
  BY DEF CreateToken, RequestAt
<1>2. q \in OpenRequests /\ request[q] \in RequestTypes /\ RequestSound(q)
  BY <1>1, OpenRequest
<1>3. request[q].id \in Ids /\ account[request[q].id] # None
  BY <1>1, <1>2 DEF RequestSound, AtAccount
<1>4. DataSound'
  BY <1>1, <1>3
  DEF AccountsIInv, DataSound, AccountsShape, CacheIsTrue, RowsAgree, SessionsAgree,
      AccountsHaveStats, NameFindsSession, Leads, tables, history
<1>5. \A r \in OpenRequests \ {q} : request'[r] = request[r]
  BY <1>1 DEF End, AccountsIInv, RequestsSound, OpenRequests
<1>6. \A r \in OpenRequests \ {q} : RequestSound(r)'
  BY <1>1, <1>2, <1>5, OthersSound DEF tables, history
<1> QED
  BY <1>1, <1>2, <1>4, <1>6, RequestEnds DEF history

\* A login that enters under a name that did not change is of the account that has it, and
\* nobody else in game has it.
LEMMA EnterPreserves ==
    ASSUME AccountsIInv, NEW q \in AccountRequests, EnterGame(q)
    PROVE  AccountsIInv'
<1> DEFINE i == request[q].id
           name == request[q].name
           tuple == [name |-> name, alias |-> request[q].alias, hash |-> request[q].hash]
           entry == [id |-> i, hash |-> request[q].hash]
<1>1. /\ request[q].at = "appear" /\ End(q)
      /\ UNCHANGED <<tables, passwordCache, webSessions, history>>
      /\ IF inGame[i] # None THEN UNCHANGED <<inGame, byName>>
         ELSE inGame' = [inGame EXCEPT ![i] = tuple] /\ byName' = [byName EXCEPT ![name] = entry]
  BY DEF EnterGame, RequestAt
<1>2. q \in OpenRequests /\ request[q] \in RequestTypes /\ RequestSound(q)
  BY <1>1, OpenRequest
<1>3. CASE inGame[i] # None
  BY <1>1, <1>2, <1>3, EndsOnly DEF signedIn
<1>4. CASE inGame[i] = None
  <2>1. /\ i \in Ids /\ account[i] # None /\ account[i] \in AccountRows /\ name \in AccountNames
        /\ request[q].hash \in Hashes /\ request[q].alias \in AccountNames \cup {None}
        /\ name # account[i].name => name \in renamed /\ account[i].name \in renamed
    BY <1>1, <1>2 DEF RequestSound, AtAccount, RequestTypes, AccountsIInv, DataSound, AccountsShape
  <2>2. tuple \in AccountRows /\ tuple.name = name /\ entry \in Indexed /\ entry.id = i
    BY <2>1 DEF AccountRows, Indexed
  <2>3. tuple # None /\ entry # None
    BY <2>2, NoneAssumption
  <2> HIDE DEF i, name, tuple, entry
  <2>4. /\ \A j \in Ids : inGame'[j] = IF j = i THEN tuple ELSE inGame[j]
        /\ \A n \in AccountNames : byName'[n] = IF n = name THEN entry ELSE byName[n]
        /\ inGame' \in [Ids -> AccountRows \cup {None}]
        /\ byName' \in [AccountNames -> Indexed \cup {None}]
    BY <1>1, <1>4, <2>1, <2>2 DEF AccountsIInv, DataSound, AccountsShape
  <2>5. \A n \in AccountNames, j \in Ids :
           Leads(n, j)' <=> IF n = name THEN j = i ELSE Leads(n, j)
    BY <2>2, <2>3, <2>4 DEF Leads
  <2>6. SessionsAgree'
    BY <1>1, <2>1, <2>2, <2>4 DEF AccountsIInv, DataSound, SessionsAgree, tables, history
  <2>7. NameFindsSession'
    <3>1. ASSUME NEW j \in Ids, NEW n \in AccountNames \ renamed,
                 (inGame'[j] # None /\ n \in {inGame'[j].name, account[j].name}) \/ Leads(n, j)'
          PROVE  inGame'[j] # None /\ inGame'[j].name = n /\ account[j].name = n /\ Leads(n, j)'
      <4>1. CASE j = i
        <5>1. n = name
          <6>1. ~Leads(n, i)
            BY <1>4, <2>1, <3>1 DEF AccountsIInv, DataSound, NameFindsSession
          <6> QED
            BY <2>1, <2>2, <2>4, <2>5, <3>1, <4>1, <6>1
        <5> QED
          BY <2>1, <2>2, <2>3, <2>4, <2>5, <3>1, <4>1, <5>1
      <4>2. CASE j # i
        <5>1. inGame'[j] = inGame[j]
          BY <2>4, <4>2
        <5>2. n # name
          <6>1. n = name => account[i].name = n /\ ~Leads(n, j)'
            BY <2>1, <2>5, <3>1, <4>2
          <6>2. n = name => account[j] # None /\ account[j].name = n
            BY <3>1, <5>1, <6>1 DEF AccountsIInv, DataSound, NameFindsSession, SessionsAgree
          <6> QED
            BY <2>1, <4>2, <6>1, <6>2 DEF AccountsIInv, DataSound, RowsAgree
        <5> QED
          BY <2>4, <2>5, <3>1, <5>1, <5>2 DEF AccountsIInv, DataSound, NameFindsSession, Leads
      <4> QED
        BY <4>1, <4>2
    <3>2. UNCHANGED <<account, renamed>>
      BY <1>1 DEF tables, history
    <3> QED
      BY <3>1, <3>2 DEF NameFindsSession, Leads
  <2>8. AccountsShape' /\ CacheIsTrue' /\ RowsAgree' /\ AccountsHaveStats'
    BY <1>1, <2>4 DEF AccountsIInv, DataSound, AccountsShape, CacheIsTrue, RowsAgree,
       AccountsHaveStats, tables, history
  <2>9. \A r \in OpenRequests \ {q} : request'[r] = request[r]
    BY <1>1 DEF End, AccountsIInv, RequestsSound, OpenRequests
  <2>10. \A r \in OpenRequests \ {q} : RequestSound(r)'
    BY <1>1, <1>2, <2>9, OthersSound DEF tables, history
  <2> QED
    BY <1>1, <1>2, <2>6, <2>7, <2>8, <2>10, RequestEnds DEF DataSound, history
<1> QED
  BY <1>3, <1>4

LEMMA LeavePreserves ==
    ASSUME AccountsIInv, NEW i \in Ids, EndWebSession(i) \/ LeaveGame(i)
    PROVE  AccountsIInv'
<1>1. CASE EndWebSession(i)
  <2>1. DataSound'
    BY <1>1 DEF EndWebSession, AccountsIInv, DataSound, AccountsShape, CacheIsTrue, RowsAgree,
       SessionsAgree, AccountsHaveStats, NameFindsSession, Leads, tables, history
  <2> QED
    BY <1>1, <2>1, MemoryChanges DEF EndWebSession
<1>2. CASE LeaveGame(i)
  <2> DEFINE name == inGame[i].name
  <2>1. /\ inGame[i] # None /\ UNCHANGED <<tables, passwordCache, webSessions, request, history>>
        /\ byName' = [byName EXCEPT ![name] = None] /\ inGame' = [inGame EXCEPT ![i] = None]
    BY <1>2 DEF LeaveGame
  <2>2. name \in AccountNames
    BY <2>1 DEF AccountsIInv, DataSound, AccountsShape, AccountRows
  <2> HIDE DEF name
  <2>3. /\ \A j \in Ids : inGame'[j] = IF j = i THEN None ELSE inGame[j]
        /\ \A n \in AccountNames : byName'[n] = IF n = name THEN None ELSE byName[n]
        /\ inGame' \in [Ids -> AccountRows \cup {None}]
        /\ byName' \in [AccountNames -> Indexed \cup {None}]
    BY <2>1, <2>2 DEF AccountsIInv, DataSound, AccountsShape
  <2>4. \A n \in AccountNames, j \in Ids : Leads(n, j)' <=> n # name /\ Leads(n, j)
    BY <2>3 DEF Leads
  <2>5. NameFindsSession'
    <3>1. ASSUME NEW j \in Ids, NEW n \in AccountNames \ renamed,
                 (inGame'[j] # None /\ n \in {inGame'[j].name, account[j].name}) \/ Leads(n, j)'
          PROVE  inGame'[j] # None /\ inGame'[j].name = n /\ account[j].name = n /\ Leads(n, j)'
      <4>1. /\ inGame[j] # None /\ inGame[j].name = n /\ account[j].name = n /\ Leads(n, j)
        BY <2>3, <2>4, <3>1 DEF AccountsIInv, DataSound, NameFindsSession, Leads
      <4>2. j # i
        <5>1. j = i => inGame'[j] = None /\ n = name
          BY <2>3, <4>1 DEF name
        <5> QED
          BY <2>3, <2>4, <3>1, <5>1
      <4>3. n # name
        BY <2>1, <4>1, <4>2 DEF name, AccountsIInv, DataSound, NameFindsSession, Leads
      <4> QED
        BY <2>3, <2>4, <4>1, <4>2, <4>3
    <3>2. UNCHANGED <<account, renamed>>
      BY <2>1 DEF tables, history
    <3> QED
      BY <3>1, <3>2 DEF NameFindsSession, Leads
  <2>6. AccountsShape' /\ CacheIsTrue' /\ RowsAgree' /\ AccountsHaveStats' /\ SessionsAgree'
    BY <2>1, <2>3 DEF AccountsIInv, DataSound, AccountsShape, CacheIsTrue, RowsAgree,
       SessionsAgree, AccountsHaveStats, tables, history
  <2> QED
    BY <2>1, <2>5, <2>6, MemoryChanges DEF DataSound
<1> QED
  BY <1>1, <1>2

-----------------------------------------------------------------------------
(* Names *)

LEMMA ValidateNamePreserves ==
    ASSUME AccountsIInv, NEW q \in AccountRequests, ValidateName(q)
    PROVE  AccountsIInv'
<1>1. /\ request[q].at = "name" /\ UNCHANGED <<tables, memory, history>>
      /\ End(q) \/ Go(q, request[q].then)
  BY DEF ValidateName, RequestAt
<1>2. q \in OpenRequests /\ request[q] \in RequestTypes /\ RequestSound(q)
  BY <1>1, OpenRequest
<1>3. CASE End(q)
  BY <1>1, <1>2, <1>3, EndsOnly DEF memory
<1>4. CASE Go(q, request[q].then)
  <2> DEFINE next == [request[q] EXCEPT !.at = "rename"]
  <2>1. /\ request[q].then = "rename"
        /\ request[q].user \in Ids /\ account[request[q].user] # None
    BY <1>1, <1>2 DEF RequestSound, OfUser
  <2>2. /\ next \in RequestTypes /\ next.at = "rename" /\ next.user = request[q].user
        /\ next.name = request[q].name /\ next.then = request[q].then
    <3>1. "rename" \in Places
      BY DEF Places, OfUser
    <3> QED
      BY <1>2, <3>1, RequestGoes, Zenon
  <2>3. request' = [request EXCEPT ![q] = next]
    BY <1>4, <2>1, Zenon DEF Go
  <2> HIDE DEF next
  <2>4. request'[q] = next
    BY <1>2, <2>3 DEF AccountsIInv, RequestsSound, OpenRequests
  <2>5. RequestSound(q)'
    BY <1>1, <1>2, <2>1, <2>2, <2>4 DEF RequestSound, AtAccount, OfUser, tables, history
  <2>6. DataSound' /\ UNCHANGED <<tables, history>>
    BY <1>1, CacheChanges DEF AccountsIInv, DataSound, AccountsShape, CacheIsTrue, memory, signedIn, history
  <2> QED
    BY <1>2, <2>2, <2>3, <2>5, <2>6, RequestMoves
<1> QED
  BY <1>1, <1>3, <1>4

\* If a session or a login has the old name, both names are among those that changed.
LEMMA UpdateNamePreserves ==
    ASSUME AccountsIInv, NEW q \in AccountRequests, UpdateName(q)
    PROVE  AccountsIInv'
<1> DEFINE i == request[q].user
           name == request[q].name
           used == inGame[i] # None
                     \/ \E r \in OpenRequests : request[r].id = i /\ request[r].then = "enter"
           tuple == [account[i] EXCEPT !.name = name]
<1>1. /\ request[q].at = "rename"
      /\ \A r \in OpenRequests : request[r].at = "stats" => request[r].name # name
      /\ UNCHANGED <<statsOf, memory, requested, former, retired>>
      /\ \/ End(q) /\ UNCHANGED <<account, renamed>>
         \/ /\ Owners(name) = {}
            /\ account' = [account EXCEPT ![i].name = name]
            /\ renamed' = IF used THEN renamed \cup {account[i].name, name} ELSE renamed
            /\ Go(q, "tell name")
  BY DEF UpdateName, RequestAt
<1>2. q \in OpenRequests /\ request[q] \in RequestTypes /\ RequestSound(q)
  BY <1>1, OpenRequest
<1>3. CASE End(q) /\ UNCHANGED <<account, renamed>>
  BY <1>1, <1>2, <1>3, EndsOnly DEF tables, memory, history
<1>4. CASE /\ Owners(name) = {}
           /\ account' = [account EXCEPT ![i].name = name]
           /\ renamed' = IF used THEN renamed \cup {account[i].name, name} ELSE renamed
           /\ Go(q, "tell name")
  <2>1. /\ i \in Ids /\ account[i] # None /\ account[i] \in AccountRows /\ name \in AccountNames
        /\ account[i].name \in AccountNames
    BY <1>1, <1>2 DEF RequestSound, OfUser, RequestTypes, AccountRows, AccountsIInv, DataSound,
       AccountsShape
  <2>2. tuple \in AccountRows /\ tuple.name = name /\ tuple.hash = account[i].hash
    <3> HIDE DEF name
    <3> QED
      BY <2>1 DEF AccountRows
  <2>3. account' = [account EXCEPT ![i] = tuple] /\ tuple # None
    BY <1>4, <2>2, NoneAssumption, Zenon
  <2> DEFINE next == [request[q] EXCEPT !.at = "tell name"]
  <2>4. /\ next \in RequestTypes /\ next.at = "tell name" /\ next.id = request[q].id /\ next.user = i /\ next.name = name
        /\ next.then = request[q].then
    <3>1. "tell name" \in Places
      BY DEF Places, OfUser
    <3> QED
      BY <1>2, <3>1, RequestGoes, Zenon
  <2>5. request' = [request EXCEPT ![q] = next]
    BY <1>4, Zenon DEF Go
  <2>6. \A j \in Ids : account[j] # None => account[j].name # name
    BY <1>4 DEF Owners
  <2>7. /\ renamed \subseteq renamed' /\ renamed' \subseteq AccountNames
        /\ used => account[i].name \in renamed' /\ name \in renamed'
    <3> HIDE DEF used, i, name
    <3> QED
      BY <1>4, <2>1 DEF AccountsIInv, DataSound, AccountsShape
  <2>8. /\ inGame[i] # None => used
        /\ \A r \in OpenRequests : request[r].id = i /\ request[r].then = "enter" => used
    OBVIOUS
  <2> HIDE DEF i, name, tuple, next, used
  <2>9. /\ \A j \in Ids : account'[j] = IF j = i THEN tuple ELSE account[j]
        /\ account' \in [Ids -> AccountRows \cup {None}]
    BY <2>1, <2>2, <2>3 DEF AccountsIInv, DataSound, AccountsShape
  <2>10. RowsAgree'
    <3>1. \A j \in Ids : /\ account'[j] = None <=> account[j] = None
                         /\ account[j] # None => account'[j].hash = account[j].hash
      BY <2>1, <2>2, <2>3, <2>9
    <3>2. /\ \A j \in Ids : account'[j] # None => <<j, account'[j].hash.of>> \notin former'
          /\ \A j \in Ids, p \in Passwords : <<j, p>> \in former' => account'[j] # None
          /\ \A j \in webSessions' : account'[j] # None
      BY <1>1, <3>1 DEF AccountsIInv, DataSound, RowsAgree, AccountsShape, memory, signedIn
    <3>3. \A j, k \in Ids :
            account'[j] # None /\ account'[k] # None /\ account'[j].name = account'[k].name => j = k
      BY <2>2, <2>6, <2>9, <3>1 DEF AccountsIInv, DataSound, RowsAgree
    <3> QED
      BY <3>2, <3>3 DEF RowsAgree
  <2>11. SessionsAgree'
    <3>1. ASSUME NEW j \in Ids, inGame[j] # None
          PROVE  /\ account'[j] # None
                 /\ inGame[j].name # account'[j].name =>
                      inGame[j].name \in renamed' /\ account'[j].name \in renamed'
      <4>1. /\ account[j] # None
            /\ inGame[j].name # account[j].name =>
                 inGame[j].name \in renamed /\ account[j].name \in renamed
        BY <3>1 DEF AccountsIInv, DataSound, SessionsAgree
      <4>2. CASE j = i
        BY <2>2, <2>3, <2>7, <2>8, <2>9, <3>1, <4>1, <4>2
      <4>3. CASE j # i
        BY <2>7, <2>9, <4>1, <4>3
      <4> QED
        BY <4>2, <4>3
    <3> QED
      BY <1>1, <3>1 DEF SessionsAgree, memory, signedIn
  <2>12. NameFindsSession'
    <3>1. ASSUME NEW j \in Ids, NEW n \in AccountNames \ renamed',
                 (inGame[j] # None /\ n \in {inGame[j].name, account'[j].name}) \/ Leads(n, j)
          PROVE  inGame[j] # None /\ inGame[j].name = n /\ account'[j].name = n /\ Leads(n, j)
      <4>1. n \in AccountNames \ renamed
        BY <2>7
      <4>2. CASE j # i
        BY <2>9, <3>1, <4>1, <4>2 DEF AccountsIInv, DataSound, NameFindsSession, Leads
      <4>3. CASE j = i
        <5>1. inGame[i] # None
          BY <3>1, <4>1, <4>3 DEF AccountsIInv, DataSound, NameFindsSession, Leads
        <5>2. n # account[i].name /\ n # name
          BY <2>7, <2>8, <5>1
        <5>3. n \in {inGame[j].name, account[j].name} \/ Leads(n, j)
          BY <2>2, <2>9, <3>1, <4>3, <5>2
        <5> QED
          BY <2>1, <3>1, <4>1, <4>3, <5>1, <5>2, <5>3 DEF AccountsIInv, DataSound, NameFindsSession, Leads
      <4> QED
        BY <4>2, <4>3
    <3> QED
      BY <1>1, <3>1 DEF NameFindsSession, Leads, memory, signedIn
  <2>13. AccountsShape' /\ CacheIsTrue' /\ AccountsHaveStats'
    BY <1>1, <2>1, <2>7, <2>9 DEF AccountsIInv, DataSound, AccountsShape, CacheIsTrue,
       AccountsHaveStats, memory, signedIn
  <2>14. ASSUME NEW r \in OpenRequests
         PROVE  RequestSound(r)'
    <3> DEFINE new == IF r = q THEN next ELSE request[r]
    <3>1. /\ RequestSound(r) /\ request'[r] = new /\ retired'[r] = retired[r]
          /\ new.id = request[r].id /\ new.user = request[r].user /\ new.name = request[r].name /\ new.then = request[r].then
      BY <1>1, <1>2, <2>4, <2>5 DEF AccountsIInv, RequestsSound, OpenRequests, i, name
    <3>2. /\ r = q => new.at = "tell name" /\ request[r].at = "rename"
          /\ r # q => new = request[r]
      BY <1>1, <2>4
    <3> HIDE DEF new
    <3>3. new.at = "stats" =>
            /\ new.id \in Ids /\ account'[new.id] = None
            /\ \A j \in Ids : account'[j] # None => account'[j].name # new.name
      <4>1. ASSUME new.at = "stats"
            PROVE  /\ new.id \in Ids /\ account[new.id] = None /\ new.name # name
                   /\ \A j \in Ids : account[j] # None => account[j].name # new.name
        BY <1>1, <3>1, <3>2, <4>1 DEF RequestSound, Owners
      <4> QED
        BY <2>1, <2>2, <2>9, <4>1
    <3>4. /\ new.at \in AtAccount => new.id \in Ids /\ account'[new.id] # None
          /\ new.at \in OfUser \/ new.then \in {"evict", "rename", "localize"} =>
               new.user \in Ids /\ account'[new.user] # None
      BY <2>3, <2>9, <3>1, <3>2 DEF RequestSound, AtAccount, OfUser
    <3>5. new.then = "enter" /\ new.at \in AtAccount /\ new.name # account'[new.id].name =>
            new.name \in renamed' /\ account'[new.id].name \in renamed'
      <4>1. ASSUME new.then = "enter", new.at \in AtAccount
            PROVE  /\ new.id \in Ids
                   /\ new.name # account[new.id].name =>
                        new.name \in renamed /\ account[new.id].name \in renamed
        BY <3>1, <3>2, <4>1 DEF RequestSound, AtAccount
      <4>2. CASE new.id = i
        BY <2>2, <2>7, <2>8, <2>9, <3>1, <4>1, <4>2
      <4>3. CASE new.id # i
        BY <2>7, <2>9, <4>1, <4>3
      <4> QED
        BY <4>2, <4>3
    <3> QED
      BY <3>1, <3>2, <3>3, <3>4, <3>5 DEF RequestSound, AtAccount, Owners
  <2>15. retired' \in [AccountRequests -> SUBSET former'] /\ UNCHANGED requested
    BY <1>1 DEF AccountsIInv, RequestsSound
  <2> QED
    BY <1>2, <2>4, <2>5, <2>10, <2>11, <2>12, <2>13, <2>14, <2>15, RequestWrites DEF DataSound
<1> QED
  BY <1>1, <1>3, <1>4

LEMMA TellNamePreserves ==
    ASSUME AccountsIInv, NEW q \in AccountRequests, TellName(q)
    PROVE  AccountsIInv'
<1> DEFINE i == request[q].user
           name == request[q].name
           tuple == [inGame[i] EXCEPT !.name = name]
<1>1. /\ request[q].at = "tell name" /\ End(q)
      /\ UNCHANGED <<tables, passwordCache, webSessions, byName, requested, former, retired>>
      /\ inGame' = IF inGame[i] = None THEN inGame ELSE [inGame EXCEPT ![i].name = name]
      /\ renamed' = IF inGame[i] = None \/ inGame[i].name = name THEN renamed
                    ELSE renamed \cup {inGame[i].name, name}
  BY DEF TellName, RequestAt
<1>2. q \in OpenRequests /\ request[q] \in RequestTypes /\ RequestSound(q)
  BY <1>1, OpenRequest
<1>3. i \in Ids /\ name \in AccountNames
  BY <1>1, <1>2 DEF RequestSound, OfUser, RequestTypes
<1>4. CASE inGame[i] = None
  BY <1>1, <1>2, <1>4, EndsOnly DEF signedIn, history
<1>5. CASE inGame[i] # None
  <2>1. inGame[i] \in AccountRows /\ inGame[i].name \in AccountNames
    BY <1>3, <1>5 DEF AccountsIInv, DataSound, AccountsShape, AccountRows
  <2>2. tuple \in AccountRows /\ tuple.name = name
    <3> HIDE DEF name
    <3> QED
      BY <1>3, <2>1 DEF AccountRows
  <2>3. inGame' = [inGame EXCEPT ![i] = tuple] /\ tuple # None
    BY <1>1, <1>5, <2>2, NoneAssumption, Zenon
  <2>4. /\ renamed \subseteq renamed' /\ renamed' \subseteq AccountNames
        /\ inGame[i].name # name => inGame[i].name \in renamed' /\ name \in renamed'
    <3> HIDE DEF i, name
    <3>1. renamed' = IF inGame[i].name = name THEN renamed ELSE renamed \cup {inGame[i].name, name}
      BY <1>1, <1>5
    <3> QED
      BY <1>3, <2>1, <3>1 DEF AccountsIInv, DataSound, AccountsShape
  <2> HIDE DEF i, name, tuple
  <2>5. /\ \A j \in Ids : inGame'[j] = IF j = i THEN tuple ELSE inGame[j]
        /\ inGame' \in [Ids -> AccountRows \cup {None}]
    BY <1>3, <2>2, <2>3 DEF AccountsIInv, DataSound, AccountsShape
  <2>6. SessionsAgree'
    <3>1. ASSUME NEW j \in Ids, inGame[j] # None
          PROVE  /\ account[j] # None
                 /\ inGame'[j].name # account[j].name =>
                      inGame'[j].name \in renamed' /\ account[j].name \in renamed'
      <4>1. /\ account[j] # None
            /\ inGame[j].name # account[j].name =>
                 inGame[j].name \in renamed /\ account[j].name \in renamed
        BY <3>1 DEF AccountsIInv, DataSound, SessionsAgree
      <4> QED
        BY <2>2, <2>4, <2>5, <4>1
    <3>2. \A j \in Ids : inGame'[j] # None => inGame[j] # None
      BY <1>5, <2>5
    <3> QED
      BY <1>1, <3>1, <3>2 DEF SessionsAgree, tables
  <2>7. NameFindsSession'
    <3>1. ASSUME NEW j \in Ids, NEW n \in AccountNames \ renamed',
                 (inGame'[j] # None /\ n \in {inGame'[j].name, account[j].name}) \/ Leads(n, j)
          PROVE  inGame'[j] # None /\ inGame'[j].name = n /\ account[j].name = n /\ Leads(n, j)
      <4>1. n \in AccountNames \ renamed
        BY <2>4
      <4>2. inGame'[j] # None <=> inGame[j] # None
        BY <1>5, <2>3, <2>5
      <4>3. inGame[j] # None => (inGame[j].name = n <=> inGame'[j].name = n)
        BY <2>2, <2>4, <2>5
      <4> QED
        BY <3>1, <4>1, <4>2, <4>3 DEF AccountsIInv, DataSound, NameFindsSession, Leads
    <3>2. /\ \A n, j : Leads(n, j)' <=> Leads(n, j)
          /\ account' = account
      BY <1>1 DEF Leads, tables
    <3> QED
      BY <3>1, <3>2 DEF NameFindsSession
  <2>8. AccountsShape' /\ CacheIsTrue' /\ RowsAgree' /\ AccountsHaveStats'
    BY <1>1, <2>4, <2>5 DEF AccountsIInv, DataSound, AccountsShape, CacheIsTrue, RowsAgree,
       AccountsHaveStats, tables
  <2>9. \A r \in OpenRequests \ {q} : request'[r] = request[r]
    BY <1>1 DEF End, AccountsIInv, RequestsSound, OpenRequests
  <2>10. \A r \in OpenRequests \ {q} : RequestSound(r)'
    BY <1>1, <1>2, <2>4, <2>9, OthersSound DEF tables
  <2> QED
    BY <1>1, <1>2, <2>6, <2>7, <2>8, <2>10, RequestEnds DEF DataSound
<1> QED
  BY <1>4, <1>5

LEMMA UpdateAliasPreserves ==
    ASSUME AccountsIInv, NEW q \in AccountRequests, UpdateAlias(q)
    PROVE  AccountsIInv'
<1> DEFINE i == request[q].user
           tuple == [account[i] EXCEPT !.alias = request[q].alias]
           next == [request[q] EXCEPT !.at = "tell alias"]
<1>1. /\ request[q].at = "localize" /\ UNCHANGED <<statsOf, memory, history>>
      /\ account' = [account EXCEPT ![i].alias = request[q].alias] /\ Go(q, "tell alias")
  BY DEF UpdateAlias, RequestAt
<1>2. q \in OpenRequests /\ request[q] \in RequestTypes /\ RequestSound(q)
  BY <1>1, OpenRequest
<1>3. i \in Ids /\ account[i] # None /\ account[i] \in AccountRows
  BY <1>1, <1>2 DEF RequestSound, OfUser, AccountsIInv, DataSound, AccountsShape
<1>4. tuple \in AccountRows /\ tuple.name = account[i].name /\ tuple.hash = account[i].hash
  BY <1>2, <1>3 DEF AccountRows, RequestTypes
<1>5. account' = [account EXCEPT ![i] = tuple] /\ tuple # None
  BY <1>1, <1>4, NoneAssumption, Zenon
<1>6. next \in RequestTypes /\ next.at = "tell alias" /\ next.id = request[q].id
      /\ next.user = i /\ next.name = request[q].name /\ next.then = request[q].then
  <2>1. "tell alias" \in Places
    BY DEF Places, OfUser
  <2> QED
    BY <1>2, <2>1, RequestGoes, Zenon
<1>7. request' = [request EXCEPT ![q] = next]
  BY <1>1, Zenon DEF Go
<1> HIDE DEF i, tuple, next
<1>8. /\ account' \in [Ids -> AccountRows \cup {None}]
      /\ \A j \in Ids : /\ account'[j] = None <=> account[j] = None
                        /\ account'[j].name = account[j].name
                        /\ account'[j].hash = account[j].hash
  BY <1>3, <1>4, <1>5 DEF AccountsIInv, DataSound, AccountsShape
<1>9. DataSound'
  <2>1. AccountsShape' /\ CacheIsTrue' /\ AccountsHaveStats'
    BY <1>1, <1>8 DEF AccountsIInv, DataSound, AccountsShape, CacheIsTrue, AccountsHaveStats, memory,
       signedIn, history
  <2>2. UNCHANGED <<webSessions, inGame, byName, former, renamed>>
    BY <1>1 DEF memory, signedIn, history
  <2>3. RowsAgree'
    <3>1. /\ \A j \in Ids : account'[j] # None => <<j, account'[j].hash.of>> \notin former'
          /\ \A j \in Ids, p \in Passwords : <<j, p>> \in former' => account'[j] # None
          /\ \A j \in webSessions' : account'[j] # None
      BY <1>8, <2>2 DEF AccountsIInv, DataSound, RowsAgree, AccountsShape
    <3>2. \A j, k \in Ids :
            account'[j] # None /\ account'[k] # None /\ account'[j].name = account'[k].name => j = k
      BY <1>8 DEF AccountsIInv, DataSound, RowsAgree
    <3> QED
      BY <3>1, <3>2 DEF RowsAgree
  <2>4. SessionsAgree'
    BY <1>8, <2>2 DEF AccountsIInv, DataSound, SessionsAgree
  <2>5. NameFindsSession'
    <3>1. \A n, j : Leads(n, j)' <=> Leads(n, j)
      BY <2>2 DEF Leads
    <3> QED
      BY <1>8, <2>2, <3>1 DEF AccountsIInv, DataSound, NameFindsSession
  <2> QED
    BY <2>1, <2>3, <2>4, <2>5 DEF DataSound
<1>10. ASSUME NEW r \in OpenRequests
       PROVE  RequestSound(r)'
  <2> DEFINE new == IF r = q THEN next ELSE request[r]
  <2>1. /\ RequestSound(r) /\ request'[r] = new /\ UNCHANGED <<retired, renamed>>
        /\ new.id = request[r].id /\ new.user = request[r].user /\ new.name = request[r].name
        /\ new.then = request[r].then
    BY <1>1, <1>2, <1>6, <1>7 DEF AccountsIInv, RequestsSound, OpenRequests, i, history
  <2>2. /\ r = q => new.at = "tell alias" /\ request[r].at = "localize"
        /\ r # q => new = request[r]
    BY <1>1, <1>6
  <2> HIDE DEF new
  <2>3. /\ new.at = "stats" =>
             /\ new.id \in Ids /\ account'[new.id] = None
             /\ \A j \in Ids : account'[j] # None => account'[j].name # new.name
        /\ new.at \in AtAccount => new.id \in Ids /\ account'[new.id] # None
    <3>1. /\ new.at = "stats" =>
               /\ new.id \in Ids /\ account[new.id] = None
               /\ \A j \in Ids : account[j] # None => account[j].name # new.name
          /\ new.at \in AtAccount => new.id \in Ids /\ account[new.id] # None
      BY <2>1, <2>2 DEF RequestSound, AtAccount, Owners
    <3> QED
      BY <1>8, <3>1
  <2>4. /\ new.at \in OfUser \/ new.then \in {"evict", "rename", "localize"} =>
             new.user \in Ids /\ account'[new.user] # None
    BY <1>8, <2>1, <2>2 DEF RequestSound, OfUser
  <2>5. new.then = "enter" /\ new.at \in AtAccount /\ new.name # account'[new.id].name =>
          new.name \in renamed /\ account'[new.id].name \in renamed
    BY <1>8, <2>1, <2>2, <2>3 DEF RequestSound, AtAccount
  <2>6. /\ new.at \in {"check", "appear"} => new.hash \in Hashes
        /\ new.at = "check" => <<new.id, new.hash.of>> \notin retired'[r]
        /\ new.at \in {"token", "enter", "appear", "evict", "update", "cache"} =>
             <<new.id, new.given>> \notin retired'[r]
        /\ new.at = "validate" => new.then = "insert" /\ new.new.of = new.given
        /\ new.at = "name" => new.then = "rename"
        /\ new.at \in {"enter", "appear"} => new.then = "enter"
        /\ new.then = "enter" => new.at \in {"find"} \cup AtAccount
    BY <2>1, <2>2 DEF RequestSound, AtAccount
  <2>7. request'[r] = new /\ renamed' = renamed
    BY <2>1
  <2> QED
    BY <2>3, <2>4, <2>5, <2>6, <2>7 DEF RequestSound, Owners
<1>11. retired' \in [AccountRequests -> SUBSET former'] /\ UNCHANGED requested
  BY <1>1 DEF AccountsIInv, RequestsSound, history
<1> QED
  BY <1>2, <1>6, <1>7, <1>9, <1>10, <1>11, RequestWrites

LEMMA TellAliasPreserves ==
    ASSUME AccountsIInv, NEW q \in AccountRequests, TellAlias(q)
    PROVE  AccountsIInv'
<1> DEFINE i == request[q].user
           tuple == [inGame[i] EXCEPT !.alias = request[q].alias]
<1>1. /\ request[q].at = "tell alias" /\ End(q)
      /\ UNCHANGED <<tables, passwordCache, webSessions, byName, history>>
      /\ inGame' = IF inGame[i] = None THEN inGame ELSE [inGame EXCEPT ![i].alias = request[q].alias]
  BY DEF TellAlias, RequestAt
<1>2. q \in OpenRequests /\ request[q] \in RequestTypes /\ RequestSound(q)
  BY <1>1, OpenRequest
<1>3. CASE inGame[i] = None
  BY <1>1, <1>2, <1>3, EndsOnly DEF signedIn
<1>4. CASE inGame[i] # None
  <2>1. i \in Ids /\ inGame[i] \in AccountRows
    BY <1>1, <1>2, <1>4 DEF RequestSound, OfUser, AccountsIInv, DataSound, AccountsShape
  <2>2. tuple \in AccountRows /\ tuple.name = inGame[i].name
    BY <1>2, <2>1 DEF AccountRows, RequestTypes
  <2>3. inGame' = [inGame EXCEPT ![i] = tuple] /\ tuple # None
    BY <1>1, <1>4, <2>2, NoneAssumption, Zenon
  <2> HIDE DEF i, tuple
  <2>4. /\ inGame' \in [Ids -> AccountRows \cup {None}]
        /\ \A j \in Ids : /\ inGame'[j] = None <=> inGame[j] = None
                          /\ inGame'[j].name = inGame[j].name
    BY <1>4, <2>1, <2>2, <2>3 DEF AccountsIInv, DataSound, AccountsShape
  <2>5. DataSound'
    <3>1. AccountsShape' /\ CacheIsTrue' /\ AccountsHaveStats' /\ RowsAgree'
      BY <1>1, <2>4 DEF AccountsIInv, DataSound, AccountsShape, CacheIsTrue, AccountsHaveStats,
         RowsAgree, tables, history
    <3>2. SessionsAgree'
      <4>1. UNCHANGED <<account, renamed>>
        BY <1>1 DEF tables, history
      <4> QED
        BY <2>4, <4>1 DEF AccountsIInv, DataSound, SessionsAgree
    <3>3. /\ \A n, j : Leads(n, j)' <=> Leads(n, j)
          /\ UNCHANGED <<account, renamed>>
      BY <1>1 DEF Leads, tables, history
    <3>4. NameFindsSession'
      BY <2>4, <3>3 DEF AccountsIInv, DataSound, NameFindsSession
    <3> QED
      BY <3>1, <3>2, <3>4 DEF DataSound
  <2>6. \A r \in OpenRequests \ {q} : request'[r] = request[r]
    BY <1>1 DEF End, AccountsIInv, RequestsSound, OpenRequests
  <2>7. \A r \in OpenRequests \ {q} : RequestSound(r)'
    BY <1>1, <1>2, <2>6, OthersSound DEF tables, history
  <2> QED
    BY <1>1, <1>2, <2>5, <2>7, RequestEnds DEF history
<1> QED
  BY <1>3, <1>4

-----------------------------------------------------------------------------
LEMMA AccountsInductive == AccountsSpec => []AccountsIInv
<1>1. ASSUME AccountsIInv, [AccountsNext]_accountsVars
      PROVE  AccountsIInv'
  <2>1. CASE UNCHANGED accountsVars
    <3>1. UNCHANGED <<tables, request, history, memory>>
      BY <2>1 DEF accountsVars, tables, history, memory, signedIn
    <3>2. DataSound'
      BY <1>1, <3>1, CacheChanges
      DEF AccountsIInv, DataSound, AccountsShape, CacheIsTrue, memory, signedIn, history
    <3> QED
      BY <1>1, <3>1, <3>2, MemoryChanges
  <2>2. ASSUME NEW q \in AccountRequests, ProceedRequest(q)
        PROVE  AccountsIInv'
    <3>1. CASE ValidateRegistration(q) \/ InsertUser(q) \/ CreateAccount(q)
      BY <1>1, <3>1, ValidatePreserves, InsertPreserves, CreateKeeps
    <3>2. CASE FindUser(q) \/ FetchHash(q) \/ Verify(q)
      BY <1>1, <3>2, FindPreserves, FetchPreserves, VerifyPreserves
    <3>3. CASE FetchOldHash(q) \/ UpdatePassword(q) \/ EvictOldHash(q)
      BY <1>1, <3>3, FetchPreserves, UpdatePreserves, EvictPreserves
    <3>4. CASE CreateToken(q) \/ FetchSessionHash(q) \/ EnterGame(q)
      BY <1>1, <3>4, TokenPreserves, FetchPreserves, EnterPreserves
    <3>5. CASE ValidateName(q) \/ UpdateName(q) \/ TellName(q)
      BY <1>1, <3>5, ValidateNamePreserves, UpdateNamePreserves, TellNamePreserves
    <3>6. CASE UpdateAlias(q) \/ TellAlias(q)
      BY <1>1, <3>6, UpdateAliasPreserves, TellAliasPreserves
    <3> QED
      BY <2>2, <3>1, <3>2, <3>3, <3>4, <3>5, <3>6 DEF ProceedRequest
  <2>3. ASSUME NEW q \in AccountRequests, NEW n \in AccountNames, NEW p \in Passwords,
               Register(q, n, p) \/ WebLogin(q, n, p) \/ GameLogin(q, n, p)
        PROVE  AccountsIInv'
    BY <1>1, <2>3, BeginsPreserve
  <2>4. ASSUME NEW q \in AccountRequests, NEW i \in Ids,
               \/ \E p, new \in Passwords : ChangePassword(q, i, p, new)
               \/ \E n \in AccountNames : Rename(q, i, n)
               \/ \E alias \in AccountNames \cup {None} : Localize(q, i, alias)
        PROVE  AccountsIInv'
    BY <1>1, <2>4, ChangesBegin
  <2>5. ASSUME NEW i \in Ids, EndWebSession(i) \/ LeaveGame(i)
        PROVE  AccountsIInv'
    BY <1>1, <2>5, LeavePreserves
  <2> QED
    BY <1>1, <2>1, <2>2, <2>3, <2>4, <2>5 DEF AccountsNext
<1> QED
  BY <1>1, AccountsInitially, PTL DEF AccountsSpec

-----------------------------------------------------------------------------
(* What the cache has of hashes that were replaced. A session, the index and a login that *)
(* is to appear have the account's hash or one that was replaced since.                    *)

Since(i, hash) == i \in Ids /\ account[i] # None /\ (hash = account[i].hash \/ hash \in replaced)
Evicting(hash) == \E q \in OpenRequests : request[q].at = "cache" /\ request[q].hash = hash

CacheForgets ==
    \A entry \in passwordCache :
      entry[1] \in replaced => entry[1] \in kept \/ Evicting(entry[1])

HashesSince ==
    /\ \A i \in Ids : inGame[i] # None => Since(i, inGame[i].hash)
    /\ \A n \in AccountNames : byName[n] # None => Since(byName[n].id, byName[n].hash)
    /\ \A q \in OpenRequests : request[q].at = "appear" => Since(request[q].id, request[q].hash)

HashesSound ==
    /\ replaced \cup kept \subseteq Hashes
    /\ CacheForgets
    /\ HashesSince

LEMMA HashesInitially == AccountsInit => HashesSound
BY DEF AccountsInit, HashesSound, CacheForgets, HashesSince, OpenRequests

\* A step that changes no hash, nor the cache.
LEMMA HashesKept ==
    ASSUME HashesSound, UNCHANGED <<passwordCache, replaced, kept>>,
           \A i \in Ids : account[i] # None => account'[i] # None /\ account'[i].hash = account[i].hash,
           \A i \in Ids : inGame'[i] # None => Since(i, inGame'[i].hash),
           \A n \in AccountNames : byName'[n] # None => Since(byName'[n].id, byName'[n].hash),
           \A q \in OpenRequests' :
             request'[q].at = "appear" => Since(request'[q].id, request'[q].hash),
           \A q \in OpenRequests : request[q].at = "cache" => request'[q] = request[q]
    PROVE  HashesSound'
<1>1. \A hash : Evicting(hash) => Evicting(hash)'
  BY DEF Evicting, OpenRequests
<1>2. CacheForgets'
  BY <1>1 DEF HashesSound, CacheForgets
<1>3. HashesSince'
  BY DEF HashesSince, Since
<1> QED
  BY <1>2, <1>3 DEF HashesSound

\* A step of the requests alone.
LEMMA RequestsAlone ==
    ASSUME HashesSound, UNCHANGED <<tables, memory>>,
           \A q \in OpenRequests' :
             request'[q].at = "appear" => Since(request'[q].id, request'[q].hash),
           \A q \in OpenRequests : request[q].at = "cache" => request'[q] = request[q]
    PROVE  HashesSound'
BY HashesKept DEF HashesSound, HashesSince, tables, memory, signedIn

\* A request goes on, or ends.
LEMMA OneRequest ==
    ASSUME AccountsIInv, NEW q \in AccountRequests, NEW next, request' = [request EXCEPT ![q] = next]
    PROVE  \A r \in AccountRequests : request'[r] = IF r = q THEN next ELSE request[r]
BY DEF AccountsIInv, RequestsSound

LEMMA BeginKeepsHashes ==
    ASSUME AccountsIInv, HashesSound, NEW q \in AccountRequests, NEW user, NEW n, NEW alias,
           NEW given, NEW new, NEW at \in Places \ {"appear"}, NEW then,
           Accept(q, <<at, then>>, user, n, alias, given, new)
    PROVE  HashesSound'
<1> DEFINE next == [at |-> at, then |-> then, user |-> user, name |-> n, alias |-> alias,
                    given |-> given, id |-> None, hash |-> None,
                    new |-> [of |-> new, salt |-> requested + 1]]
<1>1. /\ request[q] = NoRequest /\ request' = [request EXCEPT ![q] = next]
      /\ UNCHANGED <<tables, memory>> /\ next.at # "appear"
  BY DEF Accept
<1> HIDE DEF next
<1>2. \A r \in AccountRequests : request'[r] = IF r = q THEN next ELSE request[r]
  BY <1>1, OneRequest
<1> QED
  BY <1>1, <1>2, RequestsAlone DEF OpenRequests, HashesSound, HashesSince

LEMMA AskKeepsHashes ==
    ASSUME AccountsIInv, HashesSound, NEW q \in AccountRequests,
           InsertUser(q) \/ FindUser(q) \/ FetchHash(q) \/ FetchOldHash(q) \/ ValidateName(q)
    PROVE  HashesSound'
<1>1. /\ request[q].at \in {"insert", "find", "fetch", "evict", "name"}
      /\ UNCHANGED <<tables, memory>>
  BY DEF InsertUser, FindUser, FetchHash, FetchOldHash, ValidateName, RequestAt
<1>2. q \in OpenRequests /\ request[q] \in RequestTypes /\ RequestSound(q)
  BY <1>1, OpenRequest
<1>3. PICK next : request' = [request EXCEPT ![q] = next] /\ next.at # "appear"
  <2>1. CASE End(q)
    <3>1. request' = [request EXCEPT ![q] = NoRequest] /\ NoRequest.at # "appear"
      BY <2>1 DEF End, NoRequest
    <3> QED
      BY <3>1
  <2>2. CASE InsertUser(q) /\ ~End(q)
    <3>1. PICK i \in Ids : request' = [request EXCEPT ![q] = [request[q] EXCEPT !.at = "stats", !.id = i]]
      BY <2>2, Zenon DEF InsertUser
    <3>2. [request[q] EXCEPT !.at = "stats", !.id = i].at = "stats"
      BY <1>2 DEF RequestTypes
    <3> QED
      BY <3>1, <3>2
  <2>3. CASE FindUser(q) /\ ~End(q)
    <3>1. PICK i : request' = [request EXCEPT ![q] =
                     [request[q] EXCEPT !.id = i, !.name = account[i].name,
                                        !.alias = account[i].alias, !.at = "fetch"]]
      BY <2>3, Zenon DEF FindUser
    <3>2. [request[q] EXCEPT !.id = i, !.name = account[i].name,
                             !.alias = account[i].alias, !.at = "fetch"].at = "fetch"
      BY <1>2 DEF RequestTypes
    <3> QED
      BY <3>1, <3>2
  <2>4. CASE FetchHash(q)
    <3>1. PICK hash : request' = [request EXCEPT ![q] = [request[q] EXCEPT !.hash = hash, !.at = "check"]]
      BY <2>4, Zenon DEF FetchHash
    <3>2. [request[q] EXCEPT !.hash = hash, !.at = "check"].at = "check"
      BY <1>2 DEF RequestTypes
    <3> QED
      BY <3>1, <3>2
  <2>5. CASE FetchOldHash(q)
    <3>1. PICK hash : request' = [request EXCEPT ![q] = [request[q] EXCEPT !.hash = hash, !.at = "update"]]
      BY <2>5, Zenon DEF FetchOldHash
    <3>2. [request[q] EXCEPT !.hash = hash, !.at = "update"].at = "update"
      BY <1>2 DEF RequestTypes
    <3> QED
      BY <3>1, <3>2
  <2>6. CASE ValidateName(q) /\ ~End(q)
    <3>1. request' = [request EXCEPT ![q] = [request[q] EXCEPT !.at = request[q].then]]
      BY <2>6, Zenon DEF ValidateName, Go
    <3>2. /\ [request[q] EXCEPT !.at = request[q].then].at = request[q].then
          /\ request[q].then # "appear"
      BY <1>2 DEF RequestTypes, Targets
    <3> QED
      BY <3>1, <3>2
  <2> QED
    BY <2>1, <2>2, <2>3, <2>4, <2>5, <2>6
<1>4. \A r \in AccountRequests : request'[r] = IF r = q THEN next ELSE request[r]
  BY <1>3, OneRequest
<1> QED
  BY <1>1, <1>3, <1>4, RequestsAlone DEF OpenRequests, HashesSound, HashesSince

LEMMA FetchSessionHashKeeps ==
    ASSUME AccountsIInv, HashesSound, NEW q \in AccountRequests, FetchSessionHash(q)
    PROVE  HashesSound'
<1> DEFINE hash == account[request[q].id].hash
           next == [request[q] EXCEPT !.hash = hash, !.at = "appear"]
<1>1. /\ request[q].at = "enter" /\ UNCHANGED <<tables, memory>>
  BY DEF FetchSessionHash, RequestAt
<1>2. q \in OpenRequests /\ request[q] \in RequestTypes /\ RequestSound(q)
  BY <1>1, OpenRequest
<1>3. request' = [request EXCEPT ![q] = next]
  BY Zenon DEF FetchSessionHash
<1>4. next.id = request[q].id /\ next.hash = hash
  BY <1>2 DEF RequestTypes
<1>5. Since(next.id, next.hash)
  BY <1>1, <1>2, <1>4 DEF Since, RequestSound, AtAccount
<1> HIDE DEF next
<1>6. \A r \in AccountRequests : request'[r] = IF r = q THEN next ELSE request[r]
  BY <1>3, OneRequest
<1> QED
  BY <1>1, <1>5, <1>6, RequestsAlone DEF OpenRequests, HashesSound, HashesSince

\* What enters the cache and was replaced is among what is kept.
LEMMA CacheKeeps ==
    ASSUME AccountsIInv, HashesSound, NEW q \in AccountRequests, NEW hash \in Hashes, NEW password,
           NEW cache \in SUBSET passwordCache, Cache(cache, hash, password),
           UNCHANGED <<tables, signedIn, replaced>>,
           \A r \in OpenRequests' : request'[r].at = "appear" => r # q,
           \A r \in AccountRequests \ {q} : request'[r] = request[r],
           request[q].at = "cache" => \A entry \in cache : entry[1] # request[q].hash
    PROVE  HashesSound'
<1>1. passwordCache' = cache \cup {<<hash, password>>} /\ kept' = kept \cup ({hash} \cap replaced)
  BY DEF Cache
<1>2. ASSUME NEW entry \in passwordCache', entry[1] \in replaced
      PROVE  entry[1] \in kept' \/ Evicting(entry[1])'
  <2>1. CASE entry \in cache
    <3>1. CASE entry[1] \in kept
      BY <1>1, <3>1
    <3>2. CASE Evicting(entry[1])
      <4>1. PICK r \in OpenRequests : request[r].at = "cache" /\ request[r].hash = entry[1]
        BY <3>2 DEF Evicting
      <4>2. r # q
        BY <2>1, <4>1
      <4>3. r \in OpenRequests' /\ request'[r] = request[r]
        BY <4>2 DEF OpenRequests
      <4>4. \E s \in OpenRequests' : request'[s].at = "cache" /\ request'[s].hash = entry[1]
        BY <4>1, <4>3
      <4> QED
        BY <4>4 DEF Evicting
    <3> QED
      BY <1>2, <2>1, <3>1, <3>2 DEF HashesSound, CacheForgets
  <2>2. CASE entry = <<hash, password>>
    BY <1>1, <1>2, <2>2
  <2> QED
    BY <1>1, <2>1, <2>2
<1>3. CacheForgets'
  BY <1>2 DEF CacheForgets
<1>4. HashesSince'
  BY DEF HashesSound, HashesSince, Since, OpenRequests, tables, signedIn
<1>5. replaced' \cup kept' \subseteq Hashes
  BY <1>1 DEF HashesSound
<1> QED
  BY <1>3, <1>4, <1>5 DEF HashesSound

LEMMA CheckKeepsHashes ==
    ASSUME AccountsIInv, HashesSound, NEW q \in AccountRequests,
           ValidateRegistration(q) \/ Verify(q) \/ EvictOldHash(q)
    PROVE  HashesSound'
<1> DEFINE r == request[q]
<1>1. r.at \in {"validate", "check", "cache"} /\ UNCHANGED <<tables, signedIn, replaced>>
  BY DEF ValidateRegistration, Verify, EvictOldHash, RequestAt
<1>2. q \in OpenRequests /\ r \in RequestTypes /\ RequestSound(q)
  BY <1>1, OpenRequest
<1>3. r.at = "check" => r.hash \in Hashes
  BY <1>2 DEF RequestSound
<1>4. r.new \in Hashes
  BY <1>2 DEF RequestTypes
<1>5. ASSUME Go(q, r.then)
      PROVE  /\ \A p \in AccountRequests \ {q} : request'[p] = request[p]
             /\ \A p \in OpenRequests' : request'[p].at = "appear" => p # q
  <2> DEFINE next == [r EXCEPT !.at = r.then]
  <2>1. request' = [request EXCEPT ![q] = next]
    BY <1>5, Zenon DEF Go
  <2>2. next.at # "appear"
    BY <1>2 DEF RequestTypes, Targets
  <2> HIDE DEF next
  <2>3. \A p \in AccountRequests : request'[p] = IF p = q THEN next ELSE request[p]
    BY <2>1, OneRequest
  <2> QED
    BY <2>2, <2>3
<1>6. ASSUME End(q)
      PROVE  /\ \A p \in AccountRequests \ {q} : request'[p] = request[p]
             /\ \A p \in OpenRequests' : request'[p].at = "appear" => p # q
  <2>1. \A p \in AccountRequests : request'[p] = IF p = q THEN NoRequest ELSE request[p]
    BY <1>6, OneRequest DEF End
  <2> QED
    BY <2>1 DEF NoRequest
<1> HIDE DEF r
<1>7. CASE End(q) /\ UNCHANGED <<passwordCache, kept>> /\ r.at # "cache"
  BY <1>1, <1>6, <1>7, RequestsAlone DEF r, OpenRequests, HashesSound, HashesSince, memory
<1>8. CASE Cache(passwordCache, r.new, r.given) /\ Go(q, r.then) /\ r.at # "cache"
  BY <1>1, <1>4, <1>5, <1>8, CacheKeeps DEF r
<1>9. CASE Cache(passwordCache, r.hash, r.given) /\ Go(q, r.then) /\ r.at = "check"
  BY <1>1, <1>3, <1>5, <1>9, CacheKeeps DEF r
<1>10. CASE /\ Cache({entry \in passwordCache : entry[1] # r.hash}, r.new, r.new.of)
            /\ End(q)
  <2> DEFINE cache == {entry \in passwordCache : entry[1] # r.hash}
  <2>1. cache \in SUBSET passwordCache /\ \A entry \in cache : entry[1] # r.hash
    OBVIOUS
  <2>2. Cache(cache, r.new, r.new.of)
    BY <1>10
  <2> HIDE DEF cache
  <2> QED
    BY <1>1, <1>4, <1>6, <1>10, <2>1, <2>2, CacheKeeps DEF r
<1> QED
  BY <1>7, <1>8, <1>9, <1>10 DEF r, ValidateRegistration, Verify, EvictOldHash, RequestAt

\* The hash that is replaced is evicted next, or is among what is kept.
LEMMA UpdateKeepsHashes ==
    ASSUME AccountsIInv, HashesSound, NEW q \in AccountRequests, UpdatePassword(q)
    PROVE  HashesSound'
<1> DEFINE i == request[q].user
           old == account[i].hash
           next == [request[q] EXCEPT !.at = "cache"]
<1>1. /\ request[q].at = "update"
      /\ account' = [account EXCEPT ![i].hash = request[q].new]
      /\ replaced' = replaced \cup {old}
      /\ kept' = kept \cup ({old} \ {request[q].hash})
      /\ request' = [request EXCEPT ![q].at = "cache"]
      /\ UNCHANGED <<passwordCache, signedIn>>
  BY DEF UpdatePassword, RequestAt, Go
<1>2. q \in OpenRequests /\ request[q] \in RequestTypes /\ RequestSound(q)
  BY <1>1, OpenRequest
<1>3. i \in Ids /\ account[i] # None /\ account[i] \in AccountRows /\ old \in Hashes
  BY <1>1, <1>2 DEF RequestSound, OfUser, AccountRows, AccountsIInv, DataSound, AccountsShape
<1>4. next.at = "cache" /\ next.hash = request[q].hash
  BY <1>2 DEF RequestTypes
<1>5. request' = [request EXCEPT ![q] = next]
  BY <1>1, Zenon
<1>6. [account[i] EXCEPT !.hash = request[q].new] # None
  <2>1. [account[i] EXCEPT !.hash = request[q].new] \in AccountRows
    BY <1>2, <1>3 DEF AccountRows, RequestTypes
  <2> QED
    BY <2>1, NoneAssumption
<1> DEFINE tuple == [account[i] EXCEPT !.hash = request[q].new]
<1>7. account' = [account EXCEPT ![i] = tuple]
  BY <1>1, Zenon
<1> HIDE DEF next, i, tuple, old
<1>8. \A r \in AccountRequests : request'[r] = IF r = q THEN next ELSE request[r]
  BY <1>5, OneRequest
<1>9. \A j \in Ids : account'[j] = IF j = i THEN tuple ELSE account[j]
  BY <1>7 DEF AccountsIInv, DataSound, AccountsShape
<1>10. ASSUME NEW j, NEW hash, Since(j, hash)
       PROVE  j \in Ids /\ account'[j] # None /\ (hash = account'[j].hash \/ hash \in replaced')
  <2>1. CASE j = i
    BY <1>1, <1>3, <1>6, <1>9, <1>10, <2>1 DEF Since, old, tuple
  <2>2. CASE j # i
    BY <1>1, <1>9, <1>10, <2>2 DEF Since
  <2> QED
    BY <2>1, <2>2
<1>11. OpenRequests' = OpenRequests
  BY <1>2, <1>4, <1>8 DEF OpenRequests, NoRequest
<1>12. HashesSince'
  <2>1. \A j \in Ids : inGame'[j] # None => Since(j, inGame'[j].hash)
    BY <1>1 DEF HashesSound, HashesSince, signedIn
  <2>2. \A n \in AccountNames : byName'[n] # None => Since(byName'[n].id, byName'[n].hash)
    BY <1>1 DEF HashesSound, HashesSince, signedIn
  <2>3. \A r \in OpenRequests' :
          request'[r].at = "appear" => Since(request'[r].id, request'[r].hash)
    BY <1>4, <1>8, <1>11 DEF HashesSound, HashesSince, OpenRequests
  <2> QED
    BY <1>10, <2>1, <2>2, <2>3 DEF HashesSince, Since
<1>13. CacheForgets'
  <2>1. ASSUME NEW entry \in passwordCache, entry[1] \in replaced'
        PROVE  \/ entry[1] \in kept'
               \/ \E r \in OpenRequests : request'[r].at = "cache" /\ request'[r].hash = entry[1]
    <3>1. CASE entry[1] = old
      BY <1>1, <1>2, <1>4, <1>8, <3>1 DEF OpenRequests
    <3>2. CASE entry[1] \in replaced
      BY <1>1, <1>8, <2>1, <3>2 DEF HashesSound, CacheForgets, Evicting, OpenRequests
    <3> QED
      BY <1>1, <2>1, <3>1, <3>2
  <2> QED
    BY <1>1, <1>11, <2>1 DEF CacheForgets, Evicting
<1> QED
  BY <1>1, <1>3, <1>12, <1>13 DEF HashesSound

\* A row is made, or its names change.
LEMMA NamesKeepHashes ==
    ASSUME AccountsIInv, HashesSound, NEW q \in AccountRequests,
           CreateAccount(q) \/ UpdateName(q) \/ UpdateAlias(q)
    PROVE  HashesSound'
<1>1. request[q].at \in {"stats", "rename", "localize"} /\ UNCHANGED memory
  BY DEF CreateAccount, UpdateName, UpdateAlias, RequestAt
<1>2. q \in OpenRequests /\ request[q] \in RequestTypes /\ RequestSound(q)
  BY <1>1, OpenRequest
<1>3. PICK next : request' = [request EXCEPT ![q] = next] /\ next.at # "appear"
  <2>1. CASE End(q)
    <3>1. request' = [request EXCEPT ![q] = NoRequest] /\ NoRequest.at # "appear"
      BY <2>1 DEF End, NoRequest
    <3> QED
      BY <3>1
  <2>2. ASSUME NEW at \in {"tell name", "tell alias"}, Go(q, at)
        PROVE  \E next : request' = [request EXCEPT ![q] = next] /\ next.at # "appear"
    <3>1. request' = [request EXCEPT ![q] = [request[q] EXCEPT !.at = at]]
      BY <2>2, Zenon DEF Go
    <3>2. [request[q] EXCEPT !.at = at].at = at
      BY <1>2 DEF RequestTypes
    <3> QED
      BY <3>1, <3>2
  <2> QED
    BY <2>1, <2>2 DEF CreateAccount, UpdateName, UpdateAlias
<1>4. \A r \in AccountRequests : request'[r] = IF r = q THEN next ELSE request[r]
  BY <1>3, OneRequest
<1>5. \A i \in Ids : account[i] # None => account'[i] # None /\ account'[i].hash = account[i].hash
  <2>1. CASE CreateAccount(q)
    <3>1. request[q].id \in Ids /\ account[request[q].id] = None
      BY <1>2, <2>1 DEF CreateAccount, RequestAt, RequestSound
    <3>2. PICK tuple : account' = account \/ account' = [account EXCEPT ![request[q].id] = tuple]
      BY <2>1, Zenon DEF CreateAccount, tables
    <3> QED
      BY <3>1, <3>2 DEF AccountsIInv, DataSound, AccountsShape
  <2>2. CASE UpdateName(q) \/ UpdateAlias(q)
    <3> DEFINE i == request[q].user
               named == [account[i] EXCEPT !.name = request[q].name]
               localized == [account[i] EXCEPT !.alias = request[q].alias]
    <3>1. i \in Ids /\ account[i] # None /\ account[i] \in AccountRows
      BY <1>2, <2>2 DEF UpdateName, UpdateAlias, RequestAt, RequestSound, OfUser, AccountsIInv,
         DataSound, AccountsShape
    <3>2. /\ named \in AccountRows /\ named.hash = account[i].hash
          /\ localized \in AccountRows /\ localized.hash = account[i].hash
      BY <1>2, <3>1 DEF AccountRows, RequestTypes
    <3>3. \/ account' = account \/ account' = [account EXCEPT ![i] = named]
          \/ account' = [account EXCEPT ![i] = localized]
      BY <2>2, Zenon DEF UpdateName, UpdateAlias
    <3> HIDE DEF i, named, localized
    <3> QED
      BY <3>1, <3>2, <3>3, NoneAssumption DEF AccountsIInv, DataSound, AccountsShape
  <2> QED
    BY <2>1, <2>2
<1> QED
  BY <1>1, <1>3, <1>4, <1>5, HashesKept DEF OpenRequests, HashesSound, HashesSince, memory, signedIn

\* Sessions begin with what the login fetched, and end.
LEMMA SessionsKeepHashes ==
    ASSUME AccountsIInv, HashesSound, NEW q \in AccountRequests,
           CreateToken(q) \/ EnterGame(q) \/ TellName(q) \/ TellAlias(q)
    PROVE  HashesSound'
<1>1. /\ request[q].at \in {"token", "appear", "tell name", "tell alias"} /\ End(q)
      /\ UNCHANGED <<tables, passwordCache, replaced, kept>>
  BY DEF CreateToken, EnterGame, TellName, TellAlias, RequestAt
<1>2. q \in OpenRequests /\ request[q] \in RequestTypes /\ RequestSound(q)
  BY <1>1, OpenRequest
<1>3. \A r \in AccountRequests : request'[r] = IF r = q THEN NoRequest ELSE request[r]
  BY <1>1, OneRequest DEF End
<1>4. OpenRequests' = OpenRequests \ {q}
  BY <1>3 DEF OpenRequests
<1>5. /\ \A i \in Ids : inGame'[i] # None => Since(i, inGame'[i].hash)
      /\ \A n \in AccountNames : byName'[n] # None => Since(byName'[n].id, byName'[n].hash)
  <2>1. CASE EnterGame(q)
    <3> DEFINE i == request[q].id
               joining == [name |-> request[q].name, alias |-> request[q].alias,
                           hash |-> request[q].hash]
               entry == [id |-> i, hash |-> request[q].hash]
    <3>1. Since(i, request[q].hash)
      BY <1>2, <2>1 DEF EnterGame, RequestAt, HashesSound, HashesSince
    <3>2. \/ UNCHANGED <<inGame, byName>>
          \/ /\ inGame' = [inGame EXCEPT ![i] = joining]
             /\ byName' = [byName EXCEPT ![request[q].name] = entry]
      BY <2>1 DEF EnterGame
    <3>3. joining.hash = request[q].hash /\ entry.id = i /\ entry.hash = request[q].hash
      OBVIOUS
    <3> HIDE DEF i, joining, entry
    <3>4. \A j \in Ids : inGame'[j] = inGame[j] \/ (j = i /\ inGame'[j] = joining)
      BY <3>2 DEF AccountsIInv, DataSound, AccountsShape
    <3>5. \A n \in AccountNames : byName'[n] \in {byName[n], entry}
      BY <3>2 DEF AccountsIInv, DataSound, AccountsShape
    <3> QED
      BY <3>1, <3>3, <3>4, <3>5 DEF HashesSound, HashesSince
  <2>2. CASE CreateToken(q)
    BY <2>2 DEF CreateToken, HashesSound, HashesSince
  <2>3. CASE TellName(q) \/ TellAlias(q)
    <3> DEFINE i == request[q].user
               named == [inGame[i] EXCEPT !.name = request[q].name]
               localized == [inGame[i] EXCEPT !.alias = request[q].alias]
    <3>1. /\ byName' = byName
          /\ \/ inGame' = inGame
             \/ inGame[i] # None /\ inGame' = [inGame EXCEPT ![i] = named]
             \/ inGame[i] # None /\ inGame' = [inGame EXCEPT ![i] = localized]
      BY <2>3, Zenon DEF TellName, TellAlias
    <3>2. i \in Ids
      BY <1>2, <2>3 DEF TellName, TellAlias, RequestAt, RequestSound, OfUser
    <3>3. inGame[i] # None => named.hash = inGame[i].hash /\ localized.hash = inGame[i].hash
      BY <3>2 DEF AccountRows, AccountsIInv, DataSound, AccountsShape
    <3> HIDE DEF i, named, localized
    <3>4. \A j \in Ids : inGame'[j] # None => inGame[j] # None /\ inGame'[j].hash = inGame[j].hash
      BY <3>1, <3>2, <3>3 DEF AccountsIInv, DataSound, AccountsShape
    <3> QED
      BY <3>1, <3>4 DEF HashesSound, HashesSince
  <2> QED
    BY <2>1, <2>2, <2>3
<1>6. /\ \A r \in OpenRequests' : request'[r].at = "appear" => Since(request'[r].id, request'[r].hash)
      /\ \A r \in OpenRequests : request[r].at = "cache" => request'[r] = request[r]
  BY <1>1, <1>3, <1>4 DEF OpenRequests, HashesSound, HashesSince
<1> QED
  BY <1>1, <1>5, <1>6, HashesKept DEF tables

LEMMA LeavingKeepsHashes ==
    ASSUME AccountsIInv, HashesSound, NEW i \in Ids, EndWebSession(i) \/ LeaveGame(i)
    PROVE  HashesSound'
<1>1. UNCHANGED <<tables, passwordCache, replaced, kept, request>>
  BY DEF EndWebSession, LeaveGame
<1>2. /\ \A j \in Ids : inGame'[j] \in {inGame[j], None}
      /\ \A n \in AccountNames : byName'[n] \in {byName[n], None}
  BY DEF EndWebSession, LeaveGame, AccountsIInv, DataSound, AccountsShape
<1> QED
  BY <1>1, <1>2, HashesKept DEF HashesSound, HashesSince, OpenRequests, tables

LEMMA HashesInductive == AccountsSpec => [](AccountsIInv /\ HashesSound)
<1>1. ASSUME AccountsIInv, HashesSound, [AccountsNext]_accountsVars
      PROVE  HashesSound'
  <2>1. CASE UNCHANGED accountsVars
    BY <1>1, <2>1, RequestsAlone
    DEF accountsVars, tables, memory, signedIn, HashesSound, HashesSince, OpenRequests
  <2>2. ASSUME NEW q \in AccountRequests, ProceedRequest(q)
        PROVE  HashesSound'
    <3>1. CASE InsertUser(q) \/ FindUser(q) \/ FetchHash(q) \/ FetchOldHash(q) \/ ValidateName(q)
      BY <1>1, <3>1, AskKeepsHashes
    <3>2. CASE ValidateRegistration(q) \/ Verify(q) \/ EvictOldHash(q)
      BY <1>1, <3>2, CheckKeepsHashes
    <3>3. CASE UpdatePassword(q) \/ FetchSessionHash(q)
      BY <1>1, <3>3, UpdateKeepsHashes, FetchSessionHashKeeps
    <3>4. CASE CreateAccount(q) \/ UpdateName(q) \/ UpdateAlias(q)
      BY <1>1, <3>4, NamesKeepHashes
    <3>5. CASE CreateToken(q) \/ EnterGame(q) \/ TellName(q) \/ TellAlias(q)
      BY <1>1, <3>5, SessionsKeepHashes
    <3> QED
      BY <2>2, <3>1, <3>2, <3>3, <3>4, <3>5 DEF ProceedRequest
  <2>3. ASSUME NEW q \in AccountRequests, NEW n \in AccountNames, NEW p \in Passwords,
               Register(q, n, p) \/ WebLogin(q, n, p) \/ GameLogin(q, n, p)
        PROVE  HashesSound'
    BY <1>1, <2>3, BeginKeepsHashes DEF Register, WebLogin, GameLogin, Places
  <2>4. ASSUME NEW q \in AccountRequests, NEW i \in Ids,
               \/ \E p, new \in Passwords : ChangePassword(q, i, p, new)
               \/ \E n \in AccountNames : Rename(q, i, n)
               \/ \E alias \in AccountNames \cup {None} : Localize(q, i, alias)
        PROVE  HashesSound'
    BY <1>1, <2>4, BeginKeepsHashes DEF ChangePassword, Rename, Localize, Places, OfUser
  <2>5. ASSUME NEW i \in Ids, EndWebSession(i) \/ LeaveGame(i)
        PROVE  HashesSound'
    BY <1>1, <2>5, LeavingKeepsHashes
  <2> QED
    BY <1>1, <2>1, <2>2, <2>3, <2>4, <2>5 DEF AccountsNext
<1>2. AccountsSpec => AccountsInit /\ [][AccountsNext]_accountsVars
  BY DEF AccountsSpec
<1> QED
  BY <1>1, <1>2, HashesInitially, AccountsInductive, PTL

\* Every account, session, token and cache entry has its type.
THEOREM AccountsTypeCorrect == AccountsSpec => []AccountsTypeOK
<1>1. AccountsIInv /\ HashesSound => AccountsTypeOK
  BY DEF AccountsIInv, HashesSound, DataSound, RequestsSound, AccountsShape, AccountsTypeOK,
     OpenRequests, RequestTypes
<1> QED
  BY <1>1, HashesInductive, PTL

\* Whatever overlaps: a login or a change of password that began after a password was
\* changed is refused with it; the game's web requests are, too, once the change has
\* evicted the hash, if no check or change overlapped it; an account has its statistics;
\* and a name that no session changed finds the session of its account
\* (authenticate_login_credentials, authenticate_online_player, create_account,
\* update_profile).
THEOREM AccountsAreSound == AccountsSpec => []AccountsSound
<1>1. ASSUME AccountsIInv
      PROVE  OldPasswordRefused
  <2>1. \A q \in OpenRequests : RequestSound(q)
    BY <1>1 DEF AccountsIInv, RequestsSound
  <2> QED
    BY <2>1 DEF OldPasswordRefused, RequestSound
<1>2. ASSUME AccountsIInv, HashesSound
      PROVE  OldPasswordForgotten
  <2>1. ASSUME NEW n \in AccountNames, NEW p \in Passwords, NEW entry \in Finds(n),
               AuthenticatesOnline(entry, p), <<entry.id, p>> \in former
        PROVE  Evicting(entry.hash) \/ entry.hash \in kept
    <3>1. Since(entry.id, entry.hash)
      BY <1>2 DEF Finds, HashesSound, HashesSince
    <3>2. p = entry.hash.of
      BY <1>2, <2>1 DEF AuthenticatesOnline, AccountsIInv, DataSound, CacheIsTrue
    <3>3. entry.hash # account[entry.id].hash
      BY <1>2, <2>1, <3>1, <3>2 DEF Since, AccountsIInv, DataSound, RowsAgree
    <3> QED
      BY <1>2, <2>1, <3>1, <3>3 DEF Since, AuthenticatesOnline, HashesSound, CacheForgets
  <2> QED
    BY <2>1 DEF OldPasswordForgotten, Evicting, RequestAt
<1>3. AccountsIInv /\ HashesSound => AccountsSound
  BY <1>1, <1>2 DEF AccountsIInv, DataSound, AccountsSound
<1> QED
  BY <1>3, HashesInductive, PTL

-----------------------------------------------------------------------------
(***************************************************************************)
(* Pools. SerialPools needs that what a command found in an earlier step   *)
(* is still so when no other command came between (OneAtATime), that the   *)
(* pool an addition found has an id that was given (FoundPools), so that   *)
(* no later pool gets that of one it saw deleted, and that a pool fits on  *)
(* one page until one outgrew it (PagesSuffice).                           *)
(***************************************************************************)

CreateCommands == [do : {"create"}, at : {"name", "insert"}, name : PoolNames]
DeleteCommands ==
    [do : {"delete"}, at : {"name", "look", "open", "commit pool", "commit both"},
     name : PoolNames, found : Nat]
AddCommands ==
    [do : {"add"}, at : {"name", "look", "insert"}, name : PoolNames, found : Nat,
     pick : Picks, map : Maps]
MapRows == [pool : Nat, map : Maps, pick : Picks]
RemoveCommands ==
    [do : {"remove"}, at : {"name", "look", "row"}, name : PoolNames, found : Nat,
     pick : Picks \cup MapRows]
PoolCommandTypes == CreateCommands \cup DeleteCommands \cup AddCommands \cup RemoveCommands

PoolsShape ==
    /\ lastPool \in Nat /\ DOMAIN pools \subseteq 1..lastPool
    /\ \A id \in DOMAIN pools : pools[id] \in PoolNames
    /\ poolMaps \subseteq [pool : 1..lastPool, map : Maps, pick : Picks]
    /\ IsFiniteSet(poolMaps)
    /\ commands \in [PoolCommands -> PoolCommandTypes \cup {Nothing}]
    /\ poolsBegun \in 0..MaxPoolCommands
    /\ poolsOverlap \in BOOLEAN /\ crowded \in BOOLEAN

\* What a command found is a pool that was there.
FoundPools ==
    \A c \in OpenPoolCommands :
      commands[c].do = "add" /\ commands[c].at # "name" => commands[c].found \in 1..lastPool

\* What a command that nothing overlaps has found is still so.
StillSo(c) ==
    LET r == commands[c] IN
    /\ r.do = "create" /\ r.at = "insert" => Called(r.name) = {}
    /\ r.do = "add" /\ r.at # "name" => r.found \in DOMAIN pools
    /\ r.do = "add" /\ r.at = "insert" /\ ~crowded => \A m \in In(r.found) : m.pick # r.pick
    /\ r.at = "commit pool" => In(r.found) = {}

OneAtATime ==
    ~poolsOverlap => /\ \A c, d \in OpenPoolCommands : c = d
                     /\ \A c \in OpenPoolCommands : StillSo(c)

PagesSuffice == ~crowded => \A id \in Nat : Cardinality(In(id)) <= PageSize

PoolsIInv == PoolsShape /\ FoundPools /\ OneAtATime /\ PagesSuffice /\ SerialPools

-----------------------------------------------------------------------------
LEMMA PoolsInitially == PoolsInit => PoolsIInv
<1> SUFFICES ASSUME PoolsInit PROVE PoolsIInv
  OBVIOUS
<1>1. PoolsShape
  <2>1. 0 \in Nat /\ 0 \in 0..MaxPoolCommands /\ DOMAIN <<>> = {} /\ IsFiniteSet({})
    BY PoolsAssumption, FS_EmptySet
  <2>2. commands \in [PoolCommands -> PoolCommandTypes \cup {Nothing}]
    BY DEF PoolsInit
  <2> QED
    BY <2>1, <2>2 DEF PoolsInit, PoolsShape
<1>2. OpenPoolCommands = {}
  BY DEF PoolsInit, OpenPoolCommands
<1>3. PagesSuffice
  <2>1. \A id \in Nat : In(id) = {}
    BY DEF In, PoolsInit
  <2> QED
    BY <2>1, FS_EmptySet, PoolsAssumption DEF PagesSuffice
<1>4. SerialPools
  BY DEF PoolsInit, SerialPools
<1> QED
  BY <1>1, <1>2, <1>3, <1>4 DEF PoolsIInv, FoundPools, OneAtATime

\* Steps that only read.
LEMMA CommandMoves ==
    ASSUME PoolsIInv, Reads, NEW c \in OpenPoolCommands, NEW r \in PoolCommandTypes,
           commands' = [commands EXCEPT ![c] = r],
           r.do = "add" /\ r.at # "name" => r.found \in 1..lastPool,
           ~poolsOverlap => StillSo(c)'
    PROVE  PoolsIInv'
<1>1. r # Nothing
  BY DEF Nothing, PoolCommandTypes, CreateCommands, DeleteCommands, AddCommands, RemoveCommands
<1>2. /\ c \in PoolCommands
      /\ \A d \in PoolCommands : commands'[d] = IF d = c THEN r ELSE commands[d]
      /\ commands' \in [PoolCommands -> PoolCommandTypes \cup {Nothing}]
  BY DEF OpenPoolCommands, PoolsIInv, PoolsShape
<1>3. OpenPoolCommands' = OpenPoolCommands
  BY <1>1, <1>2 DEF OpenPoolCommands
<1>4. PoolsShape' /\ PagesSuffice' /\ SerialPools'
  BY <1>2 DEF PoolsIInv, Reads, PoolsShape, PagesSuffice, SerialPools, In
<1>5. FoundPools'
  BY <1>2, <1>3 DEF PoolsIInv, Reads, FoundPools, OpenPoolCommands
<1>6. OneAtATime'
  BY <1>2, <1>3 DEF PoolsIInv, Reads, OneAtATime, OpenPoolCommands
<1> QED
  BY <1>4, <1>5, <1>6 DEF PoolsIInv

\* Steps that end a command.
LEMMA CommandEnds ==
    ASSUME PoolsIInv, NEW c \in OpenPoolCommands, Ends(c), UNCHANGED <<poolsBegun, poolsOverlap>>,
           lastPool' \in Nat, lastPool' >= lastPool, DOMAIN pools' \subseteq 1..lastPool',
           \A id \in DOMAIN pools' : pools'[id] \in PoolNames,
           poolMaps' \subseteq [pool : 1..lastPool', map : Maps, pick : Picks],
           IsFiniteSet(poolMaps'), crowded' \in BOOLEAN, PagesSuffice', SerialPools'
    PROVE  PoolsIInv'
<1>1. /\ c \in PoolCommands
      /\ \A d \in PoolCommands : commands'[d] = IF d = c THEN Nothing ELSE commands[d]
      /\ commands' \in [PoolCommands -> PoolCommandTypes \cup {Nothing}]
  BY DEF OpenPoolCommands, PoolsIInv, PoolsShape, Ends
<1>2. OpenPoolCommands' = OpenPoolCommands \ {c}
  BY <1>1 DEF OpenPoolCommands
<1>3. PoolsShape'
  BY <1>1 DEF PoolsIInv, PoolsShape
<1>4. FoundPools'
  BY <1>1, <1>2 DEF PoolsIInv, PoolsShape, FoundPools, OpenPoolCommands
<1>5. ~poolsOverlap' => OpenPoolCommands' = {}
  BY <1>2 DEF PoolsIInv, OneAtATime
<1> QED
  BY <1>3, <1>4, <1>5 DEF PoolsIInv, OneAtATime

LEMMA BeginPreserves ==
    ASSUME PoolsIInv, NEW c \in PoolCommands, NEW r \in PoolCommandTypes, r.at = "name",
           BeginCommand(c, r)
    PROVE  PoolsIInv'
<1>1. r # Nothing
  BY DEF Nothing, PoolCommandTypes, CreateCommands, DeleteCommands, AddCommands, RemoveCommands
<1>2. /\ \A d \in PoolCommands : commands'[d] = IF d = c THEN r ELSE commands[d]
      /\ commands' \in [PoolCommands -> PoolCommandTypes \cup {Nothing}]
      /\ poolsBegun' \in 0..MaxPoolCommands
      /\ poolsOverlap' = (poolsOverlap \/ OpenPoolCommands # {})
      /\ UNCHANGED <<pools, lastPool, poolMaps, crowded>>
  BY PoolsAssumption DEF PoolsIInv, PoolsShape, BeginCommand
<1>3. OpenPoolCommands' = OpenPoolCommands \cup {c}
  BY <1>1, <1>2 DEF OpenPoolCommands
<1>4. PoolsShape' /\ PagesSuffice' /\ SerialPools'
  BY <1>2 DEF PoolsIInv, PoolsShape, PagesSuffice, SerialPools, In
<1>5. FoundPools'
  BY <1>2, <1>3 DEF PoolsIInv, FoundPools, OpenPoolCommands
<1>6. OneAtATime'
  <2>1. StillSo(c)'
    BY <1>2 DEF StillSo
  <2> QED
    BY <1>2, <1>3, <2>1 DEF OneAtATime
<1> QED
  BY <1>4, <1>5, <1>6 DEF PoolsIInv

\* A command goes on: where it is and what it found change.
LEMMA CreateGoes ==
    ASSUME NEW r \in CreateCommands
    PROVE  LET next == [r EXCEPT !.at = "insert"] IN
           next \in PoolCommandTypes /\ next.do = "create" /\ next.name = r.name /\ next.at = "insert"
BY DEF CreateCommands, PoolCommandTypes

LEMMA DeleteGoes ==
    ASSUME NEW r \in DeleteCommands, NEW at \in {"open", "commit pool", "commit both"}
    PROVE  LET next == [r EXCEPT !.at = at] IN
           next \in PoolCommandTypes /\ next.do = "delete" /\ next.found = r.found /\ next.at = at
BY DEF DeleteCommands, PoolCommandTypes

LEMMA AddGoes ==
    ASSUME NEW r \in AddCommands
    PROVE  LET next == [r EXCEPT !.at = "insert"] IN
           /\ next \in PoolCommandTypes /\ next.do = "add" /\ next.found = r.found
           /\ next.at = "insert" /\ next.pick = r.pick
BY DEF AddCommands, PoolCommandTypes

LEMMA RemoveGoes ==
    ASSUME NEW r \in RemoveCommands, NEW m \in MapRows
    PROVE  LET next == [r EXCEPT !.at = "row", !.pick = m] IN
           next \in PoolCommandTypes /\ next.do = "remove" /\ next.at = "row"
BY DEF RemoveCommands, PoolCommandTypes

LEMMA NameFound ==
    ASSUME NEW r \in PoolCommandTypes, r.do # "create", NEW id \in Nat
    PROVE  LET next == [r EXCEPT !.at = "look", !.found = id] IN
           next \in PoolCommandTypes /\ next.do = r.do /\ next.found = id /\ next.at = "look"
<1>1. CASE r \in DeleteCommands
  BY <1>1 DEF DeleteCommands, PoolCommandTypes
<1>2. CASE r \in AddCommands
  BY <1>2 DEF AddCommands, PoolCommandTypes
<1>3. CASE r \in RemoveCommands
  BY <1>3 DEF RemoveCommands, PoolCommandTypes
<1> QED
  BY <1>1, <1>2, <1>3 DEF PoolCommandTypes, CreateCommands

LEMMA PoolCommandFields ==
    ASSUME PoolsIInv, NEW c \in PoolCommands, commands[c] # Nothing
    PROVE  /\ c \in OpenPoolCommands /\ commands[c] \in PoolCommandTypes
           /\ commands[c].do = "create" => commands[c] \in CreateCommands
           /\ commands[c].do = "delete" => commands[c] \in DeleteCommands
           /\ commands[c].do = "add" => commands[c] \in AddCommands
           /\ commands[c].do = "remove" => commands[c] \in RemoveCommands
<1>1. c \in OpenPoolCommands /\ commands[c] \in PoolCommandTypes
  BY DEF OpenPoolCommands, PoolsIInv, PoolsShape
<1> QED
  BY <1>1 DEF PoolCommandTypes, CreateCommands, DeleteCommands, AddCommands, RemoveCommands

LEMMA EndsAfterReading ==
    ASSUME PoolsIInv, NEW c \in OpenPoolCommands, Ends(c), Reads
    PROVE  PoolsIInv'
<1>1. /\ lastPool' \in Nat /\ lastPool' >= lastPool /\ DOMAIN pools' \subseteq 1..lastPool'
      /\ \A id \in DOMAIN pools' : pools'[id] \in PoolNames
      /\ poolMaps' \subseteq [pool : 1..lastPool', map : Maps, pick : Picks]
      /\ IsFiniteSet(poolMaps') /\ crowded' \in BOOLEAN
      /\ PagesSuffice' /\ SerialPools'
  BY DEF PoolsIInv, PoolsShape, Reads, PagesSuffice, In, SerialPools
<1> QED
  BY <1>1, CommandEnds DEF Reads

-----------------------------------------------------------------------------
LEMMA FetchByNamePreserves ==
    ASSUME PoolsIInv, NEW c \in PoolCommands, FetchByName(c)
    PROVE  PoolsIInv'
<1>1. Reads /\ commands[c] # Nothing /\ commands[c].at = "name"
  BY DEF FetchByName
<1>2. /\ c \in OpenPoolCommands /\ commands[c] \in PoolCommandTypes
      /\ commands[c].do = "create" => commands[c] \in CreateCommands
  BY <1>1, PoolCommandFields
<1>3. CASE Ends(c)
  BY <1>1, <1>2, <1>3, EndsAfterReading
<1>4. CASE commands[c].do = "create" /\ Called(commands[c].name) = {} /\ Goes(c, "insert")
  <2> DEFINE r == [commands[c] EXCEPT !.at = "insert"]
  <2>1. r \in PoolCommandTypes /\ r.do = "create" /\ r.name = commands[c].name /\ r.at = "insert"
    BY <1>2, <1>4, CreateGoes, Zenon
  <2>2. commands' = [commands EXCEPT ![c] = r]
    BY <1>4, Zenon DEF Goes
  <2> HIDE DEF r
  <2>3. StillSo(c)'
    <3>1. commands'[c] = r
      BY <2>2 DEF PoolsIInv, PoolsShape
    <3> QED
      BY <1>1, <1>4, <2>1, <3>1 DEF StillSo, Reads, Called
  <2> QED
    BY <1>1, <1>2, <2>1, <2>2, <2>3, CommandMoves
<1>5. ASSUME commands[c].do # "create", NEW id \in Called(commands[c].name),
             GoesWith(c, "look", id)
      PROVE  PoolsIInv'
  <2>1. id \in DOMAIN pools /\ id \in Nat /\ id \in 1..lastPool
    BY DEF Called, PoolsIInv, PoolsShape
  <2> DEFINE r == [commands[c] EXCEPT !.at = "look", !.found = id]
  <2>2. r \in PoolCommandTypes /\ r.do = commands[c].do /\ r.found = id /\ r.at = "look"
    BY <1>2, <1>5, <2>1, NameFound, Zenon
  <2>3. commands' = [commands EXCEPT ![c] = r]
    BY <1>5, Zenon DEF GoesWith
  <2> HIDE DEF r
  <2>4. StillSo(c)'
    <3>1. commands'[c] = r
      BY <2>3 DEF PoolsIInv, PoolsShape
    <3> QED
      BY <1>1, <1>5, <2>1, <2>2, <3>1 DEF StillSo, Reads
  <2> QED
    BY <1>1, <1>2, <2>1, <2>2, <2>3, <2>4, CommandMoves
<1> QED
  BY <1>3, <1>4, <1>5 DEF FetchByName

LEMMA PoolCreatePreserves ==
    ASSUME PoolsIInv, NEW c \in PoolCommands, CreatePool(c)
    PROVE  PoolsIInv'
<1> DEFINE id == lastPool + 1
<1>1. /\ commands[c] # Nothing /\ commands[c].do = "create" /\ commands[c].at = "insert"
      /\ lastPool' = id
      /\ pools' = [p \in DOMAIN pools \cup {id} |-> IF p = id THEN commands[c].name ELSE pools[p]]
      /\ Ends(c) /\ UNCHANGED <<poolMaps, poolsBegun, poolsOverlap, crowded>>
  BY DEF CreatePool, CommandIs
<1>2. c \in OpenPoolCommands /\ commands[c] \in CreateCommands
  BY <1>1, PoolCommandFields
<1>3. commands[c].name \in PoolNames
  BY <1>2 DEF CreateCommands
<1>4. id \in Nat /\ id >= lastPool /\ id \notin DOMAIN pools /\ DOMAIN pools \subseteq 1..id /\ id \in 1..id
  BY DEF PoolsIInv, PoolsShape
<1> HIDE DEF id
<1>5. /\ DOMAIN pools' = DOMAIN pools \cup {id}
      /\ pools'[id] = commands[c].name
      /\ \A p \in DOMAIN pools : pools'[p] = pools[p]
  BY <1>1, <1>4
<1>6. SerialPools'
  <2>1. ~poolsOverlap => Called(commands[c].name) = {}
    BY <1>1, <1>2 DEF PoolsIInv, OneAtATime, StillSo
  <2> QED
    BY <1>1, <1>5, <2>1 DEF PoolsIInv, SerialPools, Called
<1>7. PagesSuffice'
  BY <1>1 DEF PoolsIInv, PagesSuffice, In
<1>8. /\ DOMAIN pools' \subseteq 1..lastPool' /\ \A p \in DOMAIN pools' : pools'[p] \in PoolNames
      /\ poolMaps' \subseteq [pool : 1..lastPool', map : Maps, pick : Picks]
      /\ IsFiniteSet(poolMaps') /\ crowded' \in BOOLEAN
  <2>1. 1..lastPool \subseteq 1..id
    BY <1>4 DEF id, PoolsIInv, PoolsShape
  <2>2. poolMaps \subseteq [pool : 1..id, map : Maps, pick : Picks]
    BY <2>1 DEF PoolsIInv, PoolsShape
  <2> QED
    BY <1>1, <1>3, <1>4, <1>5, <2>2 DEF PoolsIInv, PoolsShape
<1> QED
  BY <1>1, <1>2, <1>4, <1>6, <1>7, <1>8, CommandEnds

LEMMA DeletionPreserves ==
    ASSUME PoolsIInv, NEW c \in PoolCommands, FetchPool(c) \/ OpenTransaction(c)
    PROVE  PoolsIInv'
<1>1. Reads /\ commands[c] # Nothing /\ commands[c].do = "delete"
  BY DEF FetchPool, OpenTransaction, CommandIs
<1>2. c \in OpenPoolCommands /\ commands[c] \in DeleteCommands
  BY <1>1, PoolCommandFields
<1>3. CASE Ends(c)
  BY <1>1, <1>2, <1>3, EndsAfterReading
<1>4. ASSUME NEW at \in {"open", "commit pool", "commit both"},
             commands' = [commands EXCEPT ![c].at = at],
             at = "commit pool" => In(commands[c].found) = {}
      PROVE  PoolsIInv'
  <2> DEFINE r == [commands[c] EXCEPT !.at = at]
  <2>1. r \in PoolCommandTypes /\ r.do = "delete" /\ r.found = commands[c].found /\ r.at = at
    BY <1>2, <1>4, DeleteGoes, Zenon
  <2>2. commands' = [commands EXCEPT ![c] = r]
    BY <1>4, Zenon
  <2> HIDE DEF r
  <2>3. StillSo(c)'
    <3>1. commands'[c] = r
      BY <2>2 DEF PoolsIInv, PoolsShape
    <3> QED
      BY <1>1, <1>4, <2>1, <3>1 DEF StillSo, Reads, In
  <2> QED
    BY <1>1, <1>2, <2>1, <2>2, <2>3, CommandMoves
<1>5. CASE FetchPool(c)
  BY <1>3, <1>4, <1>5 DEF FetchPool, Goes
<1>6. CASE OpenTransaction(c)
  <2>1. CASE In(commands[c].found) = {}
    <3>1. commands' = [commands EXCEPT ![c].at = "commit pool"]
      BY <1>6, <2>1 DEF OpenTransaction
    <3> QED
      BY <1>4, <2>1, <3>1
  <2>2. CASE In(commands[c].found) # {}
    <3>1. commands' = [commands EXCEPT ![c].at = "commit both"]
      BY <1>6, <2>2 DEF OpenTransaction
    <3> QED
      BY <1>4, <3>1
  <2> QED
    BY <2>1, <2>2
<1> QED
  BY <1>5, <1>6

\* Fewer maps fit a page all the more.
LEMMA FewerMaps ==
    ASSUME PoolsIInv, poolMaps' \subseteq poolMaps, UNCHANGED crowded
    PROVE  /\ IsFiniteSet(poolMaps') /\ PagesSuffice'
           /\ \A id : In(id)' \subseteq In(id)
<1>1. IsFiniteSet(poolMaps') /\ IsFiniteSet(poolMaps)
  BY FS_Subset DEF PoolsIInv, PoolsShape
<1>2. \A id : In(id)' \subseteq In(id) /\ In(id) \subseteq poolMaps
  BY DEF In
<1>3. ASSUME NEW id \in Nat, ~crowded
      PROVE  Cardinality(In(id)') <= PageSize
  <2>1. IsFiniteSet(In(id))
    BY <1>1, <1>2, FS_Subset
  <2>2. IsFiniteSet(In(id)') /\ Cardinality(In(id)') <= Cardinality(In(id))
    BY <1>2, <2>1, FS_Subset
  <2>3. Cardinality(In(id)) <= PageSize
    BY <1>3 DEF PoolsIInv, PagesSuffice
  <2> QED
    BY <2>1, <2>2, <2>3, FS_CardinalityType, PoolsAssumption
<1> QED
  BY <1>1, <1>2, <1>3 DEF PagesSuffice

LEMMA CommitKeeps ==
    ASSUME PoolsIInv, NEW c \in PoolCommands, CommitDelete(c)
    PROVE  PoolsIInv'
<1> DEFINE id == commands[c].found
<1>1. /\ commands[c] # Nothing /\ commands[c].at \in {"commit pool", "commit both"}
      /\ pools' = [p \in DOMAIN pools \ {id} |-> pools[p]]
      /\ poolMaps' = IF commands[c].at = "commit both" THEN poolMaps \ In(id) ELSE poolMaps
      /\ Ends(c) /\ UNCHANGED <<lastPool, poolsBegun, poolsOverlap, crowded>>
  BY DEF CommitDelete
<1>2. c \in OpenPoolCommands
  BY <1>1, PoolCommandFields
<1>3. IsFiniteSet(poolMaps') /\ PagesSuffice' /\ poolMaps' \subseteq poolMaps
  BY <1>1, FewerMaps
<1>4. ~poolsOverlap => poolMaps' = poolMaps \ In(id)
  <2>1. ~poolsOverlap /\ commands[c].at = "commit pool" => In(id) = {}
    BY <1>2 DEF PoolsIInv, OneAtATime, StillSo
  <2> QED
    BY <1>1, <2>1
<1> HIDE DEF id
<1>5. SerialPools'
  BY <1>1, <1>3, <1>4 DEF PoolsIInv, SerialPools, In
<1>6. /\ lastPool' \in Nat /\ lastPool' >= lastPool
      /\ DOMAIN pools' \subseteq 1..lastPool' /\ \A p \in DOMAIN pools' : pools'[p] \in PoolNames
      /\ poolMaps' \subseteq [pool : 1..lastPool', map : Maps, pick : Picks]
      /\ crowded' \in BOOLEAN
  <2>1. DOMAIN pools' = DOMAIN pools \ {id} /\ \A p \in DOMAIN pools' : pools'[p] = pools[p]
    BY <1>1
  <2>2. lastPool' = lastPool /\ crowded' = crowded
    BY <1>1
  <2> HIDE DEF id
  <2> QED
    BY <1>3, <2>1, <2>2 DEF PoolsIInv, PoolsShape
<1> QED
  BY <1>1, <1>2, <1>3, <1>5, <1>6, CommandEnds

\* While no pool has more maps than a page, an add sees all of its pool.
LEMMA LookPreserves ==
    ASSUME PoolsIInv, NEW c \in PoolCommands, LookForPick(c)
    PROVE  PoolsIInv'
<1> DEFINE id == commands[c].found
           pick == commands[c].pick
<1>1. /\ Reads /\ commands[c] # Nothing /\ commands[c].do = "add" /\ commands[c].at = "look"
      /\ \E page \in Pages(id) :
           IF \E m \in page : m.pick = pick \/ m.map = commands[c].map
           THEN Ends(c) ELSE Goes(c, "insert")
  BY DEF LookForPick, CommandIs
<1>2. c \in OpenPoolCommands /\ commands[c] \in AddCommands
  BY <1>1, PoolCommandFields
<1>3. CASE Ends(c)
  BY <1>1, <1>2, <1>3, EndsAfterReading
<1>4. ASSUME NEW page \in Pages(id), \A m \in page : m.pick # pick, Goes(c, "insert")
      PROVE  PoolsIInv'
  <2>1. id \in 1..lastPool /\ id \in Nat
    BY <1>1, <1>2 DEF PoolsIInv, PoolsShape, FoundPools, AddCommands
  <2>2. ~poolsOverlap => id \in DOMAIN pools
    BY <1>1, <1>2 DEF PoolsIInv, OneAtATime, StillSo
  <2>3. ~crowded => \A m \in In(id) : m.pick # pick
    <3>1. IsFiniteSet(In(id))
      <4>1. In(id) \in SUBSET poolMaps
        BY DEF In
      <4> QED
        BY <4>1, FS_Subset DEF PoolsIInv, PoolsShape
    <3>2. page \in SUBSET In(id) /\ (Cardinality(page) = PageSize \/ page = In(id))
      BY <1>4 DEF Pages
    <3>3. ~crowded => Cardinality(In(id)) <= PageSize
      BY <2>1 DEF PoolsIInv, PagesSuffice
    <3> HIDE DEF id
    <3>4. Cardinality(page) <= Cardinality(In(id))
          /\ (Cardinality(In(id)) = Cardinality(page) => In(id) = page)
      BY <3>1, <3>2, FS_Subset
    <3>5. Cardinality(In(id)) \in Nat
      BY <3>1, FS_CardinalityType
    <3>6. ~crowded => page = In(id)
      BY <3>2, <3>3, <3>4, <3>5, PoolsAssumption
    <3> QED
      BY <1>4, <3>6
  <2> DEFINE r == [commands[c] EXCEPT !.at = "insert"]
  <2>4. /\ r \in PoolCommandTypes /\ r.do = "add" /\ r.found = id
        /\ r.at = "insert" /\ r.pick = pick
    BY <1>2, AddGoes, Zenon
  <2>5. commands' = [commands EXCEPT ![c] = r]
    BY <1>4, Zenon DEF Goes
  <2> HIDE DEF r, id, pick
  <2>6. ~poolsOverlap => StillSo(c)'
    <3>1. commands'[c] = r
      BY <2>5 DEF PoolsIInv, PoolsShape
    <3>2. UNCHANGED <<pools, poolMaps, poolsOverlap, crowded>>
      BY <1>1 DEF Reads
    <3>3. ~crowded => \A m \in poolMaps : m.pool = r.found => m.pick # r.pick
      BY <2>3, <2>4 DEF In
    <3> QED
      BY <2>2, <2>4, <3>1, <3>2, <3>3 DEF StillSo, In
  <2> QED
    BY <1>1, <1>2, <2>1, <2>4, <2>5, <2>6, CommandMoves
<1> QED
  BY <1>1, <1>3, <1>4

LEMMA PoolInsertPreserves ==
    ASSUME PoolsIInv, NEW c \in PoolCommands, InsertMap(c)
    PROVE  PoolsIInv'
<1> DEFINE id == commands[c].found
           pick == commands[c].pick
           map == commands[c].map
           new == [pool |-> id, map |-> map, pick |-> pick]
<1>1. /\ commands[c] # Nothing /\ commands[c].do = "add" /\ commands[c].at = "insert"
      /\ poolMaps' = IF \E m \in In(id) : m.map = map THEN poolMaps ELSE poolMaps \cup {new}
      /\ crowded' = (crowded \/ Cardinality({m \in poolMaps' : m.pool = id}) > PageSize)
      /\ Ends(c) /\ UNCHANGED <<pools, lastPool, poolsBegun, poolsOverlap>>
  BY DEF InsertMap, CommandIs
<1>2. c \in OpenPoolCommands /\ commands[c] \in AddCommands
  BY <1>1, PoolCommandFields
<1>3. id \in 1..lastPool /\ id \in Nat /\ map \in Maps /\ (pick \in Picks)
  BY <1>1, <1>2 DEF PoolsIInv, PoolsShape, FoundPools, AddCommands
<1>4. /\ ~poolsOverlap => id \in DOMAIN pools
      /\ ~poolsOverlap /\ ~crowded => \A m \in In(id) : m.pick # pick
  BY <1>1, <1>2 DEF PoolsIInv, OneAtATime, StillSo
<1> HIDE DEF id, pick, map
<1>5. new.pool = id /\ new.pick = pick /\ new \in [pool : 1..lastPool, map : Maps, pick : Picks]
  BY <1>3
<1> HIDE DEF new
<1>6. poolMaps' = poolMaps \/ poolMaps' = poolMaps \cup {new}
  BY <1>1
<1>7. IsFiniteSet(poolMaps')
  BY <1>6, FS_AddElement DEF PoolsIInv, PoolsShape
<1>8. PagesSuffice'
  <2>1. ASSUME ~crowded', NEW p \in Nat
        PROVE  Cardinality(In(p)') <= PageSize
    <3>1. ~crowded /\ Cardinality(In(p)) <= PageSize
      BY <1>1, <2>1 DEF PoolsIInv, PagesSuffice
    <3>2. CASE p # id
      <4>1. In(p)' = In(p)
        BY <1>5, <1>6, <3>2 DEF In
      <4> QED
        BY <3>1, <4>1
    <3>3. CASE p = id
      <4> DEFINE inIt == {m \in poolMaps' : m.pool = id}
      <4>1. In(p)' = inIt
        BY <3>3 DEF In
      <4>2. In(p)' \in SUBSET poolMaps'
        BY DEF In
      <4>3. Cardinality(In(p)') \in Nat
        BY <1>7, <4>2, FS_Subset, FS_CardinalityType
      <4>4. ~(Cardinality(inIt) > PageSize)
        BY <1>1, <2>1
      <4> HIDE DEF inIt
      <4> QED
        BY <4>1, <4>3, <4>4, PoolsAssumption
    <3> QED
      BY <3>2, <3>3
  <2> QED
    BY <2>1 DEF PagesSuffice
<1>9. SerialPools'
  BY <1>1, <1>4, <1>5, <1>6 DEF PoolsIInv, SerialPools, In
<1>10. /\ lastPool' \in Nat /\ lastPool' >= lastPool
       /\ DOMAIN pools' \subseteq 1..lastPool' /\ \A p \in DOMAIN pools' : pools'[p] \in PoolNames
       /\ poolMaps' \subseteq [pool : 1..lastPool', map : Maps, pick : Picks]
       /\ crowded' \in BOOLEAN
  BY <1>1, <1>5, <1>6 DEF PoolsIInv, PoolsShape
<1> QED
  BY <1>1, <1>2, <1>7, <1>8, <1>9, <1>10, CommandEnds

LEMMA FetchPickPreserves ==
    ASSUME PoolsIInv, NEW c \in PoolCommands, FetchPick(c)
    PROVE  PoolsIInv'
<1>1. /\ Reads /\ commands[c] # Nothing /\ commands[c].do = "remove"
      /\ \/ Ends(c)
         \/ \E m \in poolMaps : commands' = [commands EXCEPT ![c].at = "row", ![c].pick = m]
  BY DEF FetchPick, CommandIs, In
<1>2. c \in OpenPoolCommands /\ commands[c] \in RemoveCommands
  BY <1>1, PoolCommandFields
<1>3. CASE Ends(c)
  BY <1>1, <1>2, <1>3, EndsAfterReading
<1>4. ASSUME NEW m \in poolMaps,
             commands' = [commands EXCEPT ![c].at = "row", ![c].pick = m]
      PROVE  PoolsIInv'
  <2>1. m \in MapRows
    BY DEF MapRows, PoolsIInv, PoolsShape
  <2> DEFINE r == [commands[c] EXCEPT !.at = "row", !.pick = m]
  <2>2. r \in PoolCommandTypes /\ r.do = "remove" /\ r.at = "row"
    BY <1>2, <2>1, RemoveGoes, Zenon
  <2>3. commands' = [commands EXCEPT ![c] = r]
    BY <1>4, Zenon
  <2> HIDE DEF r
  <2>4. StillSo(c)'
    <3>1. commands'[c] = r
      BY <2>3 DEF PoolsIInv, PoolsShape
    <3> QED
      BY <2>2, <3>1 DEF StillSo
  <2> QED
    BY <1>1, <1>2, <2>2, <2>3, <2>4, CommandMoves
<1> QED
  BY <1>1, <1>3, <1>4

LEMMA DeleteMapPreserves ==
    ASSUME PoolsIInv, NEW c \in PoolCommands, DeleteMap(c)
    PROVE  PoolsIInv'
<1>1. /\ commands[c] # Nothing /\ poolMaps' \subseteq poolMaps
      /\ Ends(c) /\ UNCHANGED <<pools, lastPool, poolsBegun, poolsOverlap, crowded>>
  BY DEF DeleteMap, CommandIs
<1>2. c \in OpenPoolCommands
  BY <1>1, PoolCommandFields
<1>3. IsFiniteSet(poolMaps') /\ PagesSuffice'
  BY <1>1, FewerMaps
<1>4. SerialPools'
  BY <1>1 DEF PoolsIInv, SerialPools
<1>5. /\ lastPool' \in Nat /\ lastPool' >= lastPool
      /\ DOMAIN pools' \subseteq 1..lastPool' /\ \A p \in DOMAIN pools' : pools'[p] \in PoolNames
      /\ poolMaps' \subseteq [pool : 1..lastPool', map : Maps, pick : Picks]
      /\ crowded' \in BOOLEAN
  BY <1>1 DEF PoolsIInv, PoolsShape
<1> QED
  BY <1>1, <1>2, <1>3, <1>4, <1>5, CommandEnds

LEMMA PoolBeginsPreserve ==
    ASSUME PoolsIInv, NEW c \in PoolCommands, NEW name \in PoolNames,
           \/ PoolCreate(c, name) \/ PoolDelete(c, name)
           \/ \E pick \in Picks : \/ PoolRemove(c, name, pick)
                                  \/ \E map \in Maps : PoolAdd(c, name, pick, map)
    PROVE  PoolsIInv'
<1>1. CASE PoolCreate(c, name)
  <2> DEFINE r == [do |-> "create", at |-> "name", name |-> name]
  <2>1. r \in PoolCommandTypes /\ r.at = "name"
    BY DEF PoolCommandTypes, CreateCommands
  <2> QED
    BY <1>1, <2>1, BeginPreserves, Zenon DEF PoolCreate
<1>2. CASE PoolDelete(c, name)
  <2> DEFINE r == [do |-> "delete", at |-> "name", name |-> name, found |-> 0]
  <2>1. r \in PoolCommandTypes /\ r.at = "name"
    BY DEF PoolCommandTypes, DeleteCommands
  <2> QED
    BY <1>2, <2>1, BeginPreserves, Zenon DEF PoolDelete
<1>3. ASSUME NEW pick \in Picks, PoolRemove(c, name, pick)
      PROVE  PoolsIInv'
  <2> DEFINE r == [do |-> "remove", at |-> "name", name |-> name, found |-> 0, pick |-> pick]
  <2>1. r \in PoolCommandTypes /\ r.at = "name"
    BY DEF PoolCommandTypes, RemoveCommands
  <2> QED
    BY <1>3, <2>1, BeginPreserves, Zenon DEF PoolRemove
<1>4. ASSUME NEW pick \in Picks, NEW map \in Maps, PoolAdd(c, name, pick, map)
      PROVE  PoolsIInv'
  <2> DEFINE r == [do |-> "add", at |-> "name", name |-> name, found |-> 0,
                   pick |-> pick, map |-> map]
  <2>1. r \in PoolCommandTypes /\ r.at = "name"
    BY DEF PoolCommandTypes, AddCommands
  <2> QED
    BY <1>4, <2>1, BeginPreserves, Zenon DEF PoolAdd
<1> QED
  BY <1>1, <1>2, <1>3, <1>4

LEMMA PoolsInductive == PoolsSpec => []PoolsIInv
<1>1. ASSUME PoolsIInv, [PoolsNext]_poolsVars
      PROVE  PoolsIInv'
  <2>1. CASE UNCHANGED poolsVars
    <3>1. PoolsShape' /\ FoundPools' /\ PagesSuffice' /\ SerialPools'
      BY <1>1, <2>1 DEF poolsVars, PoolsIInv, PoolsShape, FoundPools, PagesSuffice, SerialPools,
         OpenPoolCommands, In
    <3>2. OpenPoolCommands' = OpenPoolCommands /\ \A c : StillSo(c)' = StillSo(c)
      BY <2>1 DEF poolsVars, OpenPoolCommands, StillSo, Called, In
    <3>3. OneAtATime'
      BY <1>1, <2>1, <3>2 DEF poolsVars, PoolsIInv, OneAtATime
    <3> QED
      BY <3>1, <3>3 DEF PoolsIInv
  <2>2. ASSUME NEW c \in PoolCommands, Handle(c)
        PROVE  PoolsIInv'
    <3>1. CASE FetchByName(c) \/ CreatePool(c)
      BY <1>1, <3>1, FetchByNamePreserves, PoolCreatePreserves
    <3>2. CASE FetchPool(c) \/ OpenTransaction(c) \/ CommitDelete(c)
      BY <1>1, <3>2, DeletionPreserves, CommitKeeps
    <3>3. CASE LookForPick(c) \/ InsertMap(c)
      BY <1>1, <3>3, LookPreserves, PoolInsertPreserves
    <3>4. CASE FetchPick(c) \/ DeleteMap(c)
      BY <1>1, <3>4, FetchPickPreserves, DeleteMapPreserves
    <3> QED
      BY <1>1, <2>2, <3>1, <3>2, <3>3, <3>4, PoolBeginsPreserve DEF Handle
  <2> QED
    BY <1>1, <2>1, <2>2 DEF PoolsNext
<1> QED
  BY <1>1, PoolsInitially, PTL DEF PoolsSpec

\* Pools, their maps and the open commands keep their types, and ids are not given twice.
THEOREM PoolsTypeCorrect == PoolsSpec => []PoolsTypeOK
<1>1. PoolsIInv => PoolsTypeOK
  BY DEF PoolsIInv, PoolsShape, PoolsTypeOK, OpenPoolCommands, PoolCommandTypes,
     CreateCommands, DeleteCommands, AddCommands, RemoveCommands
<1> QED
  BY <1>1, PoolsInductive, PTL

\* While commands came one at a time, no map is left without its pool and no name or pick
\* is given twice (commands.pool_create, pool_add, pool_remove, pool_delete).
THEOREM PoolsAreSerial == PoolsSpec => []SerialPools
<1>1. PoolsIInv => SerialPools
  BY DEF PoolsIInv
<1> QED
  BY <1>1, PoolsInductive, PTL

-----------------------------------------------------------------------------
(***************************************************************************)
(* Visibility. That an answer shows only whom its viewer could see needs   *)
(* two facts. One is about the handlers, and no state: before a handler    *)
(* shows its target it has passed a gate (HandlersAreSound, over all the   *)
(* endpoints). The other is the invariant: what the row and the session of *)
(* a player are now, every request that is open has seen, so that whoever  *)
(* is behind a gate has seen the target (RequestKept).                     *)
(***************************************************************************)

-----------------------------------------------------------------------------
(* What every handler does before it shows somebody *)

StepTypes ==
    [do : {"gate", "found", "rows", "await", "own", "owner", "try session", "show if visible"},
     by : {"row", "session", "row of who is online", "session or row", "owner",
           "users", "scores", "ranking", "members", "map", "leaderboard", "firsts", "best",
           "related", "friends", "online", "target"}]
GateTypes == {"row", "session", "row of who is online", "session or row", "owner"}

\* A query of the policy's own, or after a gate, or of an endpoint that is not claimed to
\* filter, or to filter by restriction only.
QuerySound(h, e, i) ==
    \/ h[i].by \in {"users", "scores", "ranking", "members"}
    \/ h[i].by \in {"target", "firsts"} /\ \E j \in 1 .. i - 1 : h[j].do = "gate"
    \/ h[i].by \in {"related", "friends", "online", "target"} /\ e \in Unfiltered
    \/ h[i].by \in {"map", "leaderboard", "best"} /\ e \in ByRestriction

StepIsSound(h, e, i) ==
    /\ h[i].do = "rows" => QuerySound(h, e, i)
    /\ h[i].do = "try session" => i + 1 \in 1..Len(h) /\ h[i + 1].do = "gate"
    /\ h[i].do = "owner" => i + 1 \in 1..Len(h)
    /\ h[i].do \in {"gate", "try session", "show if visible"} => h[i].by \in GateTypes

HandlerSound(h, e) ==
    /\ h \in Seq(StepTypes) /\ h # <<>>
    /\ \A i \in 1..Len(h) : StepIsSound(h, e, i)

-----------------------------------------------------------------------------
(* The handlers are sound *)

LEMMA StepsOfJoin ==
    ASSUME NEW T, NEW s \in Seq(T), NEW t \in Seq(T)
    PROVE  /\ s \o t \in Seq(T) /\ Len(s \o t) = Len(s) + Len(t)
           /\ Len(s) \in Nat /\ Len(t) \in Nat
           /\ \A i \in 1..Len(s) : (s \o t)[i] = s[i]
           /\ \A i \in 1..Len(t) : (s \o t)[Len(s) + i] = t[i]
<1>1. /\ s \o t \in Seq(T) /\ Len(s \o t) = Len(s) + Len(t)
      /\ \A i \in 1 .. Len(s) + Len(t) : (s \o t)[i] = IF i <= Len(s) THEN s[i] ELSE t[i - Len(s)]
  BY ConcatProperties
<1>2. Len(s) \in Nat /\ Len(t) \in Nat
  BY LenProperties
<1> DEFINE st == s \o t
           m == Len(s)
           n == Len(t)
<1> HIDE DEF st, m, n
<1>3. /\ m \in Nat /\ n \in Nat
      /\ \A i \in 1 .. m + n : st[i] = IF i <= m THEN s[i] ELSE t[i - m]
  BY <1>1, <1>2 DEF st, m, n
<1>4. \A i \in 1..m : st[i] = s[i]
  BY <1>3
<1>5. \A i \in 1..n : st[m + i] = t[i]
  <2> TAKE i \in 1..n
  <2>1. m + i \in 1 .. m + n /\ ~(m + i <= m) /\ (m + i) - m = i
    BY <1>3
  <2> QED
    BY <1>3, <2>1
<1> QED
  BY <1>1, <1>2, <1>4, <1>5 DEF st, m, n

\* Steps that show nobody
QuietSteps ==
    {Found, AwaitOther, Own} \cup {Gate(by) : by \in GateTypes}

\* Steps that show nobody but whom the policy lets through, before any gate
FreeQueries(e) ==
    {"users", "scores", "ranking", "members"}
      \cup (IF e \in Unfiltered THEN {"related", "friends", "online", "target"} ELSE {})
      \cup (IF e \in ByRestriction THEN {"map", "leaderboard", "best"} ELSE {})
FreeSteps(e) ==
    QuietSteps \cup {RowsOf(of) : of \in FreeQueries(e)}
      \cup {[do |-> "show if visible", by |-> "session or row"]}

\* Steps that show the target, or no one
TargetSteps == {RowsOf("target"), RowsOf("firsts")}

LEMMA FreeStepsAre ==
    ASSUME NEW e, NEW x \in FreeSteps(e)
    PROVE  /\ x \in StepTypes /\ x.do # "try session" /\ x.do # "owner"
           /\ x.do = "rows" => \/ x.by \in {"users", "scores", "ranking", "members"}
                               \/ x.by \in {"related", "friends", "online", "target"} /\ e \in Unfiltered
                               \/ x.by \in {"map", "leaderboard", "best"} /\ e \in ByRestriction
           /\ x.do \in {"gate", "show if visible"} => x.by \in GateTypes
<1>1. CASE x \in QuietSteps
  <2>1. CASE x \in {Gate(by) : by \in GateTypes}
    <3>1. PICK by \in GateTypes : x = [do |-> "gate", by |-> by]
      BY <2>1 DEF Gate
    <3>2. x.do = "gate" /\ x.by = by
      BY <3>1
    <3>3. x \in StepTypes
      BY <3>1 DEF StepTypes, GateTypes
    <3> QED
      BY <3>2, <3>3
  <2>2. CASE x \in {Found, AwaitOther, Own}
    <3>1. x \in StepTypes /\ x.do \in {"found", "await", "own"}
      <4>1. \A do \in {"found", "await", "own"}, by \in {"row", "session"} :
              LET step == [do |-> do, by |-> by] IN step \in StepTypes /\ step.do = do
        BY DEF StepTypes
      <4> QED
        BY <2>2, <4>1 DEF Found, AwaitOther, Own
    <3> QED
      BY <3>1
  <2> QED
    BY <1>1, <2>1, <2>2 DEF QuietSteps
<1>2. CASE x \in {RowsOf(of) : of \in FreeQueries(e)}
  <2>1. PICK of \in FreeQueries(e) : x = [do |-> "rows", by |-> of]
    BY <1>2 DEF RowsOf
  <2>2. x.do = "rows" /\ x.by = of
    BY <2>1
  <2>3. of \in {"users", "scores", "ranking", "members", "map", "leaderboard", "best",
                 "related", "friends", "online", "target"}
    BY DEF FreeQueries
  <2>4. x \in StepTypes
    BY <2>1, <2>3 DEF StepTypes
  <2> QED
    BY <2>2, <2>4 DEF FreeQueries
<1>3. CASE x = [do |-> "show if visible", by |-> "session or row"]
  BY <1>3 DEF StepTypes, GateTypes
<1> QED
  BY <1>1, <1>2, <1>3 DEF FreeSteps

LEMMA FreeIsSound ==
    ASSUME NEW e, NEW h \in Seq(FreeSteps(e)), h # <<>>
    PROVE  HandlerSound(h, e)
<1>1. \A i \in 1..Len(h) : h[i] \in FreeSteps(e)
  BY ElementOfSeq
<1>2. \A i \in 1..Len(h) : h[i] \in StepTypes /\ StepIsSound(h, e, i)
  BY <1>1, FreeStepsAre DEF StepIsSound, QuerySound
<1> QED
  BY <1>2 DEF HandlerSound

LEMMA GatedIsSound ==
    ASSUME NEW e, NEW h \in Seq(FreeSteps(e) \cup TargetSteps),
           NEW g \in 1..Len(h), h[g].do = "gate", \A i \in 1..g : h[i] \in FreeSteps(e)
    PROVE  HandlerSound(h, e)
<1>1. Len(h) \in Nat /\ \A i \in 1..Len(h) : h[i] \in FreeSteps(e) \cup TargetSteps
  BY ElementOfSeq, LenProperties
<1>2. ASSUME NEW i \in 1..Len(h), h[i] \in FreeSteps(e)
      PROVE  h[i] \in StepTypes /\ StepIsSound(h, e, i)
  BY <1>2, FreeStepsAre DEF StepIsSound, QuerySound
<1>3. ASSUME NEW i \in 1..Len(h), h[i] \in TargetSteps
      PROVE  h[i] \in StepTypes /\ StepIsSound(h, e, i)
  <2>1. h[i] \in StepTypes /\ h[i].do = "rows" /\ h[i].by \in {"target", "firsts"}
    <3>1. \A of \in {"target", "firsts"} :
            LET x == [do |-> "rows", by |-> of]
            IN  x \in StepTypes /\ x.do = "rows" /\ x.by \in {"target", "firsts"}
      BY DEF StepTypes
    <3> QED
      BY <1>3, <3>1 DEF TargetSteps, RowsOf
  <2>2. CASE i <= g
    <3>1. h[i] \in FreeSteps(e)
      BY <2>2
    <3> QED
      BY <3>1, <1>2
  <2>3. CASE i > g
    <3>1. g \in 1 .. i - 1
      BY <2>3, <1>1
    <3> QED
      BY <2>1, <3>1 DEF StepIsSound, QuerySound
  <2> QED
    BY <2>2, <2>3, <1>1
<1>4. \A i \in 1..Len(h) : h[i] \in StepTypes /\ StepIsSound(h, e, i)
  BY <1>1, <1>2, <1>3
<1>5. h # <<>>
  BY <1>1
<1> QED
  BY <1>4, <1>5 DEF HandlerSound

\* A player's own data go out when a gate was passed.
LEMMA ShownLastIsSound ==
    ASSUME NEW e, NEW h \in Seq(QuietSteps), NEW g \in 1..Len(h), h[g].do = "gate"
    PROVE  HandlerSound(h \o <<Show>>, e)
<1> DEFINE T == FreeSteps(e) \cup TargetSteps
           st == h \o <<Show>>
<1>1. Show \in T /\ QuietSteps \subseteq T /\ QuietSteps \subseteq FreeSteps(e)
  BY DEF Show, TargetSteps, FreeSteps
<1>2. \A i \in 1..Len(h) : h[i] \in QuietSteps
  BY ElementOfSeq
<1> HIDE DEF T
<1>3. h \in Seq(T) /\ <<Show>> \in Seq(T)
  BY <1>1
<1>4. /\ st \in Seq(T) /\ Len(st) = Len(h) + 1 /\ Len(h) \in Nat
      /\ \A i \in 1..Len(h) : st[i] = h[i]
  <2>1. Len(<<Show>>) = 1
    OBVIOUS
  <2> QED
    BY <1>3, <2>1, StepsOfJoin
<1> HIDE DEF st
<1>5. g \in 1..Len(st) /\ st[g].do = "gate" /\ \A i \in 1..g : st[i] \in FreeSteps(e)
  BY <1>1, <1>2, <1>4
<1>6. HandlerSound(st, e)
  BY <1>4, <1>5, GatedIsSound DEF T
<1> QED
  BY <1>6 DEF st

LEMMA StepsAre ==
    ASSUME NEW e
    PROVE  /\ Found \in QuietSteps /\ AwaitOther \in QuietSteps /\ Own \in QuietSteps
           /\ \A by \in {"row", "session", "row of who is online", "session or row", "owner"} :
                Gate(by) \in QuietSteps /\ Gate(by).do = "gate"
           /\ \A of \in FreeQueries(e) : RowsOf(of) \in FreeSteps(e)
           /\ QuietSteps \subseteq FreeSteps(e)
           /\ {"users", "scores", "ranking", "members"} \subseteq FreeQueries(e)
<1>1. /\ Found \in QuietSteps /\ AwaitOther \in QuietSteps /\ Own \in QuietSteps
  BY DEF QuietSteps
<1>2. \A by \in {"row", "session", "row of who is online", "session or row", "owner"} :
        Gate(by) \in QuietSteps /\ Gate(by).do = "gate"
  BY DEF QuietSteps, GateTypes, Gate
<1>3. \A of \in FreeQueries(e) : RowsOf(of) \in FreeSteps(e)
  BY DEF FreeSteps
<1>4. /\ QuietSteps \subseteq FreeSteps(e)
      /\ {"users", "scores", "ranking", "members"} \subseteq FreeQueries(e)
  BY DEF FreeSteps, FreeQueries
<1> QED
  BY <1>1, <1>2, <1>3, <1>4

LEMMA Queries ==
    ASSUME NEW F, RowsOf("users") \in F, RowsOf("scores") \in F, RowsOf("ranking") \in F,
           AwaitOther \in F
    PROVE  /\ GetPlayers \in Seq(F) /\ SearchPlayers \in Seq(F) /\ GetAllScores \in Seq(F)
           /\ GetLeaderboard \in Seq(F) /\ ApiSearchPlayers \in Seq(F)
           /\ ApiGetGlobalLeaderboard \in Seq(F)
BY DEF GetPlayers, FetchPlayers, SearchPlayers, GetAllScores, FetchScores, GetLeaderboard,
       FetchGlobalLeaderboard, ApiSearchPlayers, ApiGetGlobalLeaderboard
LEMMA QueriesAreSound ==
    ASSUME NEW e
    PROVE  /\ HandlerSound(GetPlayers, e) /\ HandlerSound(SearchPlayers, e)
           /\ HandlerSound(GetAllScores, e) /\ HandlerSound(GetLeaderboard, e)
           /\ HandlerSound(ApiSearchPlayers, e) /\ HandlerSound(ApiGetGlobalLeaderboard, e)
<1>1. /\ RowsOf("users") \in FreeSteps(e) /\ RowsOf("scores") \in FreeSteps(e)
      /\ RowsOf("ranking") \in FreeSteps(e) /\ AwaitOther \in FreeSteps(e)
  BY StepsAre
<1>2. /\ GetPlayers # <<>> /\ SearchPlayers # <<>> /\ GetAllScores # <<>> /\ GetLeaderboard # <<>>
      /\ ApiSearchPlayers # <<>> /\ ApiGetGlobalLeaderboard # <<>>
  BY DEF GetPlayers, FetchPlayers, SearchPlayers, GetAllScores, FetchScores, GetLeaderboard,
         FetchGlobalLeaderboard, ApiSearchPlayers, ApiGetGlobalLeaderboard
<1> QED
  BY <1>1, <1>2, Queries, FreeIsSound

LEMMA UnfilteredAreSound ==
    /\ HandlerSound(GetPlayerFriends, "get_player_friends")
    /\ HandlerSound(GetPlayerFollowing, "get_player_following")
    /\ HandlerSound(GetPlayerFollowers, "get_player_followers")
    /\ HandlerSound(GetPlayerBanner, "get_player_banner")
    /\ HandlerSound(GetClans, "get_clans")
    /\ HandlerSound(GetClanById, "get_clan")
    /\ HandlerSound(GetOnlinePlayers, "get_online_players")
    /\ HandlerSound(ApiGetMatch, "api_get_match")
    /\ HandlerSound(BanchoViewOnlineUsers, "bancho_view_online_users")
    /\ HandlerSound(BanchoViewMatches, "bancho_view_matches")
    /\ HandlerSound(OsuGetFriends, "osu_get_friends")
<1>1. ASSUME NEW e \in Unfiltered
      PROVE  /\ HandlerSound(GetPlayerFriends, e) /\ HandlerSound(GetPlayerFollowing, e)
             /\ HandlerSound(GetPlayerFollowers, e)
  <2> DEFINE F == FreeSteps(e)
  <2>1. Own \in F /\ AwaitOther \in F /\ RowsOf("related") \in F
    BY <1>1, StepsAre DEF FreeQueries
  <2> HIDE DEF F
  <2>2. /\ GetPlayerFriends \in Seq(F) /\ GetPlayerFollowing \in Seq(F) /\ GetPlayerFollowers \in Seq(F)
        /\ GetPlayerFriends # <<>> /\ GetPlayerFollowing # <<>> /\ GetPlayerFollowers # <<>>
    BY <2>1 DEF GetPlayerFriends, GetPlayerFollowing, GetPlayerFollowers
  <2> QED
    BY <2>2, FreeIsSound DEF F
<1>2. ASSUME NEW e \in Unfiltered
      PROVE  /\ HandlerSound(<<Found, Show>>, e) /\ HandlerSound(<<AwaitOther, Show>>, e)
             /\ HandlerSound(<<RowsOf("online")>>, e) /\ HandlerSound(<<RowsOf("friends")>>, e)
  <2> DEFINE F == FreeSteps(e)
             online == RowsOf("online")
             friendRows == RowsOf("friends")
  <2>1. Found \in F /\ AwaitOther \in F /\ Show \in F /\ online \in F /\ friendRows \in F
    BY <1>2, StepsAre DEF FreeQueries, Show
  <2> HIDE DEF F, online, friendRows
  <2>2. /\ <<Found, Show>> \in Seq(F) /\ <<AwaitOther, Show>> \in Seq(F)
        /\ <<online>> \in Seq(F) /\ <<friendRows>> \in Seq(F)
        /\ <<Found, Show>> # <<>> /\ <<AwaitOther, Show>> # <<>>
        /\ <<online>> # <<>> /\ <<friendRows>> # <<>>
    BY <2>1
  <2> QED
    BY <2>2, FreeIsSound DEF F, online, friendRows
<1> QED
  BY <1>1, <1>2 DEF Unfiltered, GetPlayerBanner, GetClans, GetClanById, GetOnlinePlayers,
                    ApiGetMatch, BanchoViewOnlineUsers, BanchoViewMatches, OsuGetFriends

LEMMA ByRestrictionAreSound ==
    /\ HandlerSound(GetMapScores, "get_map_scores")
    /\ HandlerSound(ApiGetMapScores, "api_get_map_scores")
    /\ HandlerSound(OsuGetScores, "osu_get_scores")
    /\ HandlerSound(GetServerStats, "get_server_stats")
<1>1. ASSUME NEW e \in ByRestriction
      PROVE  /\ HandlerSound(GetMapScores, e) /\ HandlerSound(ApiGetMapScores, e)
             /\ HandlerSound(OsuGetScores, e) /\ HandlerSound(GetServerStats, e)
  <2> DEFINE F == FreeSteps(e)
  <2>1. /\ Found \in F /\ AwaitOther \in F
        /\ RowsOf("map") \in F /\ RowsOf("leaderboard") \in F /\ RowsOf("best") \in F
    BY <1>1, StepsAre DEF FreeQueries
  <2> HIDE DEF F
  <2>2. <<Found>> \in Seq(F) /\ FetchMapScores \in Seq(F) /\ Len(<<Found>>) = 1
    BY <2>1 DEF FetchMapScores
  <2>3. <<Found>> \o FetchMapScores \in Seq(F) /\ <<Found>> \o FetchMapScores # <<>>
    <3>1. /\ <<Found>> \o FetchMapScores \in Seq(F)
          /\ Len(<<Found>> \o FetchMapScores) = Len(<<Found>>) + Len(FetchMapScores)
          /\ Len(FetchMapScores) \in Nat
      BY <2>2, StepsOfJoin
    <3> DEFINE st == <<Found>> \o FetchMapScores
    <3> HIDE DEF st
    <3>2. Len(st) # 0
      BY <3>1, <2>2 DEF st
    <3>3. st # <<>>
      BY <3>2
    <3> QED
      BY <3>1, <3>3 DEF st
  <2>4. /\ OsuGetScores \in Seq(F) /\ OsuGetScores # <<>>
        /\ GetServerStats \in Seq(F) /\ GetServerStats # <<>>
    BY <2>1 DEF OsuGetScores, GetServerStats
  <2> QED
    BY <2>3, <2>4, FreeIsSound DEF F, GetMapScores, ApiGetMapScores
<1> QED
  BY <1>1 DEF ByRestriction

LEMMA ApiGetClanIsSound == ASSUME NEW e PROVE HandlerSound(ApiGetClan, e)
<1> DEFINE F == FreeSteps(e)
           visible == [do |-> "show if visible", by |-> "session or row"]
<1>1. Found \in F /\ RowsOf("members") \in F /\ visible \in F
  BY StepsAre DEF FreeSteps
<1> HIDE DEF F, visible
<1>2. ApiGetClan \in Seq(F) /\ ApiGetClan # <<>>
  <2>1. <<Found, RowsOf("members"), visible>> \in Seq(F) /\ <<Found, RowsOf("members"), visible>> # <<>>
    BY <1>1
  <2> QED
    BY <2>1 DEF ApiGetClan, visible
<1> QED
  BY <1>2, FreeIsSound DEF F

LEMMA Tuples ==
    ASSUME NEW T, NEW a \in T, NEW b \in T, NEW c \in T, NEW d \in T
    PROVE  /\ <<a, b>> \in Seq(T) /\ Len(<<a, b>>) = 2 /\ <<a, b>>[1] = a /\ <<a, b>>[2] = b
           /\ <<a, b, c>> \in Seq(T) /\ Len(<<a, b, c>>) = 3
           /\ <<a, b, c>>[1] = a /\ <<a, b, c>>[2] = b /\ <<a, b, c>>[3] = c
           /\ <<a, b, c, d>> \in Seq(T) /\ Len(<<a, b, c, d>>) = 4
           /\ <<a, b, c, d>>[1] = a /\ <<a, b, c, d>>[2] = b /\ <<a, b, c, d>>[3] = c
           /\ <<a, b, c, d>>[4] = d
           /\ <<a, b, c, a, d>> \in Seq(T) /\ Len(<<a, b, c, a, d>>) = 5
           /\ <<a, b, c, a, d>>[1] = a /\ <<a, b, c, a, d>>[2] = b /\ <<a, b, c, a, d>>[3] = c
           /\ <<a, b, c, a, d>>[4] = a /\ <<a, b, c, a, d>>[5] = d
           /\ <<a, b, c, b, b, d>> \in Seq(T) /\ Len(<<a, b, c, b, b, d>>) = 6
           /\ <<a, b, c, b, b, d>>[1] = a /\ <<a, b, c, b, b, d>>[2] = b
           /\ <<a, b, c, b, b, d>>[3] = c
OBVIOUS

\* The target is shown after a gate, in one sequence.
LEMMA GatedAreSound ==
    ASSUME NEW e
    PROVE  /\ HandlerSound(GetPlayer, e) /\ HandlerSound(GetPlayerFavourites, e)
           /\ HandlerSound(GetPlayerStatus, e) /\ HandlerSound(GetPlayerScores, e)
           /\ HandlerSound(GetPlayerMostPlayed, e) /\ HandlerSound(GetPlayerFirstPlaces, e)
           /\ HandlerSound(ApiGetPlayerScores, e) /\ HandlerSound(ApiGetPlayerMostPlayed, e)
           /\ HandlerSound(ApiGetScoreInfo, e) /\ HandlerSound(ApiGetPool, e)
<1> DEFINE F == FreeSteps(e)
           T == F \cup TargetSteps
           Passing == {x \in F : x.do = "gate"}
<1>1. /\ \A by \in {"row", "session", "row of who is online", "session or row"} : Gate(by) \in Passing
      /\ Found \in F /\ AwaitOther \in F /\ Show \in T /\ RowsOf("firsts") \in T
      /\ Passing \subseteq F /\ F \subseteq T /\ \A x \in Passing : x.do = "gate"
  BY StepsAre DEF Show, TargetSteps
<1> HIDE DEF F, T, Passing
<1>2. ASSUME NEW gate \in Passing, NEW h, h = <<gate, Show>> \/ h = <<gate, AwaitOther, Show>>
                                       \/ h = <<gate, RowsOf("firsts")>>
                                       \/ h = <<gate, AwaitOther, AwaitOther, Show>>
      PROVE  HandlerSound(h, e)
  <2>1. h \in Seq(T) /\ 1 \in 1..Len(h) /\ h[1] = gate
    <3>1. gate \in T /\ Show \in T /\ AwaitOther \in T /\ RowsOf("firsts") \in T
      BY <1>1
    <3>2. CASE h = <<gate, Show>>
      BY <3>1, <3>2, Tuples
    <3>3. CASE h = <<gate, AwaitOther, Show>>
      BY <3>1, <3>3, Tuples
    <3>4. CASE h = <<gate, RowsOf("firsts")>>
      BY <3>1, <3>4, Tuples
    <3>5. CASE h = <<gate, AwaitOther, AwaitOther, Show>>
      BY <3>1, <3>5, Tuples
    <3> QED
      BY <1>2, <3>2, <3>3, <3>4, <3>5
  <2>2. h[1].do = "gate" /\ \A i \in 1..1 : h[i] \in F
    <3>1. gate.do = "gate" /\ gate \in F
      BY <1>1, Zenon
    <3>2. \A i \in 1..1 : i = 1
      OBVIOUS
    <3> QED
      BY <2>1, <3>1, <3>2, Zenon
  <2> QED
    BY <2>1, <2>2, GatedIsSound DEF F, T
<1>3. HandlerSound(ApiGetScoreInfo, e)
  <2> DEFINE gate == Gate("row")
             h == <<Found, gate, Show>>
  <2>1. gate \in Passing /\ h = ApiGetScoreInfo
    BY <1>1 DEF ApiGetScoreInfo
  <2> HIDE DEF gate
  <2>2. h \in Seq(T) /\ 2 \in 1..Len(h) /\ h[2] = gate /\ h[1] = Found
    <3>1. gate \in T /\ Show \in T /\ Found \in T
      BY <1>1, <2>1
    <3> QED
      BY <3>1, Tuples
  <2> HIDE DEF h
  <2>3. h[2].do = "gate" /\ \A i \in 1..2 : h[i] \in F
    <3>1. gate.do = "gate" /\ gate \in F /\ Found \in F
      BY <1>1, <2>1, Zenon
    <3>2. \A i \in 1..2 : i = 1 \/ i = 2
      OBVIOUS
    <3> QED
      BY <2>2, <3>1, <3>2, Zenon
  <2> QED
    BY <2>1, <2>2, <2>3, GatedIsSound DEF F, T
<1>4. HandlerSound(ApiGetPool, e)
  <2> DEFINE gate == Gate("session")
             h == <<Found, AwaitOther, gate, AwaitOther, AwaitOther, Show>>
  <2>1. gate \in Passing /\ h = ApiGetPool
    BY <1>1 DEF ApiGetPool
  <2> HIDE DEF gate
  <2>2. h \in Seq(T) /\ 3 \in 1..Len(h) /\ h[3] = gate /\ h[1] = Found /\ h[2] = AwaitOther
    <3>1. gate \in T /\ Show \in T /\ Found \in T /\ AwaitOther \in T
      BY <1>1, <2>1
    <3> QED
      BY <3>1, Tuples
  <2> HIDE DEF h
  <2>3. h[3].do = "gate" /\ \A i \in 1..3 : h[i] \in F
    <3>1. gate.do = "gate" /\ gate \in F /\ Found \in F /\ AwaitOther \in F
      BY <1>1, <2>1, Zenon
    <3>2. \A i \in 1..3 : i = 1 \/ i = 2 \/ i = 3
      OBVIOUS
    <3> QED
      BY <2>2, <3>1, <3>2, Zenon
  <2> QED
    BY <2>1, <2>2, <2>3, GatedIsSound DEF F, T
<1>5. /\ Gate("row") \in Passing /\ Gate("row of who is online") \in Passing
      /\ Gate("session or row") \in Passing
  BY <1>1
<1>6. /\ HandlerSound(GetPlayer, e) /\ HandlerSound(GetPlayerFavourites, e)
      /\ HandlerSound(GetPlayerStatus, e) /\ HandlerSound(GetPlayerScores, e)
      /\ HandlerSound(GetPlayerMostPlayed, e) /\ HandlerSound(GetPlayerFirstPlaces, e)
  BY <1>2, <1>5 DEF GetPlayer, GetPlayerFavourites, GetPlayerStatus, GetPlayerScores,
                    GetPlayerMostPlayed, GetPlayerFirstPlaces
<1>7. HandlerSound(ApiGetPlayerScores, e) /\ HandlerSound(ApiGetPlayerMostPlayed, e)
  BY <1>2, <1>5 DEF ApiGetPlayerScores, ApiGetPlayerMostPlayed
<1> QED
  BY <1>3, <1>4, <1>6, <1>7

\* With a session its own gate is the one that counts, and the next one is skipped.
LEMMA ApiGetPlayerStatusIsSound == ASSUME NEW e PROVE HandlerSound(ApiGetPlayerStatus, e)
<1> DEFINE attempt == [do |-> "try session", by |-> "session"]
           gate == Gate("row")
           h == <<attempt, gate, AwaitOther, Show>>
<1>1. /\ attempt \in StepTypes /\ attempt.do = "try session" /\ attempt.by \in GateTypes
      /\ gate \in StepTypes /\ gate.do = "gate" /\ gate.by \in GateTypes
      /\ AwaitOther \in StepTypes /\ AwaitOther.do = "await"
      /\ Show \in StepTypes /\ Show.do = "rows" /\ Show.by = "target"
  BY DEF Gate, AwaitOther, Show, RowsOf, StepTypes, GateTypes
<1>2. h = ApiGetPlayerStatus
  BY DEF ApiGetPlayerStatus
<1> HIDE DEF attempt, gate
<1>3. /\ h \in Seq(StepTypes) /\ Len(h) = 4
      /\ h[1] = attempt /\ h[2] = gate /\ h[3] = AwaitOther /\ h[4] = Show
  BY <1>1, Tuples
<1> HIDE DEF h
<1>4. /\ h[1].do = "try session" /\ h[1].by \in GateTypes
      /\ h[2].do = "gate" /\ h[2].by \in GateTypes
      /\ h[3].do = "await"
      /\ h[4].do = "rows" /\ h[4].by = "target"
  BY <1>1, <1>3, Zenon
<1>5. StepIsSound(h, e, 1) /\ StepIsSound(h, e, 2) /\ StepIsSound(h, e, 3) /\ StepIsSound(h, e, 4)
  <2>1. 2 \in 1 .. 4 - 1 /\ 1 + 1 = 2 /\ 1 + 1 \in 1..Len(h)
    BY <1>3
  <2> QED
    BY <1>4, <2>1 DEF StepIsSound, QuerySound
<1>6. h # <<>> /\ \A i \in 1..Len(h) : i \in {1, 2, 3, 4}
  BY <1>3
<1>7. \A i \in 1..Len(h) : StepIsSound(h, e, i)
  BY <1>5, <1>6
<1> QED
  BY <1>2, <1>3, <1>6, <1>7 DEF HandlerSound

LEMMA QuietSequences ==
    /\ FetchPlayerModeRanks \in Seq(QuietSteps) /\ FetchPlayerStatsWithRanks \in Seq(QuietSteps)
    /\ FetchScoreWithContext \in Seq(QuietSteps) /\ BuildFullReplay \in Seq(QuietSteps)
    /\ FetchRawReplay \in Seq(QuietSteps)
<1> DEFINE Q == QuietSteps
<1>1. Found \in Q /\ AwaitOther \in Q /\ Gate("row") \in Q
  BY StepsAre
<1> HIDE DEF Q
<1>2. FetchPlayerModeRanks \in Seq(Q) /\ <<AwaitOther, AwaitOther>> \in Seq(Q)
  BY <1>1 DEF FetchPlayerModeRanks
<1>3. FetchPlayerStatsWithRanks \in Seq(Q)
  BY <1>2, StepsOfJoin DEF FetchPlayerStatsWithRanks
<1>4. FetchScoreWithContext \in Seq(Q) /\ BuildFullReplay \in Seq(Q) /\ FetchRawReplay \in Seq(Q)
  BY <1>1 DEF FetchScoreWithContext, BuildFullReplay, FetchRawReplay
<1> QED
  BY <1>2, <1>3, <1>4 DEF Q

\* A replay file is gated by the owner its score was loaded with.
LEMMA OsuGetReplayIsSound == ASSUME NEW e PROVE HandlerSound(OsuGetReplay, e)
<1> DEFINE owner == [do |-> "owner", by |-> "row"]
           gate == Gate("owner")
           file == <<Found, owner, AwaitOther, Found, gate>>
           last == <<Show>>
           h == file \o last
<1>1. /\ Found \in StepTypes /\ Found.do = "found" /\ owner \in StepTypes /\ owner.do = "owner"
      /\ AwaitOther \in StepTypes /\ AwaitOther.do = "await"
      /\ gate \in StepTypes /\ gate.do = "gate" /\ gate.by \in GateTypes
      /\ Show \in StepTypes /\ Show.do = "rows" /\ Show.by = "target"
  BY DEF Found, AwaitOther, Gate, Show, RowsOf, StepTypes, GateTypes
<1>2. h = OsuGetReplay
  BY DEF OsuGetReplay, FetchReplayFile
<1> HIDE DEF owner, gate
<1>3. /\ file \in Seq(StepTypes) /\ Len(file) = 5 /\ last \in Seq(StepTypes)
      /\ Len(last) = 1 /\ last[1] = Show
      /\ file[1] = Found /\ file[2] = owner /\ file[3] = AwaitOther /\ file[4] = Found
      /\ file[5] = gate
  BY <1>1, Tuples
<1> HIDE DEF file, last
<1>4. /\ h \in Seq(StepTypes) /\ Len(h) = Len(file) + Len(last)
      /\ \A i \in 1..Len(file) : h[i] = file[i]
      /\ \A i \in 1..Len(last) : h[Len(file) + i] = last[i]
  <2>1. file \in Seq(StepTypes) /\ last \in Seq(StepTypes)
    BY <1>3
  <2>2. file \o last \in Seq(StepTypes) /\ Len(file \o last) = Len(file) + Len(last)
    BY <2>1, StepsOfJoin
  <2>3. \A i \in 1..Len(file) : (file \o last)[i] = file[i]
    BY <2>1, StepsOfJoin
  <2>4. \A i \in 1..Len(last) : (file \o last)[Len(file) + i] = last[i]
    BY <2>1, StepsOfJoin
  <2> QED
    BY <2>2, <2>3, <2>4
<1> HIDE DEF h
<1>5. /\ Len(h) = 6 /\ h[1] = Found /\ h[2] = owner /\ h[3] = AwaitOther /\ h[4] = Found
      /\ h[5] = gate /\ h[6] = Show
  BY <1>3, <1>4
<1>6. /\ h[1].do = "found" /\ h[2].do = "owner" /\ h[3].do = "await" /\ h[4].do = "found"
      /\ h[5].do = "gate" /\ h[5].by \in GateTypes
      /\ h[6].do = "rows" /\ h[6].by = "target"
  BY <1>1, <1>5, Zenon
<1>7. /\ StepIsSound(h, e, 1) /\ StepIsSound(h, e, 2) /\ StepIsSound(h, e, 3) /\ StepIsSound(h, e, 4)
      /\ StepIsSound(h, e, 5) /\ StepIsSound(h, e, 6)
  <2>1. 5 \in 1 .. 6 - 1 /\ 2 + 1 \in 1..Len(h)
    BY <1>5
  <2> QED
    BY <1>6, <2>1 DEF StepIsSound, QuerySound
<1>8. h # <<>> /\ \A i \in 1..Len(h) : i \in {1, 2, 3, 4, 5, 6}
  BY <1>5
<1>9. \A i \in 1..Len(h) : StepIsSound(h, e, i)
  BY <1>7, <1>8
<1> QED
  BY <1>2, <1>4, <1>8, <1>9 DEF HandlerSound

\* What a service fetched behind a gate is shown by the handler that called it.
LEMMA ShownAreSound ==
    ASSUME NEW e
    PROVE  /\ HandlerSound(GetPlayerModeStats, e) /\ HandlerSound(GetPlayerStats, e)
           /\ HandlerSound(GetScore, e) /\ HandlerSound(DownloadScoreReplay, e)
           /\ HandlerSound(ApiGetPlayerInfo, e) /\ HandlerSound(ApiGetReplay, e)
           /\ HandlerSound(ApiGetFullReplay, e)
<1> DEFINE gate == Gate("row")
<1>1. /\ Found \in QuietSteps /\ AwaitOther \in QuietSteps /\ gate \in QuietSteps
      /\ gate.do = "gate"
  BY StepsAre
<1>2. ASSUME NEW s \in Seq(QuietSteps), NEW t \in Seq(QuietSteps), NEW g \in 1..Len(s),
             s[g].do = "gate"
      PROVE  HandlerSound((s \o t) \o <<Show>>, e)
  <2> DEFINE st == s \o t
  <2>1. /\ st \in Seq(QuietSteps) /\ Len(st) = Len(s) + Len(t) /\ Len(s) \in Nat /\ Len(t) \in Nat
        /\ st[g] = s[g]
    BY StepsOfJoin
  <2> HIDE DEF st
  <2>2. g \in 1..Len(st) /\ st[g].do = "gate"
    BY <1>2, <2>1
  <2>3. HandlerSound(st \o <<Show>>, e)
    BY <2>1, <2>2, ShownLastIsSound
  <2> QED
    BY <2>3 DEF st
<1> HIDE DEF gate
<1>3. /\ <<gate>> \in Seq(QuietSteps) /\ 1 \in 1..Len(<<gate>>) /\ <<gate>>[1] = gate
      /\ <<gate, Found>> \in Seq(QuietSteps) /\ 1 \in 1..Len(<<gate, Found>>)
      /\ <<gate, Found>>[1] = gate
      /\ <<gate, AwaitOther>> \in Seq(QuietSteps) /\ 1 \in 1..Len(<<gate, AwaitOther>>)
      /\ <<gate, AwaitOther>>[1] = gate
  BY <1>1
<1>4. HandlerSound((<<gate, Found>> \o FetchPlayerModeRanks) \o <<Show>>, e)
  <2>1. <<gate, Found>>[1].do = "gate"
    BY <1>1, <1>3, Zenon
  <2> QED
    BY <1>2, <1>3, <2>1, QuietSequences
<1>5. HandlerSound((<<gate, AwaitOther>> \o FetchPlayerModeRanks) \o <<Show>>, e)
  <2>1. <<gate, AwaitOther>>[1].do = "gate"
    BY <1>1, <1>3, Zenon
  <2> QED
    BY <1>2, <1>3, <2>1, QuietSequences
<1>6. HandlerSound((<<gate>> \o FetchPlayerStatsWithRanks) \o <<Show>>, e)
  <2>1. <<gate>>[1].do = "gate"
    BY <1>1, <1>3, Zenon
  <2> QED
    BY <1>2, <1>3, <2>1, QuietSequences
<1>7. HandlerSound(GetPlayerModeStats, e) /\ HandlerSound(ApiGetPlayerInfo, e)
        /\ HandlerSound(GetPlayerStats, e)
  BY <1>4, <1>5, <1>6, Zenon DEF GetPlayerModeStats, ApiGetPlayerInfo, GetPlayerStats, gate
<1>8. HandlerSound(FetchRawReplay \o <<Show>>, e)
  <2>1. 1 \in 1..Len(FetchRawReplay) /\ FetchRawReplay[1] = gate
    BY DEF FetchRawReplay, gate
  <2>2. FetchRawReplay[1].do = "gate"
    BY <1>1, <2>1, Zenon
  <2> QED
    BY <2>1, <2>2, QuietSequences, ShownLastIsSound
<1>9. HandlerSound(BuildFullReplay \o <<Show>>, e)
  <2>1. 2 \in 1..Len(BuildFullReplay) /\ BuildFullReplay[2] = gate
    BY DEF BuildFullReplay, gate
  <2>2. BuildFullReplay[2].do = "gate"
    BY <1>1, <2>1, Zenon
  <2> QED
    BY <2>1, <2>2, QuietSequences, ShownLastIsSound
<1>10. HandlerSound(FetchScoreWithContext \o <<Show>>, e)
  <2>1. 2 \in 1..Len(FetchScoreWithContext) /\ FetchScoreWithContext[2] = gate
    BY DEF FetchScoreWithContext, gate
  <2>2. FetchScoreWithContext[2].do = "gate"
    BY <1>1, <2>1, Zenon
  <2> QED
    BY <2>1, <2>2, QuietSequences, ShownLastIsSound
<1> QED
  BY <1>7, <1>8, <1>9, <1>10, Zenon
  DEF GetScore, DownloadScoreReplay, ApiGetReplay, ApiGetFullReplay

LEMMA HandlersAreSound == \A e \in Endpoints : HandlerSound(Handler(e), e)
<1>1. \A e \in DOMAIN WebHandlers : HandlerSound(WebHandlers[e], e)
  BY QueriesAreSound, UnfilteredAreSound, ByRestrictionAreSound, GatedAreSound, ShownAreSound
  DEF WebHandlers
<1>2. \A e \in DOMAIN ApiHandlers : HandlerSound(ApiHandlers[e], e)
  BY QueriesAreSound, ByRestrictionAreSound, GatedAreSound, ShownAreSound, ApiGetClanIsSound,
     ApiGetPlayerStatusIsSound DEF ApiHandlers
<1>3. \A e \in DOMAIN OpenHandlers : HandlerSound(OpenHandlers[e], e)
  BY UnfilteredAreSound, ByRestrictionAreSound DEF OpenHandlers
<1>4. \A e \in DOMAIN OsuHandlers : HandlerSound(OsuHandlers[e], e)
  BY UnfilteredAreSound, ByRestrictionAreSound, OsuGetReplayIsSound DEF OsuHandlers
<1> QED
  BY <1>1, <1>2, <1>3, <1>4, Zenon DEF Endpoints, Handler

-----------------------------------------------------------------------------
(* The invariant *)

AnswerTypes ==
    [endpoint : Endpoints, viewer : People \cup {Anonymous}, target : People, at : Nat \ {0},
     status : {"open", "success", "hidden", "missing", "refused"}, shown : SUBSET People,
     owner : Levels \cup {"live"}, seen : SUBSET People, unseen : SUBSET People,
     listed : SUBSET People]

VisibilityShape ==
    /\ userPriv \in [People -> Levels]
    /\ sessionPriv \in [People -> Levels \cup {"offline"}]
    /\ writing \in [People -> Levels \cup {"nothing"}]
    /\ requests \in [Requests -> AnswerTypes \cup {Unserved}]
    /\ requestsBegun \in 0..MaxRequests /\ changed \in 0..MaxChanges

\* What the world is now was seen by every request.
WorldSeen(q) ==
    /\ Views(userPriv, q.viewer) \cup Views(sessionPriv, q.viewer) \subseteq q.seen
    /\ Hides(userPriv, q.viewer) \cup Hides(sessionPriv, q.viewer) \subseteq q.unseen
    /\ {u \in People : userPriv[u] # "restricted"} \subseteq q.listed

Behind(q) == {j \in 1 .. q.at - 1 : Handler(q.endpoint)[j].do = "gate"}

\* Whoever is past a gate could see the target when he passed it.
AnswerSound(q) ==
    /\ q.status = "open" => q.at <= Len(Handler(q.endpoint))
    /\ q.status \in {"open", "success"} /\ Behind(q) # {} => q.target \in q.seen
    /\ q.owner # "live" => q.target \in IF CanView(q.viewer, q.target, q.owner) THEN q.seen ELSE q.unseen

\* AnswersRespectVisibility, of one request
AnswerRespects(q) ==
    /\ q.endpoint \notin Unfiltered =>
         q.shown \subseteq q.seen \cup (IF q.endpoint \in ByRestriction THEN q.listed ELSE {})
    /\ q.status = "hidden" => q.target \in q.unseen

RequestKept(q) == WorldSeen(q) /\ AnswerSound(q) /\ AnswerRespects(q)

VisibilityIInv ==
    /\ VisibilityShape
    /\ \A r \in Requests : requests[r] # Unserved => RequestKept(requests[r])

LEMMA RequestFields ==
    ASSUME NEW q \in AnswerTypes
    PROVE  /\ q.endpoint \in Endpoints /\ q.viewer \in People \cup {Anonymous} /\ q.target \in People
           /\ q.at \in Nat \ {0} /\ q.status \in {"open", "success", "hidden", "missing", "refused"}
           /\ q.shown \in SUBSET People /\ q.owner \in Levels \cup {"live"}
           /\ q.seen \in SUBSET People /\ q.unseen \in SUBSET People /\ q.listed \in SUBSET People
BY DEF AnswerTypes

LEMMA UnservedIsNoRequest == Unserved \notin AnswerTypes
<1>1. "none" \notin Endpoints
  BY DEF Endpoints, WebHandlers, ApiHandlers, OpenHandlers, OsuHandlers
<1>2. Unserved.endpoint = "none"
  BY DEF Unserved
<1> QED
  BY <1>1, <1>2, RequestFields

LEMMA VisibilityInitially == VisibilityInit => VisibilityIInv
<1> SUFFICES ASSUME VisibilityInit PROVE VisibilityIInv
  OBVIOUS
<1>1. \A r \in Requests : requests[r] = Unserved
  BY DEF VisibilityInit
<1>2. VisibilityShape
  BY VisibilityAssumption DEF VisibilityInit, VisibilityShape, Levels
<1> QED
  BY <1>1, <1>2 DEF VisibilityIInv

-----------------------------------------------------------------------------
(* The world changes *)

\* A request goes on while the world changes under it, and sees what it becomes.
LEMMA WitnessEffect ==
    ASSUME NEW q \in AnswerTypes, NEW rows, NEW sessions
    PROVE  LET w == Witnessed(q, rows, sessions) IN
           /\ w \in AnswerTypes
           /\ w.endpoint = q.endpoint /\ w.viewer = q.viewer /\ w.target = q.target /\ w.at = q.at
           /\ w.status = q.status /\ w.shown = q.shown /\ w.owner = q.owner
           /\ w.seen = q.seen \cup Views(rows, q.viewer) \cup Views(sessions, q.viewer)
           /\ w.unseen = q.unseen \cup Hides(rows, q.viewer) \cup Hides(sessions, q.viewer)
           /\ w.listed = q.listed \cup {u \in People : rows[u] # "restricted"}
<1> DEFINE w == Witnessed(q, rows, sessions)
           V == Views(rows, q.viewer) \cup Views(sessions, q.viewer)
           H == Hides(rows, q.viewer) \cup Hides(sessions, q.viewer)
           L == {u \in People : rows[u] # "restricted"}
<1>1. V \subseteq People /\ H \subseteq People /\ L \subseteq People
  BY DEF Views, Hides
<1>2. w = [q EXCEPT !.seen = q.seen \cup V, !.unseen = q.unseen \cup H, !.listed = q.listed \cup L]
  <2>1. /\ q.seen \cup V = q.seen \cup Views(rows, q.viewer) \cup Views(sessions, q.viewer)
        /\ q.unseen \cup H = q.unseen \cup Hides(rows, q.viewer) \cup Hides(sessions, q.viewer)
    BY Zenon
  <2> QED
    BY <2>1 DEF Witnessed
<1> HIDE DEF V, H, L, w
<1>3. PICK a : a = [q EXCEPT !.seen = q.seen \cup V]
  OBVIOUS
<1>4. PICK b : b = [a EXCEPT !.unseen = q.unseen \cup H]
  OBVIOUS
<1>5. w = [b EXCEPT !.listed = q.listed \cup L]
  BY <1>2, <1>3, <1>4
<1>6. /\ a \in AnswerTypes /\ a.seen = q.seen \cup V /\ a.endpoint = q.endpoint
      /\ a.viewer = q.viewer /\ a.target = q.target /\ a.at = q.at /\ a.status = q.status
      /\ a.shown = q.shown /\ a.owner = q.owner
  BY <1>1, <1>3 DEF AnswerTypes
<1>7. /\ b \in AnswerTypes /\ b.unseen = q.unseen \cup H /\ b.seen = a.seen /\ b.endpoint = a.endpoint
      /\ b.viewer = a.viewer /\ b.target = a.target /\ b.at = a.at /\ b.status = a.status
      /\ b.shown = a.shown /\ b.owner = a.owner
  <2>1. q.unseen \cup H \in SUBSET People
    BY <1>1, RequestFields
  <2> QED
    BY <1>4, <1>6, <2>1 DEF AnswerTypes
<1>8. /\ w \in AnswerTypes /\ w.listed = q.listed \cup L /\ w.unseen = b.unseen /\ w.seen = b.seen
      /\ w.endpoint = b.endpoint /\ w.viewer = b.viewer /\ w.target = b.target /\ w.at = b.at
      /\ w.status = b.status /\ w.shown = b.shown /\ w.owner = b.owner
  <2>1. q.listed \cup L \in SUBSET People
    BY <1>1, RequestFields
  <2> QED
    BY <1>5, <1>7, <2>1 DEF AnswerTypes
<1>9. /\ w.seen = q.seen \cup Views(rows, q.viewer) \cup Views(sessions, q.viewer)
      /\ w.unseen = q.unseen \cup Hides(rows, q.viewer) \cup Hides(sessions, q.viewer)
  BY <1>6, <1>7, <1>8, Zenon DEF V, H
<1>10. w.listed = q.listed \cup {u \in People : rows[u] # "restricted"}
  BY <1>8 DEF L
<1>11. /\ w \in AnswerTypes
       /\ w.endpoint = q.endpoint /\ w.viewer = q.viewer /\ w.target = q.target /\ w.at = q.at
       /\ w.status = q.status /\ w.shown = q.shown /\ w.owner = q.owner
  BY <1>6, <1>7, <1>8
<1> QED
  BY <1>9, <1>10, <1>11, Zenon DEF w

\* Seeing more, and seeing what the world is now, keeps what is known of a request.
LEMMA SeeingMore ==
    ASSUME NEW q \in AnswerTypes, AnswerSound(q) /\ AnswerRespects(q), NEW w \in AnswerTypes,
           w.endpoint = q.endpoint /\ w.viewer = q.viewer /\ w.target = q.target /\ w.at = q.at,
           w.status = q.status /\ w.shown = q.shown /\ w.owner = q.owner,
           q.seen \subseteq w.seen /\ q.unseen \subseteq w.unseen /\ q.listed \subseteq w.listed
    PROVE  AnswerSound(w) /\ AnswerRespects(w)
<1>1. Behind(w) = Behind(q)
  BY DEF Behind
<1>2. AnswerSound(w)
  BY <1>1 DEF AnswerSound
<1>3. AnswerRespects(w)
  BY DEF AnswerRespects
<1> QED
  BY <1>2, <1>3

LEMMA WorldPreserves ==
    ASSUME VisibilityIInv, Witness,
           userPriv' \in [People -> Levels], sessionPriv' \in [People -> Levels \cup {"offline"}],
           writing' \in [People -> Levels \cup {"nothing"}],
           UNCHANGED requestsBegun, changed' \in 0..MaxChanges
    PROVE  VisibilityIInv'
<1>1. \A r \in Requests : requests[r] \in AnswerTypes \cup {Unserved}
  BY DEF VisibilityIInv, VisibilityShape
<1>2. requests' = [r \in Requests |->
                     IF requests[r] = Unserved THEN Unserved
                     ELSE Witnessed(requests[r], userPriv', sessionPriv')]
  BY DEF Witness
<1>3. ASSUME NEW r \in Requests, requests[r] # Unserved
      PROVE  requests'[r] \in AnswerTypes /\ RequestKept(requests[r])'
  <2>1. /\ requests[r] \in AnswerTypes /\ RequestKept(requests[r])
        /\ requests'[r] = Witnessed(requests[r], userPriv', sessionPriv')
    BY <1>1, <1>2, <1>3 DEF VisibilityIInv
  <2> DEFINE q == requests[r]
             w == requests'[r]
  <2>2. /\ w \in AnswerTypes
        /\ w.endpoint = q.endpoint /\ w.viewer = q.viewer /\ w.target = q.target /\ w.at = q.at
        /\ w.status = q.status /\ w.shown = q.shown /\ w.owner = q.owner
        /\ w.seen = q.seen \cup Views(userPriv', q.viewer) \cup Views(sessionPriv', q.viewer)
        /\ w.unseen = q.unseen \cup Hides(userPriv', q.viewer) \cup Hides(sessionPriv', q.viewer)
        /\ w.listed = q.listed \cup {u \in People : userPriv'[u] # "restricted"}
    BY <2>1, WitnessEffect
  <2> HIDE DEF q, w
  <2>3. AnswerSound(w) /\ AnswerRespects(w)
    <3>1. q.seen \subseteq w.seen /\ q.unseen \subseteq w.unseen /\ q.listed \subseteq w.listed
      BY <2>2
    <3>2. q \in AnswerTypes /\ AnswerSound(q) /\ AnswerRespects(q)
      BY <2>1 DEF RequestKept, q
    <3> QED
      BY <2>2, <3>1, <3>2, SeeingMore
  <2>4. /\ Views(userPriv', w.viewer) \cup Views(sessionPriv', w.viewer) \subseteq w.seen
        /\ Hides(userPriv', w.viewer) \cup Hides(sessionPriv', w.viewer) \subseteq w.unseen
        /\ {u \in People : userPriv'[u] # "restricted"} \subseteq w.listed
    BY <2>2
  <2>5. WorldSeen(requests[r])'
    BY <2>4 DEF WorldSeen, w, Views, Hides
  <2> QED
    BY <2>2, <2>3, <2>5 DEF RequestKept, w, AnswerSound, AnswerRespects, Behind
<1>4. requests' \in [Requests -> AnswerTypes \cup {Unserved}]
  <2>1. \A r \in Requests : requests'[r] \in AnswerTypes \cup {Unserved}
    BY <1>2, <1>3
  <2> QED
    BY <1>2, <2>1
<1>5. \A r \in Requests : requests'[r] # Unserved => requests[r] # Unserved
  BY <1>2
<1>6. VisibilityShape'
  BY <1>4 DEF VisibilityIInv, VisibilityShape
<1>7. \A r \in Requests : requests'[r] # Unserved => RequestKept(requests[r])'
  BY <1>3, <1>5
<1> QED
  BY <1>6, <1>7 DEF VisibilityIInv

LEMMA WorldStepsPreserve ==
    ASSUME VisibilityIInv, NEW u \in People,
           \/ GoOnline(u) \/ UpdatePrivs(u) \/ GoOffline(u)
           \/ \E level \in Levels : ChangeSession(u, level) \/ ChangeOffline(u, level)
    PROVE  VisibilityIInv'
<1> DEFINE Kept == /\ Witness /\ UNCHANGED requestsBegun /\ changed' \in 0..MaxChanges
                   /\ userPriv' \in [People -> Levels]
                   /\ sessionPriv' \in [People -> Levels \cup {"offline"}]
                   /\ writing' \in [People -> Levels \cup {"nothing"}]
<1>1. Changes => changed' \in 0..MaxChanges
  BY VisibilityAssumption DEF Changes, VisibilityIInv, VisibilityShape
<1>2. CASE GoOnline(u)
  <2>1. userPriv[u] \in Levels /\ "public" \in Levels
    BY DEF VisibilityIInv, VisibilityShape, Levels
  <2> QED
    BY <1>1, <1>2, <2>1, WorldPreserves DEF GoOnline, VisibilityIInv, VisibilityShape
<1>3. CASE UpdatePrivs(u)
  BY <1>3, WorldPreserves DEF UpdatePrivs, VisibilityIInv, VisibilityShape
<1>4. CASE GoOffline(u)
  BY <1>4, WorldPreserves DEF GoOffline, VisibilityIInv, VisibilityShape
<1>5. ASSUME NEW level \in Levels, ChangeSession(u, level) PROVE VisibilityIInv'
  BY <1>1, <1>5, WorldPreserves DEF ChangeSession, VisibilityIInv, VisibilityShape
<1>6. ASSUME NEW level \in Levels, ChangeOffline(u, level) PROVE VisibilityIInv'
  BY <1>1, <1>6, WorldPreserves DEF ChangeOffline, VisibilityIInv, VisibilityShape
<1> QED
  BY <1>2, <1>3, <1>4, <1>5, <1>6

-----------------------------------------------------------------------------
(* A request goes on *)

\* What a step of one request has to show.
LEMMA RequestPreserves ==
    ASSUME VisibilityIInv, NEW r \in Requests, NEW w \in AnswerTypes,
           requests' = [requests EXCEPT ![r] = w],
           UNCHANGED <<userPriv, sessionPriv, writing, changed>>, requestsBegun' \in 0..MaxRequests,
           RequestKept(w)
    PROVE  VisibilityIInv'
<1>1. requests' \in [Requests -> AnswerTypes \cup {Unserved}]
  BY DEF VisibilityIInv, VisibilityShape
<1>2. VisibilityShape'
  BY <1>1 DEF VisibilityIInv, VisibilityShape
<1>3. requests'[r] = w /\ \A q \in Requests \ {r} : requests'[q] = requests[q]
  BY DEF VisibilityIInv, VisibilityShape
<1>4. ASSUME NEW q \in AnswerTypes, RequestKept(q)
      PROVE  /\ Views(userPriv', q.viewer) \cup Views(sessionPriv', q.viewer) \subseteq q.seen
             /\ Hides(userPriv', q.viewer) \cup Hides(sessionPriv', q.viewer) \subseteq q.unseen
             /\ {u \in People : userPriv'[u] # "restricted"} \subseteq q.listed
             /\ AnswerSound(q) /\ AnswerRespects(q)
  BY <1>4 DEF RequestKept, WorldSeen
<1>5. ASSUME NEW q \in Requests, requests'[q] # Unserved PROVE RequestKept(requests[q])'
  <2> DEFINE a == requests'[q]
  <2>1. a \in AnswerTypes /\ RequestKept(a)
    BY <1>3, <1>5 DEF VisibilityIInv, VisibilityShape
  <2> HIDE DEF a
  <2>2. /\ Views(userPriv', a.viewer) \cup Views(sessionPriv', a.viewer) \subseteq a.seen
        /\ Hides(userPriv', a.viewer) \cup Hides(sessionPriv', a.viewer) \subseteq a.unseen
        /\ {u \in People : userPriv'[u] # "restricted"} \subseteq a.listed
        /\ AnswerSound(a) /\ AnswerRespects(a)
    BY <1>4, <2>1
  <2> QED
    BY <2>2 DEF RequestKept, WorldSeen, Views, Hides, AnswerSound, AnswerRespects, Behind, a
<1> QED
  BY <1>2, <1>5 DEF VisibilityIInv

LEMMA BeginRequestPreserves ==
    ASSUME VisibilityIInv, NEW r \in Requests, NEW endpoint \in Endpoints, NEW target \in People,
           NEW viewer \in Viewers(endpoint), BeginRequest(r, endpoint, viewer, target)
    PROVE  VisibilityIInv'
<1> DEFINE q == [endpoint |-> endpoint, viewer |-> viewer, target |-> target,
                 at |-> 1, status |-> "open", shown |-> {}, owner |-> "live",
                 seen |-> {}, unseen |-> {}, listed |-> {}]
           w == Witnessed(q, userPriv, sessionPriv)
<1>1. viewer \in People \cup {Anonymous}
  BY DEF Viewers
<1>2. /\ q \in AnswerTypes
      /\ q.endpoint = endpoint /\ q.viewer = viewer /\ q.target = target /\ q.at = 1
      /\ q.status = "open" /\ q.shown = {} /\ q.owner = "live"
      /\ q.seen = {} /\ q.unseen = {} /\ q.listed = {}
  BY <1>1 DEF AnswerTypes
<1>3. requests' = [requests EXCEPT ![r] = w] /\ requestsBegun' \in 0..MaxRequests
        /\ UNCHANGED <<userPriv, sessionPriv, writing, changed>>
  BY VisibilityAssumption DEF BeginRequest, VisibilityIInv, VisibilityShape
<1> HIDE DEF q
<1>4. /\ w \in AnswerTypes
      /\ w.endpoint = endpoint /\ w.viewer = viewer /\ w.target = target /\ w.at = 1
      /\ w.status = "open" /\ w.shown = {} /\ w.owner = "live"
      /\ w.seen = Views(userPriv, viewer) \cup Views(sessionPriv, viewer)
      /\ w.unseen = Hides(userPriv, viewer) \cup Hides(sessionPriv, viewer)
      /\ w.listed = {u \in People : userPriv[u] # "restricted"}
  <2> HIDE DEF w
  <2>1. /\ w \in AnswerTypes
        /\ w.endpoint = q.endpoint /\ w.viewer = q.viewer /\ w.target = q.target /\ w.at = q.at
        /\ w.status = q.status /\ w.shown = q.shown /\ w.owner = q.owner
        /\ w.seen = q.seen \cup Views(userPriv, q.viewer) \cup Views(sessionPriv, q.viewer)
        /\ w.unseen = q.unseen \cup Hides(userPriv, q.viewer) \cup Hides(sessionPriv, q.viewer)
        /\ w.listed = q.listed \cup {u \in People : userPriv[u] # "restricted"}
    BY <1>2, WitnessEffect DEF w
  <2> QED
    BY <1>2, <2>1
<1> HIDE DEF w
<1>5. WorldSeen(w)
  BY <1>4 DEF WorldSeen
<1>6. Len(Handler(endpoint)) \in Nat /\ Len(Handler(endpoint)) # 0
  <2>1. Handler(endpoint) \in Seq(StepTypes) /\ Handler(endpoint) # <<>>
    BY HandlersAreSound DEF HandlerSound
  <2> QED
    BY <2>1, EmptySeq, LenProperties
<1>7. AnswerSound(w)
  <2>1. Behind(w) = {}
    BY <1>4 DEF Behind
  <2> QED
    BY <1>4, <1>6, <2>1 DEF AnswerSound
<1>8. AnswerRespects(w)
  BY <1>4 DEF AnswerRespects
<1> QED
  BY <1>3, <1>4, <1>5, <1>7, <1>8, RequestPreserves DEF RequestKept

\* The step an open request is at, and that it is sound.
LEMMA CurrentStep ==
    ASSUME VisibilityIInv, NEW r \in Requests, requests[r] # Unserved, requests[r].status = "open"
    PROVE  /\ requests[r] \in AnswerTypes /\ RequestKept(requests[r])
           /\ requests[r].at \in 1..Len(Handler(requests[r].endpoint))
           /\ Len(Handler(requests[r].endpoint)) \in Nat
           /\ StepIsSound(Handler(requests[r].endpoint), requests[r].endpoint, requests[r].at)
<1> DEFINE q == requests[r]
           h == Handler(q.endpoint)
<1>1. q \in AnswerTypes /\ RequestKept(q)
  BY DEF VisibilityIInv, VisibilityShape
<1>2. HandlerSound(h, q.endpoint)
  BY <1>1, RequestFields, HandlersAreSound
<1>3. Len(h) \in Nat
  BY <1>2, LenProperties DEF HandlerSound
<1>4. q.at <= Len(h) /\ q.at \in Nat \ {0}
  <2>1. q.status = "open"
    OBVIOUS
  <2> HIDE DEF q
  <2> QED
    BY <1>1, <2>1, RequestFields DEF RequestKept, AnswerSound
<1> HIDE DEF q, h
<1>5. q.at \in 1..Len(h)
  BY <1>3, <1>4
<1>6. StepIsSound(h, q.endpoint, q.at)
  BY <1>2, <1>5 DEF HandlerSound
<1> QED
  BY <1>1, <1>3, <1>5, <1>6 DEF q, h

LEMMA MovesEffect ==
    ASSUME VisibilityIInv, NEW r \in Requests, requests[r] # Unserved, requests[r].status = "open",
           NEW steps \in {1, 2}, NEW more \in SUBSET People, Moves(r, steps, more)
    PROVE  \E w \in AnswerTypes :
             /\ requests' = [requests EXCEPT ![r] = w]
             /\ w.endpoint = requests[r].endpoint /\ w.viewer = requests[r].viewer
             /\ w.target = requests[r].target /\ w.owner = requests[r].owner
             /\ w.seen = requests[r].seen /\ w.unseen = requests[r].unseen
             /\ w.listed = requests[r].listed
             /\ w.at = requests[r].at + steps /\ w.shown = requests[r].shown \cup more
             /\ w.status \in {"open", "success"}
             /\ w.status = "open" => w.at <= Len(Handler(w.endpoint))
<1> DEFINE q == requests[r]
           n == q.at + steps
           s == q.shown \cup more
           status == IF n > Len(Handler(q.endpoint)) THEN "success" ELSE "open"
           R == AnswerTypes \cup {Unserved}
<1>1. requests \in [Requests -> R]
  BY DEF VisibilityIInv, VisibilityShape
<1>2. requests' = [requests EXCEPT ![r].at = n, ![r].shown = s, ![r].status = status]
  BY DEF Moves
<1>3. /\ q \in AnswerTypes /\ n \in Nat \ {0} /\ s \in SUBSET People
      /\ status \in {"open", "success"} /\ Len(Handler(q.endpoint)) \in Nat
  BY CurrentStep, RequestFields
<1>4. status = "open" => n <= Len(Handler(q.endpoint))
  BY <1>3
<1> HIDE DEF n, s, status
<1>5. PICK a : a = [q EXCEPT !.at = n]
  OBVIOUS
<1>6. PICK b : b = [a EXCEPT !.shown = s]
  OBVIOUS
<1>7. PICK w : w = [b EXCEPT !.status = status]
  OBVIOUS
<1>8. requests' = [requests EXCEPT ![r] = w]
  <2>1. PICK f : f = [requests EXCEPT ![r] = a]
    OBVIOUS
  <2>2. f = [requests EXCEPT ![r].at = n] /\ f[r] = a /\ DOMAIN f = Requests
    BY <1>1, <1>5, <2>1
  <2>3. PICK g : g = [f EXCEPT ![r] = b]
    OBVIOUS
  <2>4. g = [f EXCEPT ![r].shown = s] /\ g[r] = b /\ DOMAIN g = Requests
    BY <1>6, <2>2, <2>3
  <2>5. requests' = [g EXCEPT ![r].status = status]
    BY <1>2, <2>2, <2>4
  <2>6. requests' = [g EXCEPT ![r] = w]
    BY <1>7, <2>4, <2>5
  <2> QED
    BY <1>1, <2>1, <2>3, <2>6
<1> HIDE DEF q
<1>9. /\ a \in AnswerTypes /\ a.at = n /\ a.endpoint = q.endpoint /\ a.viewer = q.viewer
      /\ a.target = q.target /\ a.status = q.status /\ a.shown = q.shown /\ a.owner = q.owner
      /\ a.seen = q.seen /\ a.unseen = q.unseen /\ a.listed = q.listed
  BY <1>3, <1>5 DEF AnswerTypes
<1>10. /\ b \in AnswerTypes /\ b.shown = s /\ b.endpoint = a.endpoint /\ b.viewer = a.viewer
       /\ b.target = a.target /\ b.status = a.status /\ b.at = a.at /\ b.owner = a.owner
       /\ b.seen = a.seen /\ b.unseen = a.unseen /\ b.listed = a.listed
  BY <1>3, <1>6, <1>9 DEF AnswerTypes
<1>11. /\ w \in AnswerTypes /\ w.status = status /\ w.endpoint = b.endpoint /\ w.viewer = b.viewer
       /\ w.target = b.target /\ w.shown = b.shown /\ w.at = b.at /\ w.owner = b.owner
       /\ w.seen = b.seen /\ w.unseen = b.unseen /\ w.listed = b.listed
  BY <1>3, <1>7, <1>10 DEF AnswerTypes
<1>12. /\ w.endpoint = q.endpoint /\ w.viewer = q.viewer /\ w.target = q.target /\ w.owner = q.owner
       /\ w.seen = q.seen /\ w.unseen = q.unseen /\ w.listed = q.listed
       /\ w.at = n /\ w.shown = s /\ w.status = status
  BY <1>9, <1>10, <1>11
<1>13. /\ w.at = q.at + steps /\ w.shown = q.shown \cup more /\ w.status \in {"open", "success"}
       /\ w.status = "open" => w.at <= Len(Handler(w.endpoint))
  BY <1>3, <1>4, <1>12 DEF n, s
<1> QED
  BY <1>8, <1>11, <1>12, <1>13 DEF q

\* The step may show whom the policy lets through, and passes a gate only with the
\* target seen.
LEMMA MovesPreserves ==
    ASSUME VisibilityIInv, NEW r \in Requests, requests[r] # Unserved, requests[r].status = "open",
           NEW steps \in {1, 2}, NEW more \in SUBSET People, Moves(r, steps, more), World,
           requests[r].endpoint \notin Unfiltered =>
             more \subseteq requests[r].seen
               \cup (IF requests[r].endpoint \in ByRestriction THEN requests[r].listed ELSE {}),
           \/ requests[r].target \in requests[r].seen
           \/ steps = 1 /\ Handler(requests[r].endpoint)[requests[r].at].do # "gate"
    PROVE  VisibilityIInv'
<1>1. PICK w \in AnswerTypes :
        /\ requests' = [requests EXCEPT ![r] = w]
        /\ w.endpoint = requests[r].endpoint /\ w.viewer = requests[r].viewer
        /\ w.target = requests[r].target /\ w.owner = requests[r].owner
        /\ w.seen = requests[r].seen /\ w.unseen = requests[r].unseen
        /\ w.listed = requests[r].listed
        /\ w.at = requests[r].at + steps /\ w.shown = requests[r].shown \cup more
        /\ w.status \in {"open", "success"}
        /\ w.status = "open" => w.at <= Len(Handler(w.endpoint))
  BY MovesEffect
<1> DEFINE q == requests[r]
<1>2. q \in AnswerTypes /\ RequestKept(q) /\ q.at \in Nat \ {0}
  BY CurrentStep, RequestFields
<1>3. q.status = "open"
  OBVIOUS
<1>4. /\ q.endpoint \notin Unfiltered =>
           more \subseteq q.seen \cup (IF q.endpoint \in ByRestriction THEN q.listed ELSE {})
      /\ q.target \in q.seen \/ (steps = 1 /\ Handler(q.endpoint)[q.at].do # "gate")
      /\ w.endpoint = q.endpoint /\ w.viewer = q.viewer /\ w.target = q.target /\ w.owner = q.owner
      /\ w.seen = q.seen /\ w.unseen = q.unseen /\ w.listed = q.listed
      /\ w.at = q.at + steps /\ w.shown = q.shown \cup more
  BY <1>1
<1> HIDE DEF q
<1>5. WorldSeen(w)
  BY <1>2, <1>4 DEF RequestKept, WorldSeen
<1>6. AnswerRespects(w)
  BY <1>1, <1>2, <1>4 DEF RequestKept, AnswerRespects
<1>7. Behind(w) # {} => w.target \in w.seen
  <2>1. CASE q.target \in q.seen
    BY <1>4, <2>1
  <2>2. CASE steps = 1 /\ Handler(q.endpoint)[q.at].do # "gate"
    <3>1. w.at - 1 = q.at /\ w.at = q.at + 1
      BY <1>2, <1>4, <2>2
    <3>2. \A j \in 1 .. w.at - 1 : j \in 1 .. q.at - 1 \/ j = q.at
      BY <1>2, <3>1
    <3>3. Behind(w) \subseteq Behind(q)
      BY <1>4, <2>2, <3>2 DEF Behind
    <3>4. Behind(q) # {} => q.target \in q.seen
      BY <1>2, <1>3 DEF RequestKept, AnswerSound
    <3> QED
      BY <1>4, <3>3, <3>4
  <2> QED
    BY <1>4, <2>1, <2>2
<1>8. AnswerSound(w)
  <2>1. w.owner # "live" => w.target \in IF CanView(w.viewer, w.target, w.owner) THEN w.seen ELSE w.unseen
    BY <1>2, <1>4 DEF RequestKept, AnswerSound
  <2> QED
    BY <1>1, <1>7, <2>1 DEF AnswerSound
<1>9. requestsBegun' \in 0..MaxRequests /\ UNCHANGED <<userPriv, sessionPriv, writing, changed>>
  BY DEF World, VisibilityIInv, VisibilityShape
<1> QED
  BY <1>1, <1>5, <1>6, <1>8, <1>9, RequestPreserves DEF RequestKept

LEMMA FailsPreserves ==
    ASSUME VisibilityIInv, NEW r \in Requests, requests[r] # Unserved, requests[r].status = "open",
           NEW status \in {"hidden", "missing", "refused"}, Fails(r, status), World,
           status = "hidden" => requests[r].target \in requests[r].unseen
    PROVE  VisibilityIInv'
<1> DEFINE q == requests[r]
           R == AnswerTypes \cup {Unserved}
<1>1. requests \in [Requests -> R]
  BY DEF VisibilityIInv, VisibilityShape
<1>2. requests' = [requests EXCEPT ![r].status = status, ![r].shown = {}]
  BY DEF Fails
<1>3. q \in AnswerTypes /\ RequestKept(q)
  BY CurrentStep
<1>4. PICK a : a = [q EXCEPT !.status = status]
  OBVIOUS
<1>5. PICK w : w = [a EXCEPT !.shown = {}]
  OBVIOUS
<1>6. requests' = [requests EXCEPT ![r] = w]
  <2>1. PICK f : f = [requests EXCEPT ![r] = a]
    OBVIOUS
  <2>2. f = [requests EXCEPT ![r].status = status] /\ f[r] = a /\ DOMAIN f = Requests
    BY <1>1, <1>4, <2>1
  <2>3. requests' = [f EXCEPT ![r].shown = {}]
    BY <1>2, <2>2
  <2>4. requests' = [f EXCEPT ![r] = w]
    BY <1>5, <2>2, <2>3
  <2> QED
    BY <1>1, <2>1, <2>4
<1>7. status = "hidden" => q.target \in q.unseen
  OBVIOUS
<1> HIDE DEF q
<1>8. /\ a \in AnswerTypes /\ a.status = status /\ a.endpoint = q.endpoint /\ a.viewer = q.viewer
      /\ a.target = q.target /\ a.at = q.at /\ a.shown = q.shown /\ a.owner = q.owner
      /\ a.seen = q.seen /\ a.unseen = q.unseen /\ a.listed = q.listed
  BY <1>3, <1>4 DEF AnswerTypes
<1>9. /\ w \in AnswerTypes /\ w.shown = {} /\ w.endpoint = a.endpoint /\ w.viewer = a.viewer
      /\ w.target = a.target /\ w.at = a.at /\ w.status = a.status /\ w.owner = a.owner
      /\ w.seen = a.seen /\ w.unseen = a.unseen /\ w.listed = a.listed
  BY <1>5, <1>8 DEF AnswerTypes
<1>10. WorldSeen(w)
  BY <1>3, <1>8, <1>9 DEF RequestKept, WorldSeen
<1>11. AnswerSound(w)
  <2>1. w.status # "open" /\ w.status # "success"
    BY <1>8, <1>9
  <2>2. w.owner # "live" => w.target \in IF CanView(w.viewer, w.target, w.owner) THEN w.seen ELSE w.unseen
    BY <1>3, <1>8, <1>9 DEF RequestKept, AnswerSound
  <2> QED
    BY <2>1, <2>2 DEF AnswerSound
<1>12. AnswerRespects(w)
  BY <1>7, <1>8, <1>9 DEF AnswerRespects
<1>13. requestsBegun' \in 0..MaxRequests /\ UNCHANGED <<userPriv, sessionPriv, writing, changed>>
  BY DEF World, VisibilityIInv, VisibilityShape
<1> QED
  BY <1>6, <1>9, <1>10, <1>11, <1>12, <1>13, RequestPreserves DEF RequestKept

\* What a gate finds of the target was seen by the request, as visible or as hidden.
LEMMA LevelWitnessed ==
    ASSUME VisibilityIInv, NEW r \in Requests, requests[r] # Unserved, NEW by \in GateTypes,
           LevelBy(by, r) # "offline"
    PROVE  requests[r].target \in
             IF CanView(requests[r].viewer, requests[r].target, LevelBy(by, r))
             THEN requests[r].seen ELSE requests[r].unseen
<1> DEFINE q == requests[r]
           u == q.target
           level == LevelBy(by, r)
<1>1. q \in AnswerTypes /\ RequestKept(q) /\ u \in People /\ q.owner \in Levels \cup {"live"}
  BY RequestFields DEF VisibilityIInv, VisibilityShape
<1>2. \/ level = userPriv[u] \/ level = sessionPriv[u]
      \/ level = q.owner /\ q.owner # "live"
  BY DEF LevelBy, GateTypes
<1>3. userPriv[u] # "offline"
  BY <1>1 DEF VisibilityIInv, VisibilityShape, Levels
<1>4. level # "offline"
  OBVIOUS
<1> HIDE DEF q, level
<1> HIDE DEF u
<1>5. CASE level = userPriv[u]
  <2>1. IF CanView(q.viewer, u, level) THEN u \in Views(userPriv, q.viewer)
                                       ELSE u \in Hides(userPriv, q.viewer)
    BY <1>1, <1>3, <1>5 DEF Views, Hides
  <2> QED
    BY <1>1, <2>1 DEF RequestKept, WorldSeen, q, u, level
<1>6. CASE level = sessionPriv[u]
  <2>1. IF CanView(q.viewer, u, level) THEN u \in Views(sessionPriv, q.viewer)
                                       ELSE u \in Hides(sessionPriv, q.viewer)
    BY <1>1, <1>4, <1>6 DEF Views, Hides
  <2> QED
    BY <1>1, <2>1 DEF RequestKept, WorldSeen, q, u, level
<1>7. CASE level = q.owner /\ q.owner # "live"
  BY <1>1, <1>7 DEF RequestKept, AnswerSound, q, u, level
<1> QED
  BY <1>2, <1>5, <1>6, <1>7

LEMMA PassesIsSeen ==
    ASSUME VisibilityIInv, NEW r \in Requests, requests[r] # Unserved, Step(r).by \in GateTypes
    PROVE  /\ Passes(r) => requests[r].target \in requests[r].seen
           /\ ~Passes(r) /\ LevelBy(Step(r).by, r) # "offline" =>
                requests[r].target \in requests[r].unseen
BY LevelWitnessed DEF Passes

\* The step an action finds: what an open request at a step of that kind knows.
LEMMA StepIs ==
    ASSUME VisibilityIInv, NEW r \in Requests, NEW do, Is(r, do)
    PROVE  /\ requests[r] # Unserved /\ requests[r].status = "open"
           /\ Handler(requests[r].endpoint)[requests[r].at].do = do
           /\ do = "rows" => QuerySound(Handler(requests[r].endpoint), requests[r].endpoint,
                                        requests[r].at)
           /\ do = "owner" => requests[r].at + 1 <= Len(Handler(requests[r].endpoint))
           /\ do \in {"gate", "try session", "show if visible"} => Step(r).by \in GateTypes
<1> DEFINE q == requests[r]
           h == Handler(q.endpoint)
<1>1. q # Unserved /\ q.status = "open" /\ h[q.at].do = do
  BY DEF Is, Step
<1>2. StepIsSound(h, q.endpoint, q.at) /\ Len(h) \in Nat
  BY <1>1, CurrentStep
<1> HIDE DEF q, h
<1>3. /\ do = "rows" => QuerySound(h, q.endpoint, q.at)
      /\ do = "owner" => q.at + 1 <= Len(h)
      /\ do \in {"gate", "try session", "show if visible"} => h[q.at].by \in GateTypes
  <2>1. /\ do = "rows" => QuerySound(h, q.endpoint, q.at)
        /\ do = "owner" => q.at + 1 \in 1..Len(h)
        /\ do \in {"gate", "try session", "show if visible"} => h[q.at].by \in GateTypes
    BY <1>1, <1>2, Zenon DEF StepIsSound
  <2>2. q.at + 1 \in 1..Len(h) => q.at + 1 <= Len(h)
    BY <1>2
  <2> QED
    BY <2>1, <2>2
<1>4. Step(r) = h[q.at]
  BY DEF Step, q, h
<1>5. do \in {"gate", "try session", "show if visible"} => Step(r).by \in GateTypes
  BY <1>3, <1>4, Zenon
<1> QED
  BY <1>1, <1>3, <1>5, Zenon DEF q, h

LEMMA PassGatePreserves ==
    ASSUME VisibilityIInv, NEW r \in Requests, PassGate(r)
    PROVE  VisibilityIInv'
<1>1. /\ requests[r] # Unserved /\ requests[r].status = "open" /\ Step(r).by \in GateTypes
      /\ World
  BY StepIs DEF PassGate
<1>2. CASE Passes(r)
  <2>1. Moves(r, 1, {}) /\ requests[r].target \in requests[r].seen
    BY <1>1, <1>2, PassesIsSeen DEF PassGate
  <2> QED
    BY <1>1, <2>1, MovesPreserves
<1>3. CASE ~Passes(r)
  <2>1. PICK status \in {"missing", "hidden"} :
          /\ Fails(r, status)
          /\ status = "hidden" => LevelBy(Step(r).by, r) # "offline"
    BY <1>3 DEF PassGate
  <2>2. status = "hidden" => requests[r].target \in requests[r].unseen
    BY <1>1, <1>3, <2>1, PassesIsSeen
  <2> QED
    BY <1>1, <2>1, <2>2, FailsPreserves
<1> QED
  BY <1>2, <1>3

LEMMA TrySessionPreserves ==
    ASSUME VisibilityIInv, NEW r \in Requests, TrySession(r)
    PROVE  VisibilityIInv'
<1>1. /\ requests[r] # Unserved /\ requests[r].status = "open" /\ Step(r).by \in GateTypes
      /\ Handler(requests[r].endpoint)[requests[r].at].do # "gate" /\ World
  <2>1. PICK do \in {"gate", "try session", "show if visible"} : Is(r, do) /\ do # "gate"
    BY DEF TrySession
  <2> QED
    BY <2>1, StepIs DEF TrySession
<1>2. CASE sessionPriv[requests[r].target] = "offline"
  <2>1. Moves(r, 1, {})
    BY <1>2 DEF TrySession
  <2> QED
    BY <1>1, <2>1, MovesPreserves
<1>3. CASE sessionPriv[requests[r].target] # "offline" /\ Passes(r)
  <2>1. Moves(r, 2, {}) /\ requests[r].target \in requests[r].seen
    BY <1>1, <1>3, PassesIsSeen DEF TrySession
  <2> QED
    BY <1>1, <2>1, MovesPreserves
<1>4. CASE sessionPriv[requests[r].target] # "offline" /\ ~Passes(r)
  <2>1. Fails(r, "hidden")
    BY <1>4 DEF TrySession
  <2>2. LevelBy(Step(r).by, r) # "offline"
    <3> DEFINE u == requests[r].target
    <3>1. requests[r] \in AnswerTypes
      BY <1>1 DEF VisibilityIInv, VisibilityShape
    <3>2. u \in People /\ requests[r].owner \in Levels \cup {"live"}
      BY <3>1, RequestFields
    <3> HIDE DEF u
    <3>3. userPriv[u] # "offline" /\ requests[r].owner # "offline"
      BY <3>2 DEF VisibilityIInv, VisibilityShape, Levels
    <3>4. sessionPriv[u] # "offline"
      BY <1>4 DEF u
    <3> QED
      BY <1>1, <3>3, <3>4 DEF LevelBy, GateTypes, u
  <2>3. requests[r].target \in requests[r].unseen
    BY <1>1, <1>4, <2>2, PassesIsSeen
  <2> QED
    BY <1>1, <2>1, <2>3, FailsPreserves
<1> QED
  BY <1>2, <1>3, <1>4

LEMMA QuietMovesPreserve ==
    ASSUME VisibilityIInv, NEW r \in Requests, LookUpTarget(r) \/ PassAwait(r) \/ RefuseOthers(r)
    PROVE  VisibilityIInv'
<1>1. PICK do \in {"found", "await", "own"} : Is(r, do) /\ World
  BY DEF LookUpTarget, PassAwait, RefuseOthers
<1>2. /\ requests[r] # Unserved /\ requests[r].status = "open"
      /\ Handler(requests[r].endpoint)[requests[r].at].do # "gate"
  BY <1>1, StepIs
<1>3. CASE Moves(r, 1, {})
  BY <1>1, <1>2, <1>3, MovesPreserves
<1>4. CASE \E status \in {"missing", "refused"} : Fails(r, status)
  BY <1>1, <1>2, <1>4, FailsPreserves
<1> QED
  BY <1>3, <1>4 DEF LookUpTarget, PassAwait, RefuseOthers

LEMMA ShowIfVisiblePreserves ==
    ASSUME VisibilityIInv, NEW r \in Requests, ShowIfVisible(r)
    PROVE  VisibilityIInv'
<1> DEFINE more == IF Passes(r) THEN {requests[r].target} ELSE {}
<1>1. /\ requests[r] # Unserved /\ requests[r].status = "open" /\ Step(r).by \in GateTypes
      /\ Handler(requests[r].endpoint)[requests[r].at].do # "gate" /\ World
      /\ Moves(r, 1, more)
  <2>1. PICK do \in {"gate", "try session", "show if visible"} : Is(r, do) /\ do # "gate"
    BY DEF ShowIfVisible
  <2> QED
    BY <2>1, StepIs DEF ShowIfVisible
<1>2. requests[r].target \in People
  BY <1>1, RequestFields DEF VisibilityIInv, VisibilityShape
<1>3. more \in SUBSET People /\ more \subseteq requests[r].seen
  BY <1>1, <1>2, PassesIsSeen
<1> HIDE DEF more
<1> QED
  BY <1>1, <1>3, MovesPreserves

\* A query shows whom its policy lets through, or the target behind a gate.
LEMMA RowsAreVisible ==
    ASSUME VisibilityIInv, NEW r \in Requests, requests[r] # Unserved, requests[r].status = "open",
           QuerySound(Handler(requests[r].endpoint), requests[r].endpoint, requests[r].at)
    PROVE  LET rows == Rows(Step(r).by, requests[r].viewer, requests[r].target) IN
           /\ rows \in SUBSET People
           /\ requests[r].endpoint \notin Unfiltered =>
                rows \subseteq requests[r].seen
                  \cup (IF requests[r].endpoint \in ByRestriction THEN requests[r].listed ELSE {})
<1> DEFINE q == requests[r]
           by == Step(r).by
           rows == Rows(by, q.viewer, q.target)
<1>1. q \in AnswerTypes /\ RequestKept(q)
  BY DEF VisibilityIInv, VisibilityShape
<1>2. q.target \in People /\ q.seen \in SUBSET People /\ q.viewer \in People \cup {Anonymous}
  BY <1>1, RequestFields
<1>3. \/ by \in {"users", "scores", "ranking", "members"}
      \/ by \in {"target", "firsts"} /\ Behind(q) # {}
      \/ by \in {"related", "friends", "online", "target"} /\ q.endpoint \in Unfiltered
      \/ by \in {"map", "leaderboard", "best"} /\ q.endpoint \in ByRestriction
  BY DEF QuerySound, Step, Behind
<1>4. Behind(q) # {} => q.target \in q.seen
  <2>1. q.status = "open"
    OBVIOUS
  <2> QED
    BY <1>1, <2>1 DEF RequestKept, AnswerSound
<1>5. \A u \in People : userPriv[u] # "offline"
  BY DEF VisibilityIInv, VisibilityShape, Levels
<1> HIDE DEF q, by
<1>6. Views(userPriv, q.viewer) \subseteq q.seen /\ {u \in People : userPriv[u] # "restricted"} \subseteq q.listed
  BY <1>1 DEF RequestKept, WorldSeen
<1>7. CASE by \in {"users", "scores", "ranking", "members"}
  <2>1. rows \in {UserRows(q.viewer), ScoreRows(q.viewer), LeaderboardRows, MemberRows}
    BY <1>7 DEF Rows
  <2>2. /\ UserRows(q.viewer) \subseteq Views(userPriv, q.viewer)
        /\ ScoreRows(q.viewer) \subseteq Views(userPriv, q.viewer)
        /\ LeaderboardRows \subseteq Views(userPriv, q.viewer)
        /\ MemberRows \subseteq Views(userPriv, q.viewer)
    BY <1>5 DEF UserRows, ScoreRows, LeaderboardRows, MemberRows, PublicOr, Views, CanView
  <2>3. Views(userPriv, q.viewer) \subseteq People
    BY DEF Views
  <2> QED
    BY <1>6, <2>1, <2>2, <2>3 DEF q, by
<1>8. CASE by \in {"target", "firsts"} /\ Behind(q) # {}
  <2>1. rows \subseteq {q.target}
    BY <1>8 DEF Rows, FirstPlaceRows
  <2> QED
    BY <1>2, <1>4, <1>8, <2>1 DEF q, by
<1>9. CASE by \in {"related", "friends", "online", "target"} /\ q.endpoint \in Unfiltered
  <2>1. rows \subseteq People
    BY <1>2, <1>9 DEF Rows, RelatedRows, OnlinePlayers
  <2> QED
    BY <1>9, <2>1 DEF q, by
<1>10. CASE by \in {"map", "leaderboard", "best"} /\ q.endpoint \in ByRestriction
  <2>1. rows \subseteq MapScoreRows \/ rows = BeatmapLeaderboardRows(q.viewer)
    BY <1>10 DEF Rows, BestRows
  <2>2. /\ MapScoreRows \subseteq {u \in People : userPriv[u] # "restricted"}
        /\ BeatmapLeaderboardRows(q.viewer) \subseteq
             Views(userPriv, q.viewer) \cup {u \in People : userPriv[u] # "restricted"}
    BY <1>5 DEF MapScoreRows, BeatmapLeaderboardRows, Views, CanView
  <2>3. Views(userPriv, q.viewer) \subseteq People
    BY DEF Views
  <2> QED
    BY <1>6, <1>10, <2>1, <2>2, <2>3 DEF q, by
<1> QED
  BY <1>3, <1>7, <1>8, <1>9, <1>10 DEF q, by

LEMMA QueryPreserves ==
    ASSUME VisibilityIInv, NEW r \in Requests, Query(r)
    PROVE  VisibilityIInv'
<1> DEFINE rows == Rows(Step(r).by, requests[r].viewer, requests[r].target)
<1>1. /\ requests[r] # Unserved /\ requests[r].status = "open"
      /\ Handler(requests[r].endpoint)[requests[r].at].do # "gate"
      /\ QuerySound(Handler(requests[r].endpoint), requests[r].endpoint, requests[r].at)
      /\ Moves(r, 1, rows) /\ World
  <2>1. Is(r, "rows")
    BY DEF Query
  <2>2. "rows" # "gate"
    OBVIOUS
  <2> QED
    BY <2>1, <2>2, StepIs, Zenon DEF Query
<1>2. /\ rows \in SUBSET People
      /\ requests[r].endpoint \notin Unfiltered =>
           rows \subseteq requests[r].seen
             \cup (IF requests[r].endpoint \in ByRestriction THEN requests[r].listed ELSE {})
  BY <1>1, RowsAreVisible
<1> HIDE DEF rows
<1> QED
  BY <1>1, <1>2, MovesPreserves

\* The owner a replay is loaded with is one that the request saw when it loaded it.
LEMMA TakeOwnerPreserves ==
    ASSUME VisibilityIInv, NEW r \in Requests, TakeOwner(r)
    PROVE  VisibilityIInv'
<1> DEFINE q == requests[r]
           n == q.at + 1
           u == q.target
           owner == IF sessionPriv[u] = "offline" THEN userPriv[u] ELSE "live"
           R == AnswerTypes \cup {Unserved}
<1>1. /\ q # Unserved /\ q.status = "open" /\ Handler(q.endpoint)[q.at].do # "gate"
      /\ q.at + 1 <= Len(Handler(q.endpoint))
  <2>1. PICK do \in {"owner"} : Is(r, do) /\ do # "gate"
    BY DEF TakeOwner
  <2> QED
    BY <2>1, StepIs
<1>2. requests \in [Requests -> R]
  BY DEF VisibilityIInv, VisibilityShape
<1>3. requests' = [requests EXCEPT ![r].at = n, ![r].owner = owner] /\ World
  BY DEF TakeOwner
<1>4. q \in AnswerTypes /\ RequestKept(q)
  BY <1>1, CurrentStep
<1>5. n \in Nat \ {0} /\ owner \in Levels \cup {"live"} /\ u \in People
  BY <1>4, RequestFields DEF VisibilityIInv, VisibilityShape
<1>6. owner # "live" => u \in IF CanView(q.viewer, u, owner) THEN q.seen ELSE q.unseen
  <2>1. ASSUME owner = userPriv[u]
        PROVE  u \in IF CanView(q.viewer, u, owner) THEN q.seen ELSE q.unseen
    <3> HIDE DEF q, u, owner
    <3>1. userPriv[u] # "offline"
      BY <1>5 DEF VisibilityIInv, VisibilityShape, Levels
    <3>2. IF CanView(q.viewer, u, owner) THEN u \in Views(userPriv, q.viewer)
                                         ELSE u \in Hides(userPriv, q.viewer)
      BY <1>5, <2>1, <3>1 DEF Views, Hides
    <3> QED
      BY <1>4, <3>2 DEF RequestKept, WorldSeen
  <2>2. owner # "live" => owner = userPriv[u]
    OBVIOUS
  <2> HIDE DEF owner
  <2> QED
    BY <2>1, <2>2
<1> HIDE DEF n, u, owner
<1>7. PICK a : a = [q EXCEPT !.at = n]
  OBVIOUS
<1>8. PICK w : w = [a EXCEPT !.owner = owner]
  OBVIOUS
<1>9. requests' = [requests EXCEPT ![r] = w]
  <2>1. PICK f : f = [requests EXCEPT ![r] = a]
    OBVIOUS
  <2>2. f = [requests EXCEPT ![r].at = n] /\ f[r] = a /\ DOMAIN f = Requests
    BY <1>2, <1>7, <2>1
  <2>3. requests' = [f EXCEPT ![r].owner = owner]
    BY <1>3, <2>2
  <2>4. requests' = [f EXCEPT ![r] = w]
    BY <1>8, <2>2, <2>3
  <2> QED
    BY <1>2, <2>1, <2>4
<1>10. u = q.target /\ n = q.at + 1
  BY DEF u, n
<1> HIDE DEF q
<1>11. /\ a \in AnswerTypes /\ a.at = n /\ a.endpoint = q.endpoint /\ a.viewer = q.viewer
       /\ a.target = q.target /\ a.status = q.status /\ a.shown = q.shown
       /\ a.seen = q.seen /\ a.unseen = q.unseen /\ a.listed = q.listed
  BY <1>4, <1>5, <1>7 DEF AnswerTypes
<1>12. /\ w \in AnswerTypes /\ w.owner = owner /\ w.endpoint = a.endpoint /\ w.viewer = a.viewer
       /\ w.target = a.target /\ w.at = a.at /\ w.status = a.status /\ w.shown = a.shown
       /\ w.seen = a.seen /\ w.unseen = a.unseen /\ w.listed = a.listed
  BY <1>5, <1>8, <1>11 DEF AnswerTypes
<1>13. WorldSeen(w)
  BY <1>4, <1>11, <1>12 DEF RequestKept, WorldSeen
<1>14. Behind(w) \subseteq Behind(q)
  <2>1. w.at = q.at + 1 /\ w.endpoint = q.endpoint /\ q.at \in Nat
    BY <1>4, <1>10, <1>11, <1>12, RequestFields
  <2>2. \A j \in 1 .. w.at - 1 : j \in 1 .. q.at - 1 \/ j = q.at
    BY <2>1
  <2> QED
    BY <1>1, <2>1, <2>2 DEF Behind
<1>15. AnswerSound(w)
  <2>1. w.at <= Len(Handler(w.endpoint))
    BY <1>1, <1>10, <1>11, <1>12
  <2>2. Behind(w) # {} => w.target \in w.seen
    BY <1>1, <1>4, <1>11, <1>12, <1>14 DEF RequestKept, AnswerSound
  <2>3. w.owner # "live" => w.target \in IF CanView(w.viewer, w.target, w.owner) THEN w.seen ELSE w.unseen
    BY <1>6, <1>10, <1>11, <1>12
  <2> QED
    BY <2>1, <2>2, <2>3 DEF AnswerSound
<1>16. AnswerRespects(w)
  BY <1>4, <1>11, <1>12 DEF RequestKept, AnswerRespects
<1>17. requestsBegun' \in 0..MaxRequests /\ UNCHANGED <<userPriv, sessionPriv, writing, changed>>
  BY <1>3 DEF World, VisibilityIInv, VisibilityShape
<1> QED
  BY <1>9, <1>12, <1>13, <1>15, <1>16, <1>17, RequestPreserves DEF RequestKept

-----------------------------------------------------------------------------
(* The theorems *)

LEMMA VisibilityStep == VisibilityIInv /\ [VisibilityNext]_visibilityVars => VisibilityIInv'
<1> SUFFICES ASSUME VisibilityIInv, [VisibilityNext]_visibilityVars PROVE VisibilityIInv'
  OBVIOUS
<1>1. ASSUME NEW u \in People,
             \/ GoOnline(u) \/ UpdatePrivs(u) \/ GoOffline(u)
             \/ \E level \in Levels : ChangeSession(u, level) \/ ChangeOffline(u, level)
      PROVE  VisibilityIInv'
  BY <1>1, WorldStepsPreserve
<1>2. ASSUME NEW r \in Requests, Serve(r) PROVE VisibilityIInv'
  BY <1>2, BeginRequestPreserves, PassGatePreserves, TrySessionPreserves, TakeOwnerPreserves,
     QuietMovesPreserve, QueryPreserves, ShowIfVisiblePreserves DEF Serve
<1>3. CASE UNCHANGED visibilityVars
  BY <1>3 DEF visibilityVars, VisibilityIInv, VisibilityShape, RequestKept, WorldSeen, Views, Hides,
              AnswerSound, AnswerRespects, Behind
<1> QED
  BY <1>1, <1>2, <1>3 DEF VisibilityNext

LEMMA VisibilityAlways == VisibilitySpec => []VisibilityIInv
BY VisibilityInitially, VisibilityStep, PTL DEF VisibilitySpec

\* Whatever privileges change under whatever requests, what a request holds has its type.
THEOREM VisibilityTypeCorrect == VisibilitySpec => []VisibilityTypeOK
<1>1. VisibilityIInv => VisibilityTypeOK
  <2> SUFFICES ASSUME VisibilityIInv PROVE VisibilityTypeOK
    OBVIOUS
  <2>1. ASSUME NEW r \in Requests, requests[r] # Unserved
        PROVE  /\ requests[r].endpoint \in Endpoints /\ requests[r].target \in People
               /\ requests[r].viewer \in People \cup {Anonymous}
               /\ requests[r].shown \subseteq People
               /\ requests[r].status \in {"open", "success", "hidden", "missing", "refused"}
    <3>1. requests[r] \in AnswerTypes
      BY <2>1 DEF VisibilityIInv, VisibilityShape
    <3> QED
      BY <3>1, RequestFields
  <2> QED
    BY <2>1 DEF VisibilityTypeOK, VisibilityIInv, VisibilityShape
<1> QED
  BY <1>1, VisibilityAlways, PTL

\* However requests interleave with changes of privileges, logins and logouts, an answer
\* of an endpoint that asks for the policy (not Unfiltered) shows only players that its
\* viewer could see at some moment of the request, or, of an endpoint of ByRestriction,
\* who was not restricted at some moment; and every endpoint calls hidden only a target
\* that was hidden at some moment.
THEOREM AnswersAlwaysRespectVisibility == VisibilitySpec => []AnswersRespectVisibility
<1>1. VisibilityIInv => AnswersRespectVisibility
  BY DEF VisibilityIInv, AnswersRespectVisibility, RequestKept, AnswerRespects
<1> QED
  BY <1>1, VisibilityAlways, PTL

-----------------------------------------------------------------------------
(***************************************************************************)
(* The services together: they share no state, so that what is proved of   *)
(* each is true of a behaviour that is about any of them.                  *)
(***************************************************************************)

\* A behaviour of the services together is one of every service: those that it is
\* not about stay as they are at first.
THEOREM ServicesImplement ==
    Spec => /\ ClansSpec /\ SocialSpec /\ AccountsSpec
            /\ StandingSpec /\ PoolsSpec /\ VisibilitySpec
<1>1. Init => /\ ClansInit /\ SocialInit /\ AccountsInit
              /\ StandingInit /\ PoolsInit /\ VisibilityInit
  BY Zenon DEF Init
<1>2. [Next]_<<subject, clansVars, socialVars, accountsVars, standingVars, poolsVars, visibilityVars>> =>
        /\ [ClansNext]_clansVars /\ [SocialNext]_socialVars /\ [AccountsNext]_accountsVars
        /\ [StandingNext]_standingVars /\ [PoolsNext]_poolsVars /\ [VisibilityNext]_visibilityVars
  BY Zenon DEF Next
<1> QED
  BY <1>1, <1>2, PTL DEF Spec, ClansSpec, SocialSpec, AccountsSpec, StandingSpec, PoolsSpec,
                         VisibilitySpec

\* Every service keeps the types of its state.
THEOREM ServicesTypes == Spec => []TypeOK
<1>1. Spec => [](subject \in {"clans", "social", "accounts", "standing", "pools", "visibility"})
  <2> DEFINE SubjectIsOne == subject \in {"clans", "social", "accounts", "standing", "pools", "visibility"}
  <2>1. Init => SubjectIsOne
    BY Zenon DEF Init
  <2>2. SubjectIsOne /\ [Next]_<<subject, clansVars, socialVars, accountsVars, standingVars, poolsVars, visibilityVars>> => SubjectIsOne'
    BY Zenon DEF Next
  <2> QED
    BY <2>1, <2>2, PTL DEF Spec
<1>2. /\ subject \in {"clans", "social", "accounts", "standing", "pools", "visibility"}
      /\ ClansTypeOK /\ SocialTypeOK /\ AccountsTypeOK
      /\ StandingTypeOK /\ PoolsTypeOK /\ VisibilityTypeOK
      => TypeOK
  <2> SUFFICES ASSUME subject \in {"clans", "social", "accounts", "standing", "pools", "visibility"},
                      ClansTypeOK, SocialTypeOK, AccountsTypeOK, StandingTypeOK, PoolsTypeOK,
                      VisibilityTypeOK
               PROVE  TypeOK
    OBVIOUS
  <2> QED
    BY DEF TypeOK
<1> QED
  BY <1>1, <1>2, ServicesImplement, ClansTypeCorrect, SocialTypeCorrect, AccountsTypeCorrect,
     StandingTypeCorrect, PoolsTypeCorrect, VisibilityTypeCorrect, PTL
=============================================================================
