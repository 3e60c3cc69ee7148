---------------------------- MODULE CopiesProofs ----------------------------
(***************************************************************************)
(* Proofs about Clans and Standing: what is said of a player in several    *)
(* places at once, for every number of users, names, tags and countries,   *)
(* and for any number of commands and jobs that are open at once.          *)
(***************************************************************************)
EXTENDS Clans, Standing, TLAPS

-----------------------------------------------------------------------------
(***************************************************************************)
(* Clans. A clan is deleted by a command that fetched its members in an    *)
(* earlier step. What makes this safe is that a row comes to name a clan   *)
(* only in the transaction that creates it, with an id that no command     *)
(* knows yet: who is fetched is everybody there will be (Fetched), hidden  *)
(* members included.                                                       *)
(*                                                                         *)
(* One by one, the tables and the copies agree at the end of a command     *)
(* because of what each of its steps relies on (StageSound): the rows of   *)
(* an affiliation change in one transaction, and until the step that       *)
(* writes the copies (Untold says whose) nobody else writes either.        *)
(***************************************************************************)

\* The ids that have been given out, and nothing.
Known == 1..lastId \cup {None}

CreateSteps == {"create player", "create current", "create name", "create tag",
                "create commit", "create sync"}
RemoveSteps == {"disband find", "disband clan", "disband members", "disband commit",
                "disband sync", "leave player", "leave clan", "leave members",
                "leave commit", "leave sync"}
TransferSteps == {"transfer player", "transfer clan", "transfer target",
                  "transfer commit", "transfer sync"}

CreateJobs == [at : CreateSteps, by : Users, tag : Tags, name : ClanNames, clan : Known]
RemoveJobs == [at : RemoveSteps, by : Users, clan : Known, found : SUBSET Users]
TransferJobs == [at : TransferSteps, by : Users, to : Users, clan : Known]
CommandTypes == {NoCommand} \cup CreateJobs \cup RemoveJobs \cup TransferJobs

ClanUsers == [clan : Known, priv : 0..3]

\* A command about to delete a clan has found everybody who is in it.
Fetched(j) ==
    /\ j.at = "disband commit" /\ j.clan # None =>
         \A u \in Users : users[u].clan = j.clan => u \in j.found
    /\ j.at = "leave commit" /\ j.clan # None =>
         \A u \in Users : users[u].clan = j.clan => u \in j.found \cup {j.by}

ClansIInv ==
    /\ clans \in [ClanIds -> [name : ClanNames, tag : Tags, owner : Users] \cup {None}]
    /\ lastId \in ClanIds
    /\ users \in [Users -> ClanUsers]
    /\ copy \in [Users -> ClanUsers]
    /\ connection \in [Users -> {"off", "login", "on"}]
    /\ commandsStarted \in 0..MaxClanCommands
    /\ crossed \in BOOLEAN
    /\ running \in [ClanCommands -> CommandTypes]
    /\ \A k \in ClanCommands : Fetched(running[k])
    /\ \A c \in ClanIds : clans[c] # None => c <= lastId
    /\ MembersHaveClan

\* The step a command is at tells what it carries.
LEMMA JobByStep ==
    ASSUME NEW j \in CommandTypes
    PROVE  /\ j.at \in CreateSteps => j \in CreateJobs
           /\ j.at \in RemoveSteps => j \in RemoveJobs
           /\ j.at \in TransferSteps => j \in TransferJobs
<1> USE DEF CreateSteps, RemoveSteps, TransferSteps
<1>1. CASE j = NoCommand
  BY <1>1 DEF NoCommand
<1>2. CASE j \in CreateJobs
  BY <1>2 DEF CreateJobs
<1>3. CASE j \in RemoveJobs
  BY <1>3 DEF RemoveJobs
<1>4. CASE j \in TransferJobs
  BY <1>4 DEF TransferJobs
<1> QED
  BY <1>1, <1>2, <1>3, <1>4 DEF CommandTypes

\* What is known of ids.
LEMMA IdsAreKnown ==
    ASSUME ClansIInv
    PROVE  /\ Known \subseteq ClanIds \cup {None}
           /\ \A c \in ClanIds : clans[c] # None => c \in Known
           /\ \A u \in Users : users[u].clan # None => users[u].clan \in ClanIds
           /\ Unaffiliated \in ClanUsers
<1>1. MaxClanCommands \in Nat
  BY ClansAssumption
<1>2. lastId \in 1..MaxClanCommands + 1
  BY DEF ClansIInv, ClanIds
<1>3. Known \subseteq ClanIds \cup {None}
  BY <1>1, <1>2 DEF Known, ClanIds
<1>4. ASSUME NEW c \in ClanIds, clans[c] # None
      PROVE  c \in Known
  <2>1. c <= lastId
    BY <1>4 DEF ClansIInv
  <2>2. c \in 1..MaxClanCommands + 1
    BY DEF ClanIds
  <2> QED
    BY <1>1, <1>2, <2>1, <2>2 DEF Known
<1>5. ASSUME NEW u \in Users, users[u].clan # None
      PROVE  users[u].clan \in ClanIds
  <2>1. users[u].clan \in Known
    BY DEF ClansIInv, ClanUsers
  <2> QED
    BY <1>3, <1>5, <2>1
<1>6. Unaffiliated \in ClanUsers
  <2>1. None \in Known
    BY DEF Known
  <2> QED
    BY <2>1 DEF Unaffiliated, ClanUsers
<1> QED
  BY <1>3, <1>4, <1>5, <1>6

LEMMA ClansInitially == ClansInit => ClansIInv
<1> SUFFICES ASSUME ClansInit PROVE ClansIInv
  OBVIOUS
<1>1. 1 \in ClanIds /\ lastId = 1
  BY ClansAssumption DEF ClansInit, ClanIds
<1>2. users \in [Users -> ClanUsers] /\ copy \in [Users -> ClanUsers]
  BY <1>1 DEF ClansInit, ClanUsers, Known, Unaffiliated, Owner, Member
<1> DEFINE first == [name |-> CHOOSE n \in ClanNames : TRUE,
                     tag |-> CHOOSE t \in Tags : TRUE, owner |-> Founder]
<1>a. first \in [name : ClanNames, tag : Tags, owner : Users]
  BY ClansAssumption
<1>b. clans = [c \in ClanIds |-> IF c = 1 THEN first ELSE None]
  BY DEF ClansInit
<1>3. clans \in [ClanIds -> [name : ClanNames, tag : Tags, owner : Users] \cup {None}]
  BY <1>a, <1>b
<1>4. MembersHaveClan
  <2>1. clans[1] # None
    BY <1>1, <1>a, <1>b, ClansAssumption
  <2>2. \A u \in Users : users[u].clan \in {1, None}
    BY DEF ClansInit, Unaffiliated
  <2> QED
    BY <2>1, <2>2 DEF MembersHaveClan
<1>5. running \in [ClanCommands -> CommandTypes] /\ \A k \in ClanCommands : Fetched(running[k])
  BY DEF ClansInit, CommandTypes, Fetched, NoCommand
<1>6. \A c \in ClanIds : clans[c] # None => c <= lastId
  BY <1>1 DEF ClansInit, ClanIds
<1>7. /\ connection \in [Users -> {"off", "login", "on"}]
      /\ commandsStarted \in 0..MaxClanCommands
  BY ClansAssumption DEF ClansInit
<1>8. crossed \in BOOLEAN
  BY Zenon DEF ClansInit
<1> QED
  BY <1>1, <1>2, <1>3, <1>4, <1>5, <1>6, <1>7, <1>8 DEF ClansIInv

\* A command that only reads.
LEMMA ReadingPreserves ==
    ASSUME ClansIInv, NEW k \in ClanCommands, NEW j \in CommandTypes, Fetched(j),
           Become(k, j), Queried
    PROVE  ClansIInv'
BY DEF Become, Queried, ClansIInv, CommandTypes, CreateJobs, RemoveJobs, TransferJobs, ClanUsers, Known, Fetched, MembersHaveClan

\* A login, or a command that writes to the sessions only.
LEMMA CopyingPreserves ==
    ASSUME ClansIInv, copy' \in [Users -> ClanUsers],
           connection' \in [Users -> {"off", "login", "on"}],
           crossed' \in BOOLEAN,
           \/ UNCHANGED running
           \/ \E k \in ClanCommands : Answer(k),
           UNCHANGED <<clans, lastId, users, commandsStarted>>
    PROVE  ClansIInv'
<1>1. /\ NoCommand \in CommandTypes
      /\ NoCommand.at = "idle"
  BY DEF CommandTypes, NoCommand
<1>2. running' \in [ClanCommands -> CommandTypes] /\ \A k \in ClanCommands : Fetched(running'[k])
  <2>1. CASE UNCHANGED running
    BY <2>1 DEF ClansIInv, Fetched
  <2>2. ASSUME NEW k \in ClanCommands, Answer(k)
        PROVE  running' \in [ClanCommands -> CommandTypes] /\ \A m \in ClanCommands : Fetched(running'[m])
    BY <1>1, <2>2 DEF Answer, Become, ClansIInv, Fetched
  <2> QED
    BY <2>1, <2>2
<1> QED
  BY <1>2 DEF ClansIInv, CommandTypes, CreateJobs, RemoveJobs, TransferJobs, ClanUsers, Known, Fetched, MembersHaveClan

LEMMA AnswerPreserves ==
    ASSUME ClansIInv, NEW k \in ClanCommands, Answer(k), Queried
    PROVE  ClansIInv'
<1>1. NoCommand \in CommandTypes /\ Fetched(NoCommand)
  BY DEF CommandTypes, Fetched, NoCommand
<1> QED
  BY <1>1, ReadingPreserves DEF Answer

LEMMA LoginsPreserve ==
    ASSUME ClansIInv, NEW u \in Users,
           BeginLogin(u) \/ FinishLogin(u) \/ EndSession(u)
    PROVE  ClansIInv'
<1>1. Unaffiliated \in ClanUsers
  BY DEF Unaffiliated, ClanUsers, Known
<1>2. copy' \in [Users -> ClanUsers]
  BY <1>1 DEF BeginLogin, FinishLogin, EndSession, ClansIInv
<1>3. /\ connection' \in [Users -> {"off", "login", "on"}]
      /\ UNCHANGED <<clans, lastId, users, running, commandsStarted>>
  BY DEF BeginLogin, FinishLogin, EndSession, ClansIInv
<1>4. crossed' \in BOOLEAN
  BY Zenon DEF BeginLogin, FinishLogin, EndSession, ClansIInv
<1> QED
  BY <1>2, <1>3, <1>4, CopyingPreserves

\* What a command sets out with.
LEMMA RunPreserves ==
    ASSUME ClansIInv, NEW k \in ClanCommands, NEW u \in Users, NEW j \in CommandTypes,
           Fetched(j), Run(k, u, j)
    PROVE  ClansIInv'
<1>1. commandsStarted' \in 0..MaxClanCommands
  BY ClansAssumption DEF Run, ClansIInv
<1>2. crossed' \in BOOLEAN
  BY Zenon DEF Run, ClansIInv
<1>3. /\ running' = [running EXCEPT ![k] = j]
      /\ UNCHANGED <<clans, lastId, users, connection, copy>>
  BY DEF Run
<1> QED
  BY <1>1, <1>2, <1>3 DEF ClansIInv, CommandTypes, CreateJobs, RemoveJobs, TransferJobs, ClanUsers, Known, Fetched, MembersHaveClan

LEMMA CommandsStart ==
    ASSUME ClansIInv, NEW k \in ClanCommands, NEW u \in Users, Command(k, u)
    PROVE  ClansIInv'
<1> USE DEF CommandTypes, CreateJobs, RemoveJobs, TransferJobs,
            CreateSteps, RemoveSteps, TransferSteps, Known, Fetched
<1>1. ASSUME NEW tag \in Tags, NEW name \in ClanNames, Create(k, u, tag, name)
      PROVE  ClansIInv'
  <2> DEFINE j == [at |-> "create player", by |-> u, tag |-> tag, name |-> name, clan |-> None]
  <2>1. j \in CommandTypes /\ Fetched(j)
    OBVIOUS
  <2> QED
    BY <1>1, <2>1, RunPreserves DEF Create
<1>2. CASE Disband(k, u)
  <2> DEFINE j == [at |-> "disband find", by |-> u, clan |-> copy[u].clan, found |-> {}]
  <2>1. j \in CommandTypes /\ Fetched(j)
    BY DEF ClansIInv, ClanUsers
  <2> QED
    BY <1>2, <2>1, RunPreserves DEF Disband
<1>3. ASSUME NEW tag \in Tags, DisbandByTag(k, u, tag)
      PROVE  ClansIInv'
  <2>1. PICK c \in ClanIds :
           /\ clans[c] # None
           /\ Run(k, u, [at |-> "disband clan", by |-> u, clan |-> c, found |-> {}])
    BY <1>3 DEF DisbandByTag
  <2> DEFINE j == [at |-> "disband clan", by |-> u, clan |-> c, found |-> {}]
  <2>2. c \in Known
    BY <2>1, IdsAreKnown
  <2>3. j \in RemoveJobs /\ Fetched(j)
    BY <2>2
  <2> QED
    BY <2>1, <2>3, RunPreserves
<1>4. CASE LeaveClan(k, u)
  <2> DEFINE j == [at |-> "leave player", by |-> u, clan |-> None, found |-> {}]
  <2>1. j \in CommandTypes /\ Fetched(j)
    OBVIOUS
  <2> QED
    BY <1>4, <2>1, RunPreserves DEF LeaveClan
<1>5. ASSUME NEW v \in Users, Transfer(k, u, v)
      PROVE  ClansIInv'
  <2> DEFINE j == [at |-> "transfer player", by |-> u, to |-> v, clan |-> None]
  <2>1. j \in CommandTypes /\ Fetched(j)
    OBVIOUS
  <2> QED
    BY <1>5, <2>1, RunPreserves DEF Transfer
<1> QED
  BY <1>1, <1>2, <1>3, <1>4, <1>5 DEF Command

\* create_clan: the row of the new clan has an id that no row and no command knew.
LEMMA CreatePreserves ==
    ASSUME ClansIInv, NEW k \in ClanCommands,
           \/ CreatePlayer(k) \/ CreateCurrent(k) \/ CreateName(k) \/ CreateTag(k)
           \/ CreateCommit(k) \/ CreateSync(k)
    PROVE  ClansIInv'
<1> DEFINE Job(at, clan) == [running[k] EXCEPT !.at = at, !.clan = clan]
<1>1. ASSUME running[k].at \in CreateSteps
      PROVE  running[k] \in CreateJobs /\ running[k].by \in Users /\ running[k].clan \in Known
  BY <1>1, JobByStep DEF ClansIInv, CreateJobs
<1>a. ASSUME running[k].at \in CreateSteps, NEW at \in CreateSteps
      PROVE  [running[k] EXCEPT !.at = at] \in CommandTypes /\ Fetched([running[k] EXCEPT !.at = at])
  <2> DEFINE j == [running[k] EXCEPT !.at = at]
  <2>1. j \in CreateJobs /\ j.at = at
    BY <1>1, <1>a DEF CreateJobs
  <2> QED
    BY <2>1 DEF CommandTypes, Fetched, CreateSteps
<1>b. ASSUME running[k].at \in CreateSteps, NEW at \in CreateSteps, NEW c \in Known
      PROVE  Job(at, c) \in CommandTypes /\ Fetched(Job(at, c))
  <2> DEFINE j == Job(at, c)
  <2>1. j \in CreateJobs /\ j.at = at
    BY <1>1, <1>b DEF CreateJobs
  <2> QED
    BY <2>1 DEF CommandTypes, Fetched, CreateSteps
<1>2. CASE CreatePlayer(k)
  <2>1. running[k].at \in CreateSteps
    BY <1>2 DEF CreatePlayer, CommandAt, CreateSteps
  <2>2. users[running[k].by].clan \in Known
    BY <1>1, <2>1 DEF ClansIInv, ClanUsers
  <2>3. Queried /\ \E j \in CommandTypes : Fetched(j) /\ Become(k, j)
    BY <1>a, <1>b, <1>2, <2>1, <2>2 DEF CreatePlayer, StepTo, CreateSteps
  <2> QED
    BY <2>3, ReadingPreserves
<1>3. CASE CreateCurrent(k) \/ CreateName(k) \/ CreateTag(k)
  <2>1. running[k].at \in CreateSteps
    BY <1>3 DEF CreateCurrent, CreateName, CreateTag, CommandAt, CreateSteps
  <2>2. Queried
    BY <1>3 DEF CreateCurrent, CreateName, CreateTag
  <2>3. Answer(k) \/ \E j \in CommandTypes : Fetched(j) /\ Become(k, j)
    BY <1>a, <1>3, <2>1 DEF CreateCurrent, CreateName, CreateTag, StepTo, CreateSteps
  <2> QED
    BY <2>2, <2>3, ReadingPreserves, AnswerPreserves
<1>4. CASE CreateCommit(k) /\ Answer(k) /\ Queried
  BY <1>4, AnswerPreserves
<1>5. CASE CreateCommit(k) /\ ~(Answer(k) /\ Queried)
  <2> DEFINE u == running[k].by
             j == Job("create sync", lastId')
             entry == [name |-> running[k].name, tag |-> running[k].tag, owner |-> u]
  <2>1. /\ lastId' = lastId + 1 /\ lastId' \in ClanIds
        /\ clans' = [clans EXCEPT ![lastId'] = entry]
        /\ users' = [v \in Users |-> IF v = u THEN [clan |-> lastId', priv |-> Owner] ELSE users[v]]
        /\ running' = [running EXCEPT ![k] = j]
        /\ UNCHANGED <<connection, copy, commandsStarted, crossed>>
    BY <1>5 DEF CreateCommit, Affiliate, Become
  <2>2. running[k] \in CreateJobs /\ u \in Users
    BY <1>1, <1>5 DEF CreateCommit, CommandAt, CreateSteps
  <2>3. Known \subseteq Known' /\ lastId' \in Known' /\ lastId' \notin Known
    BY <2>1, ClansAssumption DEF ClansIInv, Known, ClanIds
  <2>4. entry \in [name : ClanNames, tag : Tags, owner : Users] /\ entry # None
    BY <2>2, ClansAssumption DEF CreateJobs
  <2>5. users' \in [Users -> ClanUsers'] /\ copy' \in [Users -> ClanUsers']
    BY <2>1, <2>3 DEF ClansIInv, ClanUsers, Owner
  <2>6. clans' \in [ClanIds -> [name : ClanNames, tag : Tags, owner : Users] \cup {None}]
    BY <2>1, <2>4 DEF ClansIInv
  <2>7. running' \in [ClanCommands -> CommandTypes']
    <3>1. j \in CreateJobs'
      BY <2>2, <2>3 DEF CreateJobs, CreateSteps
    <3>2. CommandTypes \subseteq CommandTypes' /\ j \in CommandTypes'
      BY <2>3, <3>1 DEF CommandTypes, CreateJobs, RemoveJobs, TransferJobs
    <3> QED
      BY <2>1, <3>2 DEF ClansIInv
  <2>8. \A m \in ClanCommands : Fetched(running[m])'
    <3> SUFFICES ASSUME NEW m \in ClanCommands PROVE Fetched(running[m])'
      OBVIOUS
    <3>1. CASE m = k
      <4>1. running'[m].at = "create sync"
        BY <2>1, <2>2, <3>1 DEF ClansIInv, CreateJobs
      <4> QED
        BY <4>1 DEF Fetched
    <3>2. CASE m # k
      <4>1. running'[m] = running[m] /\ Fetched(running[m]) /\ running[m] \in CommandTypes
        BY <2>1, <3>2 DEF ClansIInv
      <4>2. running[m].at \in {"disband commit", "leave commit"} => running[m].clan \in Known
        BY <4>1, JobByStep DEF RemoveJobs, RemoveSteps
      <4>3. \A v \in Users : users'[v].clan = running[m].clan /\ running[m].clan \in Known
                              => users[v].clan = running[m].clan
        BY <2>1, <2>3 DEF ClansIInv
      <4> QED
        BY <4>1, <4>2, <4>3 DEF Fetched
    <3> QED
      BY <3>1, <3>2
  <2>9. MembersHaveClan'
    <3> SUFFICES ASSUME NEW v \in Users, users'[v].clan # None
                 PROVE  clans'[users'[v].clan] # None
      BY DEF MembersHaveClan
    <3>1. CASE v = u
      BY <2>1, <2>2, <2>4, <3>1 DEF ClansIInv
    <3>2. CASE v # u
      <4>1. users'[v].clan = users[v].clan /\ users[v].clan \in Known
        BY <2>1, <3>2 DEF ClansIInv, ClanUsers
      <4>2. users[v].clan \in ClanIds
        BY <4>1, <3>2, ClansAssumption DEF ClansIInv, Known, ClanIds
      <4> QED
        BY <2>1, <2>3, <4>1, <4>2 DEF ClansIInv, MembersHaveClan
    <3> QED
      BY <3>1, <3>2
  <2>10. \A c \in ClanIds : clans'[c] # None => c <= lastId'
    BY <2>1 DEF ClansIInv, ClanIds
  <2> QED
    BY <2>1, <2>5, <2>6, <2>7, <2>8, <2>9, <2>10 DEF ClansIInv
<1>6. CASE CreateSync(k)
  <2>1. running[k].at \in CreateSteps
    BY <1>6 DEF CreateSync, CommandAt, CreateSteps
  <2>2. [clan |-> running[k].clan, priv |-> Owner] \in ClanUsers
    BY <1>1, <2>1 DEF ClanUsers, Owner
  <2>3. copy' \in [Users -> ClanUsers]
    BY <1>6, <2>2 DEF CreateSync, Sync, ClansIInv
  <2> QED
    BY <1>6, <2>3, CopyingPreserves DEF CreateSync, ClansIInv
<1> QED
  BY <1>2, <1>3, <1>4, <1>5, <1>6

\* A command that removes somebody or a clan: what it sets out with, and goes on with.
LEMMA RemoveJob ==
    ASSUME ClansIInv, NEW k \in ClanCommands, running[k].at \in RemoveSteps
    PROVE  /\ running[k] \in RemoveJobs
           /\ \A at \in RemoveSteps \ {"disband commit", "leave commit"}, c \in Known :
                /\ [running[k] EXCEPT !.at = at] \in CommandTypes
                /\ Fetched([running[k] EXCEPT !.at = at])
                /\ [running[k] EXCEPT !.at = at, !.clan = c] \in CommandTypes
                /\ Fetched([running[k] EXCEPT !.at = at, !.clan = c])
<1>1. running[k] \in RemoveJobs
  BY JobByStep DEF ClansIInv
<1>2. ASSUME NEW at \in RemoveSteps \ {"disband commit", "leave commit"}, NEW c \in Known
      PROVE  /\ [running[k] EXCEPT !.at = at] \in CommandTypes
             /\ Fetched([running[k] EXCEPT !.at = at])
             /\ [running[k] EXCEPT !.at = at, !.clan = c] \in CommandTypes
             /\ Fetched([running[k] EXCEPT !.at = at, !.clan = c])
  <2> DEFINE j1 == [running[k] EXCEPT !.at = at]
             j2 == [running[k] EXCEPT !.at = at, !.clan = c]
  <2>1. j1 \in RemoveJobs /\ j1.at = at /\ j2 \in RemoveJobs /\ j2.at = at
    BY <1>1, <1>2 DEF RemoveJobs
  <2> QED
    BY <2>1 DEF CommandTypes, Fetched
<1> QED
  BY <1>1, <1>2

\* The clans that go are left by all who were found in them.
LEMMA CommitPreserves ==
    ASSUME ClansIInv, NEW k \in ClanCommands, NEW left \in SUBSET Users,
           NEW at \in {"disband sync", "leave sync"},
           NEW c \in Known, running[k].at \in RemoveSteps, c = running[k].clan,
           c # None => \A u \in Users : users[u].clan = c => u \in left,
           clans' = [clans EXCEPT ![c] = None],
           Affiliate(left, Unaffiliated), StepTo(k, at),
           UNCHANGED <<lastId, connection, copy, commandsStarted, crossed>>
    PROVE  ClansIInv'
<1> DEFINE j == [running[k] EXCEPT !.at = at]
<1>1. j \in CommandTypes /\ j.at = at
  BY RemoveJob DEF RemoveJobs, RemoveSteps
<1>2. CommandTypes' = CommandTypes /\ ClanUsers' = ClanUsers
  BY DEF CommandTypes, CreateJobs, RemoveJobs, TransferJobs, ClanUsers, Known
<1>3. running' \in [ClanCommands -> CommandTypes']
  BY <1>1, <1>2 DEF StepTo, Become, ClansIInv
<1>4. users' = [u \in Users |-> IF u \in left THEN Unaffiliated ELSE users[u]]
  BY DEF Affiliate
<1>5. users' \in [Users -> ClanUsers'] /\ copy' \in [Users -> ClanUsers']
  <2>1. Unaffiliated \in ClanUsers
    BY IdsAreKnown
  <2> QED
    BY <1>2, <1>4, <2>1 DEF ClansIInv
<1>6. \A m \in ClanCommands : Fetched(running[m])'
  <2> SUFFICES ASSUME NEW m \in ClanCommands PROVE Fetched(running[m])'
    OBVIOUS
  <2>1. CASE m = k
    BY <1>1, <2>1 DEF StepTo, Become, Fetched, ClansIInv
  <2>2. CASE m # k
    <3>1. running'[m] = running[m] /\ Fetched(running[m])
      BY <2>2 DEF StepTo, Become, ClansIInv
    <3>2. \A u \in Users : users'[u].clan # None => users'[u].clan = users[u].clan
      BY <1>4 DEF Unaffiliated
    <3> QED
      BY <3>1, <3>2 DEF Fetched
  <2> QED
    BY <2>1, <2>2
<1>7. MembersHaveClan'
  <2> SUFFICES ASSUME NEW u \in Users, users'[u].clan # None
               PROVE  clans'[users'[u].clan] # None
    BY DEF MembersHaveClan
  <2>1. u \notin left /\ users'[u] = users[u]
    BY <1>4 DEF Unaffiliated
  <2>2. users[u].clan # c
    BY <2>1
  <2>3. users[u].clan \in ClanIds
    BY <2>1, IdsAreKnown
  <2> QED
    BY <2>1, <2>2, <2>3 DEF ClansIInv, MembersHaveClan
<1>8. /\ clans' \in [ClanIds -> [name : ClanNames, tag : Tags, owner : Users] \cup {None}]
      /\ \A d \in ClanIds : clans'[d] # None => d <= lastId'
  BY DEF ClansIInv
<1> QED
  BY <1>3, <1>5, <1>6, <1>7, <1>8 DEF ClansIInv

\* disband_clan and leave_clan
LEMMA RemovePreserves ==
    ASSUME ClansIInv, NEW k \in ClanCommands,
           \/ DisbandFind(k) \/ DisbandClan(k) \/ DisbandMembers(k)
           \/ DisbandCommit(k) \/ DisbandSync(k)
           \/ LeavePlayer(k) \/ LeaveFind(k) \/ LeaveMembers(k)
           \/ LeaveCommit(k) \/ LeaveSync(k)
    PROVE  ClansIInv'
<1>1. running[k].at \in RemoveSteps
  BY DEF DisbandFind, DisbandClan, DisbandMembers, DisbandCommit, DisbandSync, LeavePlayer,
         LeaveFind, LeaveMembers, LeaveCommit, LeaveSync, CommandAt, RemoveSteps
<1>2. /\ running[k] \in RemoveJobs /\ running[k].by \in Users
      /\ running[k].clan \in Known /\ running[k].found \subseteq Users
  BY <1>1, RemoveJob DEF RemoveJobs
<1>3. CASE DisbandFind(k) \/ DisbandClan(k) \/ LeaveFind(k)
  <2>1. Queried /\ (Answer(k) \/ \E at \in {"disband clan", "disband members", "leave members"} : StepTo(k, at))
    BY <1>3 DEF DisbandFind, DisbandClan, LeaveFind
  <2>2. \A at \in {"disband clan", "disband members", "leave members"} :
           [running[k] EXCEPT !.at = at] \in CommandTypes /\ Fetched([running[k] EXCEPT !.at = at])
    BY <1>1, RemoveJob DEF RemoveSteps, Known
  <2> QED
    BY <2>1, <2>2, AnswerPreserves, ReadingPreserves DEF StepTo
<1>4. CASE LeavePlayer(k)
  <2> DEFINE j == [running[k] EXCEPT !.at = "leave clan", !.clan = users[running[k].by].clan]
  <2>1. users[running[k].by].clan \in Known
    BY <1>2 DEF ClansIInv, ClanUsers
  <2>2. j \in CommandTypes /\ Fetched(j)
    BY <1>1, <2>1, RemoveJob DEF RemoveSteps
  <2>3. Queried /\ (Answer(k) \/ Become(k, j))
    BY <1>4 DEF LeavePlayer
  <2> QED
    BY <2>2, <2>3, AnswerPreserves, ReadingPreserves
<1>5. CASE DisbandMembers(k)
  <2> DEFINE found == FetchMembers(running[k].clan, TRUE)
             j == [running[k] EXCEPT !.at = "disband commit", !.found = found]
  <2>1. /\ found \subseteq Users
        /\ \A u \in Users : users[u].clan = running[k].clan => u \in found
    BY DEF FetchMembers
  <2>2. j \in RemoveJobs /\ j.at = "disband commit" /\ j.clan = running[k].clan /\ j.found = found
    BY <1>2, <2>1 DEF RemoveJobs, RemoveSteps
  <2>3. j \in CommandTypes /\ Fetched(j)
    BY <2>1, <2>2 DEF CommandTypes, Fetched
  <2>4. Queried /\ Become(k, j)
    BY <1>5 DEF DisbandMembers
  <2> QED
    BY <2>3, <2>4, ReadingPreserves
<1>6. CASE LeaveMembers(k)
  <2> DEFINE found == FetchMembers(running[k].clan, TRUE) \ {running[k].by}
             j == [running[k] EXCEPT !.at = "leave commit", !.found = found]
  <2>1. /\ found \subseteq Users
        /\ \A u \in Users : users[u].clan = running[k].clan => u \in found \cup {running[k].by}
    BY DEF FetchMembers
  <2>2. /\ j \in RemoveJobs /\ j.at = "leave commit" /\ j.clan = running[k].clan
        /\ j.found = found /\ j.by = running[k].by
    BY <1>2, <2>1 DEF RemoveJobs, RemoveSteps
  <2>3. j \in CommandTypes /\ Fetched(j)
    BY <2>1, <2>2 DEF CommandTypes, Fetched
  <2>4. Queried /\ Become(k, j)
    BY <1>6 DEF LeaveMembers
  <2> QED
    BY <2>3, <2>4, ReadingPreserves
<1>7. CASE DisbandCommit(k)
  <2>1. running[k].clan # None =>
           \A u \in Users : users[u].clan = running[k].clan => u \in running[k].found
    BY <1>7 DEF DisbandCommit, CommandAt, ClansIInv, Fetched
  <2> QED
    BY <1>1, <1>2, <1>7, <2>1, CommitPreserves DEF DisbandCommit
<1>8. CASE LeaveCommit(k) /\ running[k].found = {}
  <2>1. running[k].clan # None =>
           \A u \in Users : users[u].clan = running[k].clan => u \in {running[k].by}
    BY <1>8 DEF LeaveCommit, CommandAt, ClansIInv, Fetched
  <2> QED
    BY <1>1, <1>2, <1>8, <2>1, CommitPreserves DEF LeaveCommit
<1>9. CASE LeaveCommit(k) /\ running[k].found # {}
  <2> DEFINE j == [running[k] EXCEPT !.at = "leave sync"]
             u == running[k].by
  <2>1. j \in CommandTypes /\ j.at = "leave sync"
    BY <1>1, <1>2, RemoveJob DEF RemoveJobs, RemoveSteps
  <2>2. /\ running' = [running EXCEPT ![k] = j]
        /\ users' = [v \in Users |-> IF v = u THEN Unaffiliated ELSE users[v]]
        /\ UNCHANGED <<clans, lastId, connection, copy, commandsStarted, crossed>>
    BY <1>9 DEF LeaveCommit, StepTo, Become, Affiliate
  <2>3. CommandTypes' = CommandTypes /\ ClanUsers' = ClanUsers
    BY <2>2 DEF CommandTypes, CreateJobs, RemoveJobs, TransferJobs, ClanUsers, Known
  <2>4. users' \in [Users -> ClanUsers'] /\ copy' \in [Users -> ClanUsers']
    <3>1. Unaffiliated \in ClanUsers
      BY IdsAreKnown
    <3> QED
      BY <2>2, <2>3, <3>1 DEF ClansIInv
  <2>5. \A v \in Users : users'[v].clan # None => users'[v].clan = users[v].clan
    BY <2>2 DEF Unaffiliated
  <2>6. \A m \in ClanCommands : Fetched(running[m])'
    <3> SUFFICES ASSUME NEW m \in ClanCommands PROVE Fetched(running[m])'
      OBVIOUS
    <3>1. CASE m = k
      BY <2>1, <2>2, <3>1 DEF Fetched, ClansIInv
    <3>2. CASE m # k
      <4>1. running'[m] = running[m] /\ Fetched(running[m])
        BY <2>2, <3>2 DEF ClansIInv
      <4> QED
        BY <2>5, <4>1 DEF Fetched
    <3> QED
      BY <3>1, <3>2
  <2>7. MembersHaveClan'
    BY <2>2, <2>5 DEF ClansIInv, MembersHaveClan
  <2>8. running' \in [ClanCommands -> CommandTypes']
    BY <2>1, <2>2, <2>3 DEF ClansIInv
  <2> QED
    BY <2>2, <2>4, <2>6, <2>7, <2>8 DEF ClansIInv
<1>10. CASE DisbandSync(k) \/ LeaveSync(k)
  <2>1. Unaffiliated \in ClanUsers
    BY IdsAreKnown
  <2>2. copy' \in [Users -> ClanUsers]
    BY <1>10, <2>1 DEF DisbandSync, LeaveSync, Sync, ClansIInv
  <2>3. Answer(k) /\ UNCHANGED <<clans, lastId, users, connection, commandsStarted, crossed>>
    BY <1>10 DEF DisbandSync, LeaveSync
  <2> QED
    BY <2>2, <2>3, CopyingPreserves DEF ClansIInv
<1> QED
  BY <1>3, <1>4, <1>5, <1>6, <1>7, <1>8, <1>9, <1>10

\* transfer_clan_ownership: nobody leaves a clan or comes to one.
LEMMA TransferPreserves ==
    ASSUME ClansIInv, NEW k \in ClanCommands,
           \/ TransferPlayer(k) \/ TransferFind(k) \/ TransferTarget(k)
           \/ TransferCommit(k) \/ TransferSync(k)
    PROVE  ClansIInv'
<1>1. running[k].at \in TransferSteps
  BY DEF TransferPlayer, TransferFind, TransferTarget, TransferCommit, TransferSync,
         CommandAt, TransferSteps
<1>2. /\ running[k] \in TransferJobs /\ running[k].by \in Users
      /\ running[k].to \in Users /\ running[k].clan \in Known
  <2>1. running[k] \in TransferJobs
    BY <1>1, JobByStep DEF ClansIInv
  <2> QED
    BY <2>1 DEF TransferJobs
<1>3. ASSUME NEW at \in TransferSteps
      PROVE  [running[k] EXCEPT !.at = at] \in CommandTypes /\ Fetched([running[k] EXCEPT !.at = at])
  <2> DEFINE j == [running[k] EXCEPT !.at = at]
  <2>1. j \in TransferJobs /\ j.at = at
    BY <1>2, <1>3 DEF TransferJobs
  <2> QED
    BY <2>1 DEF CommandTypes, Fetched, TransferSteps
<1>4. CASE TransferPlayer(k)
  <2> DEFINE j == [running[k] EXCEPT !.at = "transfer clan", !.clan = users[running[k].by].clan]
  <2>1. users[running[k].by].clan \in Known
    BY <1>2 DEF ClansIInv, ClanUsers
  <2>2. j \in TransferJobs /\ j.at = "transfer clan"
    BY <1>2, <2>1 DEF TransferJobs, TransferSteps
  <2>3. j \in CommandTypes /\ Fetched(j)
    BY <2>2 DEF CommandTypes, Fetched
  <2>4. Queried /\ (Answer(k) \/ Become(k, j))
    BY <1>4 DEF TransferPlayer
  <2> QED
    BY <2>3, <2>4, AnswerPreserves, ReadingPreserves
<1>5. CASE TransferFind(k) \/ TransferTarget(k)
  <2>1. Queried /\ (Answer(k) \/ \E at \in TransferSteps : StepTo(k, at))
    BY <1>5 DEF TransferFind, TransferTarget, TransferSteps
  <2> QED
    BY <1>3, <2>1, AnswerPreserves, ReadingPreserves DEF StepTo
<1>6. CASE TransferCommit(k) /\ Answer(k) /\ Queried
  BY <1>6, AnswerPreserves
<1>7. CASE TransferCommit(k) /\ ~(Answer(k) /\ Queried)
  <2> DEFINE u == running[k].by
             v == running[k].to
             c == running[k].clan
             j == [running[k] EXCEPT !.at = "transfer sync"]
  <2>1. /\ clans' = IF clans[c] = None THEN clans ELSE [clans EXCEPT ![c].owner = v]
        /\ users' = [users EXCEPT ![v].priv = Owner, ![u].priv = Officer]
        /\ running' = [running EXCEPT ![k] = j]
        /\ UNCHANGED <<lastId, connection, copy, commandsStarted, crossed>>
    BY <1>7 DEF TransferCommit, StepTo, Become
  <2>2. j \in CommandTypes /\ Fetched(j) /\ j.at = "transfer sync"
    BY <1>2, <1>3 DEF TransferSteps, TransferJobs
  <2>3. CommandTypes' = CommandTypes /\ ClanUsers' = ClanUsers
    BY <2>1 DEF CommandTypes, CreateJobs, RemoveJobs, TransferJobs, ClanUsers, Known
  <2>4. users' \in [Users -> ClanUsers] /\ \A w \in Users : users'[w].clan = users[w].clan
    <3> DEFINE promoted == [users EXCEPT ![v] = [users[v] EXCEPT !.priv = Owner]]
    <3>1. \A w \in Users : users[w] \in ClanUsers
      BY DEF ClansIInv
    <3>2. \A w \in Users, n \in 0..3 :
             /\ [users[w] EXCEPT !.priv = n] \in ClanUsers
             /\ [users[w] EXCEPT !.priv = n].clan = users[w].clan
      BY <3>1 DEF ClanUsers
    <3>3. promoted \in [Users -> ClanUsers] /\ \A w \in Users : promoted[w].clan = users[w].clan
      <4>1. [users[v] EXCEPT !.priv = Owner] \in ClanUsers /\ [users[v] EXCEPT !.priv = Owner].clan = users[v].clan
        <5>1. Owner \in 0..3 /\ v \in Users
          BY <1>2 DEF Owner
        <5> HIDE DEF v
        <5> QED
          BY <3>2, <5>1
      <4>2. users \in [Users -> ClanUsers]
        BY DEF ClansIInv
      <4> HIDE DEF v
      <4>3. promoted = [w \in Users |-> IF w = v THEN [users[v] EXCEPT !.priv = Owner] ELSE users[w]]
        BY <4>2
      <4> QED
        BY <4>1, <4>2, <4>3
    <3>4. users' = [promoted EXCEPT ![u] = [promoted[u] EXCEPT !.priv = Officer]]
      BY <2>1
    <3>5. /\ [promoted[u] EXCEPT !.priv = Officer] \in ClanUsers
          /\ [promoted[u] EXCEPT !.priv = Officer].clan = users[u].clan
      BY <1>2, <3>3 DEF ClanUsers, Officer
    <3> QED
      BY <1>2, <3>3, <3>4, <3>5
  <2>5. /\ clans' \in [ClanIds -> [name : ClanNames, tag : Tags, owner : Users] \cup {None}]
        /\ \A d \in ClanIds : clans'[d] = None <=> clans[d] = None
    <3>1. CASE clans[c] = None \/ c \notin ClanIds
      BY <2>1, <3>1 DEF ClansIInv
    <3>2. CASE clans[c] # None /\ c \in ClanIds
      <4>1. clans[c] \in [name : ClanNames, tag : Tags, owner : Users]
        BY <3>2 DEF ClansIInv
      <4>2. [clans[c] EXCEPT !.owner = v] \in [name : ClanNames, tag : Tags, owner : Users]
        BY <1>2, <4>1
      <4>3. clans' = [clans EXCEPT ![c] = [clans[c] EXCEPT !.owner = v]]
        BY <2>1, <3>2 DEF ClansIInv
      <4> QED
        BY <3>2, <4>2, <4>3, ClansAssumption DEF ClansIInv
    <3> QED
      BY <3>1, <3>2
  <2>6. \A m \in ClanCommands : Fetched(running[m])'
    <3> SUFFICES ASSUME NEW m \in ClanCommands PROVE Fetched(running[m])'
      OBVIOUS
    <3>1. CASE m = k
      BY <2>1, <2>2, <3>1 DEF Fetched, ClansIInv
    <3>2. CASE m # k
      <4>1. running'[m] = running[m] /\ Fetched(running[m])
        BY <2>1, <3>2 DEF ClansIInv
      <4> QED
        BY <2>4, <4>1 DEF Fetched
    <3> QED
      BY <3>1, <3>2
  <2>7. MembersHaveClan'
    <3> SUFFICES ASSUME NEW w \in Users, users'[w].clan # None
                 PROVE  clans'[users'[w].clan] # None
      BY DEF MembersHaveClan
    <3>1. users'[w].clan = users[w].clan /\ users[w].clan \in ClanIds
        BY <2>4, IdsAreKnown
    <3> QED
      BY <2>5, <3>1 DEF ClansIInv, MembersHaveClan
  <2>8. running' \in [ClanCommands -> CommandTypes']
    BY <2>1, <2>2, <2>3 DEF ClansIInv
  <2> QED
    BY <2>1, <2>3, <2>4, <2>5, <2>6, <2>7, <2>8 DEF ClansIInv
<1>8. CASE TransferSync(k)
  <2>1. \A n \in 0..3 : [clan |-> running[k].clan, priv |-> n] \in ClanUsers
    BY <1>2 DEF ClanUsers
  <2>3. copy' \in [Users -> ClanUsers]
    <3> DEFINE given(w) == [clan |-> running[k].clan,
                            priv |-> IF w = running[k].to THEN Owner ELSE Officer]
    <3>1. \A w \in Users : given(w) \in ClanUsers /\ copy[w] \in ClanUsers
      BY <2>1 DEF Owner, Officer, ClansIInv
    <3>2. copy' = [w \in Users |->
                     IF connection[w] = "on" /\ w \in {running[k].by, running[k].to}
                     THEN given(w) ELSE copy[w]]
      BY <1>8 DEF TransferSync
    <3> HIDE DEF given
    <3> QED
      BY <3>1, <3>2
  <2>2. Answer(k) /\ UNCHANGED <<clans, lastId, users, connection, commandsStarted, crossed>>
    BY <1>8 DEF TransferSync
  <2> QED
    BY <2>2, <2>3, CopyingPreserves DEF ClansIInv
<1> QED
  BY <1>4, <1>5, <1>6, <1>7, <1>8

LEMMA ClansInductive == ClansSpec => []ClansIInv
<1>1. ASSUME ClansIInv, [ClansNext]_clansVars
      PROVE  ClansIInv'
  <2>1. CASE UNCHANGED clansVars
    BY <1>1, <2>1
    DEF clansVars, ClansIInv, CommandTypes, CreateJobs, RemoveJobs, TransferJobs, ClanUsers, Known,
        Fetched, MembersHaveClan
  <2>2. ASSUME NEW u \in Users, BeginLogin(u) \/ FinishLogin(u) \/ EndSession(u)
        PROVE  ClansIInv'
    BY <1>1, <2>2, LoginsPreserve
  <2>3. ASSUME NEW k \in ClanCommands, NEW u \in Users, Command(k, u)
        PROVE  ClansIInv'
    BY <1>1, <2>3, CommandsStart
  <2>4. ASSUME NEW k \in ClanCommands, ProceedCommand(k)
        PROVE  ClansIInv'
    BY <1>1, <2>4, CreatePreserves, RemovePreserves, TransferPreserves DEF ProceedCommand
  <2> QED
    BY <1>1, <2>1, <2>2, <2>3, <2>4 DEF ClansNext
<1> QED
  BY <1>1, ClansInitially, PTL DEF ClansSpec

-----------------------------------------------------------------------------
(* One command at a time *)

OwnersAgree ==
    \A c \in ClanIds : clans[c] # None =>
      \A v \in Users : (users[v].clan = c /\ users[v].priv = Owner) <=> v = clans[c].owner

NamesDiffer ==
    \A c \in ClanIds, d \in ClanIds :
      clans[c] # None /\ clans[d] # None /\ clans[c].name = clans[d].name => c = d

\* Whose copies are written by a later step than their rows.
Untold(r) ==
    CASE r.at \in {"create sync", "leave sync"} -> {r.by}
      [] r.at = "disband sync" -> r.found
      [] r.at = "transfer sync" -> {r.by, r.to}
      [] OTHER -> {}

CopiesAgreeBut(S) == \A v \in Users \ S : connection[v] # "off" => copy[v] = users[v]

\* What the one command that is open relies on.
StageSound(k) ==
    LET r == running[k]  entry == users[r.by] IN
    /\ r.at = "create current" => r.clan = entry.clan /\ r.clan # None
    /\ r.at \in {"create name", "create tag", "create commit"} => entry.clan = None
    /\ r.at \in {"create tag", "create commit"} => ~NameTaken(r.name)
    /\ r.at = "create sync" => entry.clan = r.clan /\ entry.priv = Owner
    /\ r.at \in {"disband members", "disband commit"} => r.clan # None
    /\ r.at = "disband commit" => \A v \in r.found : users[v].clan = r.clan
    /\ r.at = "disband sync" => \A v \in r.found : users[v].clan = None /\ users[v].priv = 0
    /\ r.at \in {"leave clan", "leave members", "leave commit"} =>
         entry.clan = r.clan /\ entry.priv # Owner
    /\ r.at = "leave sync" => entry.clan = None /\ entry.priv = 0
    /\ r.at \in {"transfer clan", "transfer target", "transfer commit"} =>
         entry.clan = r.clan /\ r.clan # None /\ entry.priv = Owner
    /\ r.at = "transfer commit" => users[r.to].clan = r.clan /\ r.to # r.by
    /\ r.at = "transfer sync" =>
         /\ r.to # r.by
         /\ entry.clan = r.clan /\ entry.priv = Officer
         /\ users[r.to].clan = r.clan /\ users[r.to].priv = Owner

CommandSound(k) ==
    OwnersAgree /\ NamesDiffer /\ CopiesAgreeBut(Untold(running[k])) /\ StageSound(k)

SomebodyLogsIn == \E v \in Users : connection[v] = "login"

ClansSettled == OwnersAgree /\ NamesDiffer /\ CopiesAgreeBut({})

OneByOne ==
    ~crossed =>
      /\ \A j, k \in OpenCommands : j = k
      /\ SomebodyLogsIn => OpenCommands = {}
      /\ \A k \in OpenCommands : CommandSound(k)
      /\ OpenCommands = {} => ClansSettled

SyncSteps == {"create sync", "leave sync", "disband sync", "transfer sync"}

LEMMA SameRow == ASSUME NEW r \in ClanUsers, NEW q \in ClanUsers, r.clan = q.clan, r.priv = q.priv
                 PROVE  r = q
BY DEF ClanUsers

LEMMA CommandsAreNotIdle == ASSUME NEW r, r.at # "idle" PROVE r # NoCommand
BY DEF NoCommand

\* While a command is open and nothing has crossed it, it is the only one.
LEMMA OnlyCommand ==
    ASSUME OneByOne, NEW k \in ClanCommands, running[k].at # "idle", ~crossed
    PROVE  OpenCommands = {k} /\ ~SomebodyLogsIn /\ CommandSound(k)
<1>1. k \in OpenCommands
  BY CommandsAreNotIdle DEF OpenCommands
<1> QED
  BY <1>1 DEF OneByOne

LEMMA OneByOneInitially == ClansInit => OneByOne
<1> SUFFICES ASSUME ClansInit
             PROVE  OneByOne
  OBVIOUS
<1> DEFINE first == [name |-> CHOOSE n \in ClanNames : TRUE,
                     tag |-> CHOOSE t \in Tags : TRUE, owner |-> Founder]
<1>1. OpenCommands = {}
  BY DEF ClansInit, OpenCommands
<1>2. clans = [c \in ClanIds |-> IF c = 1 THEN first ELSE None] /\ first.owner = Founder
  BY DEF ClansInit
<1> HIDE DEF first
<1>3. /\ \A v \in Users : users[v] = IF v = Founder THEN [clan |-> 1, priv |-> Owner]
                                     ELSE IF v \in Joined THEN [clan |-> 1, priv |-> Member]
                                     ELSE Unaffiliated
      /\ \A v \in Users : connection[v] = "off"
  BY DEF ClansInit
<1>4. OwnersAgree
  <2> SUFFICES ASSUME NEW c \in ClanIds, clans[c] # None, NEW v \in Users
               PROVE  (users[v].clan = c /\ users[v].priv = Owner) <=> v = clans[c].owner
    BY DEF OwnersAgree
  <2>1. c = 1 /\ clans[c].owner = Founder
    BY <1>2
  <2> QED
    BY <1>3, <2>1, ClansAssumption DEF Unaffiliated, Owner, Member
<1>5. NamesDiffer
  BY <1>2 DEF NamesDiffer
<1>6. CopiesAgreeBut({})
  BY <1>3 DEF CopiesAgreeBut
<1> QED
  BY <1>1, <1>3, <1>4, <1>5, <1>6 DEF OneByOne, SomebodyLogsIn, ClansSettled

LEMMA LoginsOneByOne ==
    ASSUME ClansIInv, OneByOne, NEW u \in Users, BeginLogin(u) \/ FinishLogin(u) \/ EndSession(u)
    PROVE  OneByOne'
<1>1. /\ UNCHANGED <<clans, users, running>> /\ OpenCommands' = OpenCommands
      /\ connection \in [Users -> {"off", "login", "on"}] /\ copy \in [Users -> ClanUsers]
  BY DEF BeginLogin, FinishLogin, EndSession, OpenCommands, ClansIInv
<1>2. OwnersAgree' = OwnersAgree /\ NamesDiffer' = NamesDiffer
  BY <1>1 DEF OwnersAgree, NamesDiffer
<1>3. CASE BeginLogin(u)
  <2>1. /\ connection' = [connection EXCEPT ![u] = "login"] /\ copy' = [copy EXCEPT ![u] = users[u]]
        /\ crossed' = (crossed \/ OpenCommands # {})
    BY <1>3 DEF BeginLogin
  <2>2. ASSUME ~crossed'
        PROVE  ~crossed /\ OpenCommands' = {} /\ ClansSettled'
    <3>1. ~crossed /\ OpenCommands = {} /\ ClansSettled
      BY <2>1, <2>2 DEF OneByOne
    <3>2. CopiesAgreeBut({})'
      BY <1>1, <2>1, <3>1 DEF ClansSettled, CopiesAgreeBut
    <3> QED
      BY <1>1, <1>2, <3>1, <3>2 DEF ClansSettled
  <2> QED
    BY <2>2 DEF OneByOne
<1>4. CASE FinishLogin(u)
  <2>1. /\ connection[u] = "login" /\ connection' = [connection EXCEPT ![u] = "on"]
        /\ UNCHANGED <<copy, crossed>>
    BY <1>4 DEF FinishLogin
  <2>2. ASSUME ~crossed
        PROVE  OpenCommands' = {} /\ ClansSettled'
    <3>1. OpenCommands = {} /\ ClansSettled
      BY <2>1, <2>2 DEF OneByOne, SomebodyLogsIn
    <3>2. CopiesAgreeBut({})'
      BY <1>1, <2>1, <3>1 DEF ClansSettled, CopiesAgreeBut
    <3> QED
      BY <1>1, <1>2, <3>1, <3>2 DEF ClansSettled
  <2> QED
    BY <2>1, <2>2 DEF OneByOne
<1>5. CASE EndSession(u)
  <2>1. /\ connection' = [connection EXCEPT ![u] = "off"]
        /\ copy' = [copy EXCEPT ![u] = Unaffiliated] /\ crossed' = crossed
    BY <1>5 DEF EndSession
  <2>2. ASSUME NEW S, CopiesAgreeBut(S)
        PROVE  \A v \in Users \ S : connection'[v] # "off" => copy'[v] = users'[v]
    BY <1>1, <2>1, <2>2 DEF CopiesAgreeBut
  <2>3. SomebodyLogsIn' => SomebodyLogsIn
    BY <1>1, <2>1 DEF SomebodyLogsIn
  <2>4. ClansSettled => ClansSettled'
    BY <1>2, <2>2 DEF ClansSettled, CopiesAgreeBut
  <2>5. ASSUME NEW k, CommandSound(k)
        PROVE  CommandSound(k)'
    <3>1. StageSound(k)' = StageSound(k) /\ Untold(running[k])' = Untold(running[k])
      BY <1>1 DEF StageSound, Untold, NameTaken
    <3>2. CopiesAgreeBut(Untold(running[k]))'
      BY <2>2, <2>5, <3>1 DEF CommandSound, CopiesAgreeBut
    <3> QED
      BY <1>2, <2>5, <3>1, <3>2 DEF CommandSound
  <2> QED
    BY <1>1, <2>1, <2>3, <2>4, <2>5 DEF OneByOne
<1> QED
  BY <1>3, <1>4, <1>5

\* A command begins where all is settled.
LEMMA RunOneByOne ==
    ASSUME ClansIInv, OneByOne, NEW k \in ClanCommands, NEW u \in Users, NEW j, Run(k, u, j),
           j.at \in {"create player", "disband find", "disband clan", "leave player",
                     "transfer player"}
    PROVE  OneByOne'
<1>1. /\ running[k] = NoCommand /\ running' = [running EXCEPT ![k] = j]
      /\ crossed' = (crossed \/ OpenCommands # {} \/ SomebodyLogsIn)
      /\ UNCHANGED <<clans, users, connection, copy>>
  BY DEF Run, SomebodyLogsIn
<1>2. running'[k] = j /\ OpenCommands' = OpenCommands \cup {k}
  BY <1>1, CommandsAreNotIdle DEF OpenCommands, ClansIInv
<1>3. ASSUME ~crossed'
      PROVE  OpenCommands' = {k} /\ ~SomebodyLogsIn' /\ CommandSound(k)'
  <2>1. ~crossed /\ OpenCommands = {} /\ ~SomebodyLogsIn /\ ClansSettled
    BY <1>1, <1>3 DEF OneByOne
  <2>2. OwnersAgree' /\ NamesDiffer' /\ CopiesAgreeBut({})' /\ ~SomebodyLogsIn'
    BY <1>1, <2>1 DEF ClansSettled, OwnersAgree, NamesDiffer, CopiesAgreeBut, SomebodyLogsIn
  <2>3. Untold(running[k])' = {}
    BY <1>2 DEF Untold
  <2>4. StageSound(k)'
    BY <1>2 DEF StageSound
  <2> QED
    BY <1>2, <2>1, <2>2, <2>3, <2>4 DEF CommandSound
<1> QED
  BY <1>3 DEF OneByOne

LEMMA CommandsStartOneByOne ==
    ASSUME ClansIInv, OneByOne, NEW k \in ClanCommands, NEW u \in Users, Command(k, u)
    PROVE  OneByOne'
<1>1. ASSUME NEW tag, NEW name, Create(k, u, tag, name)
      PROVE  OneByOne'
  BY <1>1, RunOneByOne DEF Create
<1>2. CASE Disband(k, u)
  BY <1>2, RunOneByOne DEF Disband
<1>3. ASSUME NEW tag, DisbandByTag(k, u, tag)
      PROVE  OneByOne'
  BY <1>3, RunOneByOne DEF DisbandByTag
<1>4. CASE LeaveClan(k, u)
  BY <1>4, RunOneByOne DEF LeaveClan
<1>5. ASSUME NEW v, Transfer(k, u, v)
      PROVE  OneByOne'
  BY <1>5, RunOneByOne DEF Transfer
<1> QED
  BY <1>1, <1>2, <1>3, <1>4, <1>5 DEF Command

\* A command goes on, or is answered.
LEMMA CommandGoesOn ==
    ASSUME ClansIInv, OneByOne, NEW k \in ClanCommands, running[k].at # "idle", NEW j,
           Become(k, j), UNCHANGED <<connection, crossed>>,
           ~crossed /\ CommandSound(k) /\ running'[k] = j =>
             IF j = NoCommand THEN ClansSettled' ELSE CommandSound(k)'
    PROVE  OneByOne'
<1>1. running'[k] = j /\ \A m \in ClanCommands \ {k} : running'[m] = running[m]
  BY DEF Become, ClansIInv
<1>2. OpenCommands' = IF j = NoCommand THEN OpenCommands \ {k} ELSE OpenCommands \cup {k}
  BY <1>1 DEF OpenCommands
<1>3. SomebodyLogsIn' = SomebodyLogsIn
  BY DEF SomebodyLogsIn
<1>4. ASSUME ~crossed
      PROVE  OpenCommands = {k} /\ ~SomebodyLogsIn /\ CommandSound(k)
  BY <1>4, OnlyCommand
<1> QED
  BY <1>1, <1>2, <1>3, <1>4 DEF OneByOne

\* A command that only reads.
LEMMA ReadsOneByOne ==
    ASSUME ClansIInv, OneByOne, NEW k \in ClanCommands, running[k].at \notin SyncSteps \cup {"idle"},
           NEW j, Become(k, j), Queried, j = NoCommand \/ j.at \notin SyncSteps,
           ~crossed /\ CommandSound(k) /\ running'[k] = j /\ j # NoCommand => StageSound(k)'
    PROVE  OneByOne'
<1>1. UNCHANGED <<clans, users, copy, connection, crossed>>
  BY DEF Queried
<1>2. ASSUME ~crossed, CommandSound(k), running'[k] = j
      PROVE  IF j = NoCommand THEN ClansSettled' ELSE CommandSound(k)'
  <2>1. OwnersAgree' /\ NamesDiffer' /\ CopiesAgreeBut({})'
    <3>1. Untold(running[k]) = {}
      BY DEF Untold, SyncSteps
    <3>2. OwnersAgree /\ NamesDiffer /\ CopiesAgreeBut({})
      BY <1>2, <3>1 DEF CommandSound
    <3> QED
      BY <1>1, <3>2 DEF OwnersAgree, NamesDiffer, CopiesAgreeBut
  <2>2. CASE j = NoCommand
    BY <2>1, <2>2 DEF ClansSettled
  <2>3. CASE j # NoCommand
    <3>1. Untold(running[k])' = {}
      BY <1>2, <2>3 DEF Untold, SyncSteps
    <3> QED
      BY <1>2, <2>1, <2>3, <3>1 DEF CommandSound
  <2> QED
    BY <2>2, <2>3
<1> QED
  BY <1>1, <1>2, CommandGoesOn DEF SyncSteps

\* The fields of a command that goes on.
LEMMA CommandFields ==
    ASSUME ClansIInv, NEW k \in ClanCommands
    PROVE  /\ running[k].at \in CreateSteps => running[k] \in CreateJobs
           /\ running[k].at \in RemoveSteps => running[k] \in RemoveJobs
           /\ running[k].at \in TransferSteps => running[k] \in TransferJobs
           /\ running[k].at \in CreateSteps \cup RemoveSteps \cup TransferSteps =>
                running[k].by \in Users /\ running[k].clan \in Known
<1>1. running[k] \in CommandTypes
  BY DEF ClansIInv
<1> QED
  BY <1>1, JobByStep DEF CreateJobs, RemoveJobs, TransferJobs

LEMMA CreateJobFields ==
    ASSUME NEW j \in CreateJobs, NEW at, NEW c
    PROVE  /\ [j EXCEPT !.at = at].at = at /\ [j EXCEPT !.at = at, !.clan = c].at = at
           /\ [j EXCEPT !.at = at].by = j.by /\ [j EXCEPT !.at = at, !.clan = c].by = j.by
           /\ [j EXCEPT !.at = at].name = j.name
           /\ [j EXCEPT !.at = at].clan = j.clan /\ [j EXCEPT !.at = at, !.clan = c].clan = c
BY DEF CreateJobs

LEMMA RemoveJobFields ==
    ASSUME NEW j \in RemoveJobs, NEW at, NEW c, NEW found
    PROVE  /\ [j EXCEPT !.at = at].at = at /\ [j EXCEPT !.at = at, !.clan = c].at = at
           /\ [j EXCEPT !.at = at, !.found = found].at = at
           /\ [j EXCEPT !.at = at].by = j.by /\ [j EXCEPT !.at = at, !.clan = c].by = j.by
           /\ [j EXCEPT !.at = at, !.found = found].by = j.by
           /\ [j EXCEPT !.at = at].clan = j.clan /\ [j EXCEPT !.at = at, !.clan = c].clan = c
           /\ [j EXCEPT !.at = at, !.found = found].clan = j.clan
           /\ [j EXCEPT !.at = at].found = j.found
           /\ [j EXCEPT !.at = at, !.found = found].found = found
BY DEF RemoveJobs

LEMMA TransferJobFields ==
    ASSUME NEW j \in TransferJobs, NEW at, NEW c
    PROVE  /\ [j EXCEPT !.at = at].at = at /\ [j EXCEPT !.at = at, !.clan = c].at = at
           /\ [j EXCEPT !.at = at].by = j.by /\ [j EXCEPT !.at = at, !.clan = c].by = j.by
           /\ [j EXCEPT !.at = at].to = j.to /\ [j EXCEPT !.at = at, !.clan = c].to = j.to
           /\ [j EXCEPT !.at = at].clan = j.clan /\ [j EXCEPT !.at = at, !.clan = c].clan = c
BY DEF TransferJobs

\* The steps of create_clan before the transaction.
LEMMA CreateReads ==
    ASSUME ClansIInv, OneByOne, NEW k \in ClanCommands,
           CreatePlayer(k) \/ CreateCurrent(k) \/ CreateName(k) \/ CreateTag(k)
    PROVE  OneByOne'
<1>1. /\ running[k].at \in {"create player", "create current", "create name", "create tag"}
      /\ Queried
  BY DEF CreatePlayer, CreateCurrent, CreateName, CreateTag, CommandAt
<1>2. running[k] \in CreateJobs /\ running[k].by \in Users
  BY <1>1, CommandFields DEF CreateSteps
<1>3. running[k].at \notin SyncSteps \cup {"idle"}
  BY <1>1 DEF SyncSteps
<1>4. UNCHANGED <<clans, users>>
  BY DEF Queried, CreatePlayer, CreateCurrent, CreateName, CreateTag
<1>5. CASE Answer(k)
  BY <1>1, <1>3, <1>5, ReadsOneByOne DEF Answer
<1>6. CASE CreatePlayer(k)
  <2> DEFINE c == users[running[k].by].clan
  <2>1. CASE c = None
    <3>1. PICK j : Become(k, j) /\ j = [running[k] EXCEPT !.at = "create name"]
      BY <1>6, <2>1 DEF CreatePlayer, StepTo
    <3>2. j.at = "create name" /\ j.by = running[k].by
      BY <1>2, <3>1, CreateJobFields
    <3>3. ASSUME running'[k] = j
          PROVE  StageSound(k)'
      BY <1>4, <2>1, <3>2, <3>3 DEF StageSound
    <3> QED
      BY <1>1, <1>3, <3>1, <3>2, <3>3, ReadsOneByOne DEF SyncSteps
  <2>2. CASE c # None
    <3>1. PICK j : Become(k, j) /\ j = [running[k] EXCEPT !.at = "create current", !.clan = c]
      BY <1>6, <2>2 DEF CreatePlayer
    <3>2. j.at = "create current" /\ j.by = running[k].by /\ j.clan = c
      BY <1>2, <3>1, CreateJobFields
    <3>3. ASSUME running'[k] = j
          PROVE  StageSound(k)'
      BY <1>4, <2>2, <3>2, <3>3 DEF StageSound
    <3> QED
      BY <1>1, <1>3, <3>1, <3>2, <3>3, ReadsOneByOne DEF SyncSteps
  <2> QED
    BY <2>1, <2>2
<1>7. CASE CreateCurrent(k) /\ ~Answer(k)
  <2>1. /\ running[k].at = "create current" /\ Clan(running[k].clan) = None
        /\ StepTo(k, "create name")
    BY <1>7 DEF CreateCurrent, CommandAt
  <2>2. PICK j : Become(k, j) /\ j = [running[k] EXCEPT !.at = "create name"]
    BY <2>1 DEF StepTo
  <2>3. j.at = "create name"
    BY <1>2, <2>2, CreateJobFields
  <2>4. ~CommandSound(k)
    BY <1>2, <2>1 DEF CommandSound, StageSound, Clan, ClansIInv, MembersHaveClan
  <2> QED
    BY <1>1, <1>3, <2>2, <2>3, <2>4, ReadsOneByOne DEF SyncSteps
<1>8. CASE CreateName(k) /\ ~Answer(k)
  <2>1. running[k].at = "create name" /\ ~NameTaken(running[k].name) /\ StepTo(k, "create tag")
    BY <1>8 DEF CreateName, CommandAt
  <2>2. PICK j : Become(k, j) /\ j = [running[k] EXCEPT !.at = "create tag"]
    BY <2>1 DEF StepTo
  <2>3. j.at = "create tag" /\ j.by = running[k].by /\ j.name = running[k].name
    BY <1>2, <2>2, CreateJobFields
  <2>4. ASSUME running'[k] = j, CommandSound(k)
        PROVE  StageSound(k)'
    BY <1>4, <2>1, <2>3, <2>4 DEF CommandSound, StageSound, NameTaken
  <2> QED
    BY <1>1, <1>3, <2>2, <2>3, <2>4, ReadsOneByOne DEF SyncSteps
<1>9. CASE CreateTag(k) /\ ~Answer(k)
  <2>1. running[k].at = "create tag" /\ StepTo(k, "create commit")
    BY <1>9 DEF CreateTag, CommandAt
  <2>2. PICK j : Become(k, j) /\ j = [running[k] EXCEPT !.at = "create commit"]
    BY <2>1 DEF StepTo
  <2>3. j.at = "create commit" /\ j.by = running[k].by /\ j.name = running[k].name
    BY <1>2, <2>2, CreateJobFields
  <2>4. ASSUME running'[k] = j, CommandSound(k)
        PROVE  StageSound(k)'
    BY <1>4, <2>1, <2>3, <2>4 DEF CommandSound, StageSound, NameTaken
  <2> QED
    BY <1>1, <1>3, <2>2, <2>3, <2>4, ReadsOneByOne DEF SyncSteps
<1> QED
  BY <1>5, <1>6, <1>7, <1>8, <1>9

\* The new clan has the owner's row, and nobody else's; its name is new.
LEMMA CreateCommitOneByOne ==
    ASSUME ClansIInv, OneByOne, NEW k \in ClanCommands, CreateCommit(k)
    PROVE  OneByOne'
<1>1. running[k].at = "create commit" /\ running[k].at \notin SyncSteps \cup {"idle"}
  BY DEF CreateCommit, CommandAt, SyncSteps
<1>2. running[k] \in CreateJobs /\ running[k].by \in Users
  BY <1>1, CommandFields DEF CreateSteps
<1>3. CASE Answer(k) /\ Queried
  BY <1>1, <1>3, ReadsOneByOne DEF Answer
<1>4. CASE ~(Answer(k) /\ Queried)
  <2>1. PICK u \in Users : u = running[k].by
    BY <1>2
  <2>2. PICK n \in ClanIds : n = lastId + 1 /\ lastId' = n
    BY <1>4 DEF CreateCommit
  <2>3. PICK entry : /\ entry = [name |-> running[k].name, tag |-> running[k].tag, owner |-> u]
                   /\ entry # None
    <3>1. [name |-> running[k].name, tag |-> running[k].tag, owner |-> u]
            \in [name : ClanNames, tag : Tags, owner : Users]
      BY <1>2, <2>1 DEF CreateJobs
    <3> QED
      BY <3>1, ClansAssumption
  <2>4. /\ clans' = [clans EXCEPT ![n] = entry]
        /\ users' = [v \in Users |-> IF v = u THEN [clan |-> n, priv |-> Owner] ELSE users[v]]
        /\ UNCHANGED <<connection, copy, crossed>>
    BY <1>4, <2>1, <2>2, <2>3 DEF CreateCommit, Affiliate
  <2>5. PICK j : Become(k, j) /\ j = [running[k] EXCEPT !.at = "create sync", !.clan = n]
    BY <1>4, <2>2 DEF CreateCommit
  <2>6. j.at = "create sync" /\ j.by = u /\ j.clan = n
    BY <1>2, <2>1, <2>5, CreateJobFields
  <2>7. entry.name = running[k].name /\ entry.owner = u
    BY <2>3
  <2>8. clans[n] = None /\ (\A v \in Users : users[v].clan # n) /\ n # None
    <3>1. lastId \in Nat /\ n \notin Known
      BY <2>2, ClansAssumption DEF ClansIInv, ClanIds, Known
    <3>2. \A v \in Users : users[v].clan \in Known
      BY DEF ClansIInv, ClanUsers
    <3> QED
      BY <3>1, <3>2, IdsAreKnown DEF Known
  <2>9. ASSUME CommandSound(k), running'[k] = j
        PROVE  CommandSound(k)'
    <3>1. /\ OwnersAgree /\ NamesDiffer /\ CopiesAgreeBut({})
          /\ users[u].clan = None /\ ~NameTaken(running[k].name)
      BY <1>1, <2>1, <2>9 DEF CommandSound, StageSound, Untold
    <3>2. \A c \in ClanIds : clans'[c] = IF c = n THEN entry ELSE clans[c]
      BY <2>4 DEF ClansIInv
    <3>3. \A v \in Users : users'[v] = IF v = u THEN [clan |-> n, priv |-> Owner] ELSE users[v]
      BY <2>4
    <3>4. OwnersAgree'
      <4> SUFFICES ASSUME NEW c \in ClanIds, clans'[c] # None, NEW v \in Users
                   PROVE  (users'[v].clan = c /\ users'[v].priv = Owner) <=> v = clans'[c].owner
        BY DEF OwnersAgree
      <4>1. CASE c = n
        BY <2>7, <2>8, <3>2, <3>3, <4>1
      <4>2. CASE c # n
        <5>1. clans'[c] = clans[c] /\ c # None
          BY <3>2, <4>2, ClansAssumption DEF ClanIds
        <5>2. (users[v].clan = c /\ users[v].priv = Owner) <=> v = clans[c].owner
          BY <3>1, <5>1 DEF OwnersAgree
        <5>3. CASE v = u
          BY <3>1, <3>3, <4>2, <5>1, <5>2, <5>3
        <5>4. CASE v # u
          BY <3>3, <5>1, <5>2, <5>4
        <5> QED
          BY <5>3, <5>4
      <4> QED
        BY <4>1, <4>2
    <3>5. NamesDiffer'
      <4> SUFFICES ASSUME NEW c \in ClanIds, NEW d \in ClanIds, clans'[c] # None,
                          clans'[d] # None, clans'[c].name = clans'[d].name
                   PROVE  c = d
        BY DEF NamesDiffer
      <4>1. \A e \in ClanIds : clans[e] # None => clans[e].name # entry.name
        BY <2>7, <3>1 DEF NameTaken
      <4> QED
        BY <3>1, <3>2, <4>1 DEF NamesDiffer
    <3>6. CopiesAgreeBut({u})'
      BY <2>4, <3>1, <3>3 DEF CopiesAgreeBut
    <3>7. Untold(running[k])' = {u}
      BY <2>6, <2>9 DEF Untold
    <3>8. StageSound(k)'
      <4>1. running'[k].at = "create sync" /\ running'[k].by = u /\ running'[k].clan = n
        BY <2>6, <2>9
      <4>2. users'[u] = [clan |-> n, priv |-> Owner]
        BY <3>3
      <4>3. users'[u].clan = n /\ users'[u].priv = Owner
        BY <4>2
      <4> QED
        BY <4>1, <4>3 DEF StageSound
    <3> QED
      BY <3>4, <3>5, <3>6, <3>7, <3>8 DEF CommandSound
  <2>10. j # NoCommand
    BY <2>6, CommandsAreNotIdle
  <2> QED
    BY <1>1, <2>4, <2>5, <2>9, <2>10, CommandGoesOn
<1> QED
  BY <1>3, <1>4

\* What every sync does: the copies of a set of players come to be their rows.
LEMMA SyncOneByOne ==
    ASSUME ClansIInv, OneByOne, NEW k \in ClanCommands, running[k].at \in SyncSteps, Answer(k),
           UNCHANGED <<clans, users, connection, crossed>>,
           ~crossed /\ CommandSound(k) =>
             \A v \in Users : IF v \in Untold(running[k]) /\ connection[v] = "on"
                              THEN copy'[v] = users[v] ELSE copy'[v] = copy[v]
    PROVE  OneByOne'
<1>1. running[k].at # "idle"
  BY DEF SyncSteps
<1>2. ASSUME ~crossed, CommandSound(k)
      PROVE  ClansSettled'
  <2>1. OwnersAgree' /\ NamesDiffer'
    BY <1>2 DEF CommandSound, OwnersAgree, NamesDiffer
  <2>2. \A v \in Users : connection[v] \in {"off", "on"}
    BY <1>1, <1>2, OnlyCommand DEF SomebodyLogsIn, ClansIInv
  <2>3. CopiesAgreeBut({})'
    BY <1>2, <2>2 DEF CommandSound, CopiesAgreeBut
  <2> QED
    BY <2>1, <2>3 DEF ClansSettled
<1> QED
  BY <1>1, <1>2, CommandGoesOn DEF Answer

LEMMA CreateSyncOneByOne ==
    ASSUME ClansIInv, OneByOne, NEW k \in ClanCommands, CreateSync(k)
    PROVE  OneByOne'
<1>1. /\ running[k].at = "create sync" /\ running[k].at \in SyncSteps /\ Answer(k)
      /\ UNCHANGED <<clans, users, connection, crossed>>
  BY DEF CreateSync, CommandAt, SyncSteps
<1>2. PICK u \in Users : u = running[k].by
  BY <1>1, CommandFields DEF CreateSteps
<1>3. PICK entry \in ClanUsers : entry = [clan |-> running[k].clan, priv |-> Owner]
  <2>1. running[k].clan \in Known
    BY <1>1, CommandFields DEF CreateSteps
  <2>2. Owner \in 0..3
    BY DEF Owner
  <2>3. [clan |-> running[k].clan, priv |-> Owner] \in ClanUsers
    BY <2>1, <2>2 DEF ClanUsers
  <2> QED
    BY <2>3
<1>4. \A v \in Users : copy'[v] = IF v = u /\ connection[v] = "on" THEN entry ELSE copy[v]
  BY <1>2, <1>3 DEF CreateSync, Sync
<1>5. Untold(running[k]) = {u}
  BY <1>1, <1>2 DEF Untold
<1>6. CommandSound(k) => entry = users[u]
  <2>1. entry.clan = running[k].clan /\ entry.priv = Owner /\ users[u] \in ClanUsers
    BY <1>3 DEF ClansIInv
  <2> QED
    BY <1>1, <1>2, <2>1, SameRow DEF CommandSound, StageSound
<1> QED
  BY <1>1, <1>4, <1>5, <1>6, SyncOneByOne

\* disband_clan and leave_clan up to the transaction.
LEMMA RemoveReads ==
    ASSUME ClansIInv, OneByOne, NEW k \in ClanCommands,
           \/ DisbandFind(k) \/ DisbandClan(k) \/ DisbandMembers(k)
           \/ LeavePlayer(k) \/ LeaveFind(k) \/ LeaveMembers(k)
    PROVE  OneByOne'
<1>1. /\ running[k].at \in {"disband find", "disband clan", "disband members", "leave player",
                            "leave clan", "leave members"}
      /\ Queried
  BY DEF DisbandFind, DisbandClan, DisbandMembers, LeavePlayer, LeaveFind, LeaveMembers, CommandAt
<1>2. running[k] \in RemoveJobs /\ running[k].by \in Users
  BY <1>1, CommandFields DEF RemoveSteps
<1>3. running[k].at \notin SyncSteps \cup {"idle"}
  BY <1>1 DEF SyncSteps
<1>4. UNCHANGED <<clans, users>>
  BY DEF Queried, DisbandFind, DisbandClan, DisbandMembers, LeavePlayer, LeaveFind, LeaveMembers
<1>5. CASE Answer(k)
  BY <1>1, <1>3, <1>5, ReadsOneByOne DEF Answer
<1>6. CASE (DisbandFind(k) \/ DisbandClan(k)) /\ ~Answer(k)
  <2>1. PICK at \in {"disband clan", "disband members"} : StepTo(k, at)
    BY <1>6 DEF DisbandFind, DisbandClan
  <2>2. PICK j : Become(k, j) /\ j = [running[k] EXCEPT !.at = at]
    BY <2>1 DEF StepTo
  <2>3. j.at = at /\ j.clan = running[k].clan /\ running[k].clan # None
    BY <1>2, <1>6, <2>2, RemoveJobFields DEF DisbandFind, DisbandClan, Clan
  <2>4. ASSUME running'[k] = j
        PROVE  StageSound(k)'
    BY <2>1, <2>3, <2>4 DEF StageSound
  <2> QED
    BY <1>1, <1>3, <2>1, <2>2, <2>3, <2>4, ReadsOneByOne DEF SyncSteps
<1>7. CASE DisbandMembers(k)
  <2> DEFINE found == FetchMembers(running[k].clan, TRUE)
  <2>1. PICK j : Become(k, j) /\ j = [running[k] EXCEPT !.at = "disband commit", !.found = found]
    BY <1>7 DEF DisbandMembers
  <2>2. j.at = "disband commit" /\ j.found = found /\ j.clan = running[k].clan
    BY <1>2, <2>1, RemoveJobFields
  <2>3. \A v \in found : users'[v].clan = running[k].clan
    BY <1>4 DEF FetchMembers
  <2>4. ASSUME running'[k] = j, CommandSound(k)
        PROVE  StageSound(k)'
    <3>1. running[k].clan # None
      BY <1>7, <2>4 DEF CommandSound, StageSound, DisbandMembers, CommandAt
    <3> QED
      BY <2>2, <2>3, <2>4, <3>1 DEF StageSound
  <2> QED
    BY <1>1, <1>3, <2>1, <2>2, <2>4, ReadsOneByOne DEF SyncSteps
<1>8. CASE LeavePlayer(k) /\ ~Answer(k)
  <2> DEFINE entry == users[running[k].by]
  <2>1. /\ entry.priv # Owner
        /\ Become(k, [running[k] EXCEPT !.at = "leave clan", !.clan = entry.clan])
    BY <1>8 DEF LeavePlayer
  <2>2. PICK j : Become(k, j) /\ j = [running[k] EXCEPT !.at = "leave clan", !.clan = entry.clan]
    BY <2>1
  <2>3. j.at = "leave clan" /\ j.by = running[k].by /\ j.clan = entry.clan
    BY <1>2, <2>2, RemoveJobFields
  <2>4. ASSUME running'[k] = j
        PROVE  StageSound(k)'
    BY <1>4, <2>1, <2>3, <2>4 DEF StageSound
  <2> QED
    BY <1>1, <1>3, <2>2, <2>3, <2>4, ReadsOneByOne DEF SyncSteps
<1>9. CASE LeaveFind(k) /\ ~Answer(k)
  <2>1. running[k].at = "leave clan" /\ StepTo(k, "leave members")
    BY <1>9 DEF LeaveFind, CommandAt
  <2>2. PICK j : Become(k, j) /\ j = [running[k] EXCEPT !.at = "leave members"]
    BY <2>1 DEF StepTo
  <2>3. j.at = "leave members" /\ j.by = running[k].by /\ j.clan = running[k].clan
    BY <1>2, <2>2, RemoveJobFields
  <2>4. ASSUME running'[k] = j, CommandSound(k)
        PROVE  StageSound(k)'
    BY <1>4, <2>1, <2>3, <2>4 DEF CommandSound, StageSound
  <2> QED
    BY <1>1, <1>3, <2>2, <2>3, <2>4, ReadsOneByOne DEF SyncSteps
<1>10. CASE LeaveMembers(k)
  <2> DEFINE found == FetchMembers(running[k].clan, TRUE) \ {running[k].by}
  <2>1. /\ running[k].at = "leave members"
        /\ Become(k, [running[k] EXCEPT !.at = "leave commit", !.found = found])
    BY <1>10 DEF LeaveMembers, CommandAt
  <2>2. PICK j : Become(k, j) /\ j = [running[k] EXCEPT !.at = "leave commit", !.found = found]
    BY <2>1
  <2>3. j.at = "leave commit" /\ j.by = running[k].by /\ j.clan = running[k].clan
    BY <1>2, <2>2, RemoveJobFields
  <2>4. ASSUME running'[k] = j, CommandSound(k)
        PROVE  StageSound(k)'
    BY <1>4, <2>1, <2>3, <2>4 DEF CommandSound, StageSound
  <2> QED
    BY <1>1, <1>3, <2>2, <2>3, <2>4, ReadsOneByOne DEF SyncSteps
<1> QED
  BY <1>5, <1>6, <1>7, <1>8, <1>9, <1>10

\* Clans that go, with everybody in them; or somebody who leaves and owns nothing.
LEMMA AffiliationEnds ==
    ASSUME ClansIInv, NEW S \in SUBSET Users, NEW c, NEW gone \in {None, c},
           OwnersAgree, NamesDiffer, CopiesAgreeBut({}),
           \A v \in S : users[v].clan = c /\ (gone = None => users[v].priv # Owner),
           gone # None => gone \in ClanIds /\ \A v \in Users : users[v].clan = gone => v \in S,
           clans' = [clans EXCEPT ![gone] = None], Affiliate(S, Unaffiliated),
           UNCHANGED <<connection, copy>>
    PROVE  /\ OwnersAgree' /\ NamesDiffer' /\ CopiesAgreeBut(S)'
           /\ \A v \in S : users'[v] = Unaffiliated
<1>1. \A v \in Users : users'[v] = IF v \in S THEN Unaffiliated ELSE users[v]
  BY DEF Affiliate
<1>2. \A d \in ClanIds : clans'[d] = IF d = gone THEN None ELSE clans[d]
  BY DEF ClansIInv
<1>3. OwnersAgree'
  <2> SUFFICES ASSUME NEW d \in ClanIds, clans'[d] # None, NEW v \in Users
               PROVE  (users'[v].clan = d /\ users'[v].priv = Owner) <=> v = clans'[d].owner
    BY DEF OwnersAgree
  <2>1. d # gone /\ clans'[d] = clans[d] /\ d # None
    BY <1>2, ClansAssumption DEF ClanIds
  <2>2. (users[v].clan = d /\ users[v].priv = Owner) <=> v = clans[d].owner
    BY <2>1 DEF OwnersAgree
  <2>3. CASE v \in S
    BY <1>1, <2>1, <2>2, <2>3 DEF Unaffiliated
  <2>4. CASE v \notin S
    BY <1>1, <2>1, <2>2, <2>4
  <2> QED
    BY <2>3, <2>4
<1>4. NamesDiffer'
  BY <1>2 DEF NamesDiffer
<1>5. CopiesAgreeBut(S)'
  BY <1>1 DEF CopiesAgreeBut
<1> QED
  BY <1>1, <1>3, <1>4, <1>5

\* The transactions of disband_clan and leave_clan.
LEMMA DisbandCommitOneByOne ==
    ASSUME ClansIInv, OneByOne, NEW k \in ClanCommands, DisbandCommit(k)
    PROVE  OneByOne'
<1>1. /\ running[k].at = "disband commit" /\ running[k].at # "idle"
      /\ clans' = [clans EXCEPT ![running[k].clan] = None]
      /\ Affiliate(running[k].found, Unaffiliated) /\ StepTo(k, "disband sync")
      /\ UNCHANGED <<connection, copy, crossed>>
  BY DEF DisbandCommit, CommandAt
<1>2. running[k] \in RemoveJobs /\ running[k].clan \in Known
  BY <1>1, CommandFields DEF RemoveSteps
<1>3. PICK S \in SUBSET Users : S = running[k].found
  BY <1>2 DEF RemoveJobs
<1>4. PICK j : Become(k, j) /\ j = [running[k] EXCEPT !.at = "disband sync"]
  BY <1>1 DEF StepTo
<1>5. j.at = "disband sync" /\ j.found = S
  BY <1>2, <1>3, <1>4, RemoveJobFields
<1>6. ASSUME CommandSound(k), running'[k] = j
      PROVE  CommandSound(k)'
  <2>1. PICK c \in ClanIds : c = running[k].clan
    <3>1. running[k].clan # None
      BY <1>1, <1>6 DEF CommandSound, StageSound
    <3> QED
      BY <1>2, <3>1, IdsAreKnown
  <2>2. c # None
    BY ClansAssumption DEF ClanIds
  <2>3. /\ OwnersAgree /\ NamesDiffer /\ CopiesAgreeBut({})
        /\ \A v \in S : users[v].clan = c
    BY <1>1, <1>3, <1>6, <2>1 DEF CommandSound, StageSound, Untold
  <2>4. \A v \in Users : users[v].clan = c => v \in S
    <3>1. Fetched(running[k])
      BY DEF ClansIInv
    <3> QED
      BY <1>1, <1>3, <2>1, <2>2, <3>1 DEF Fetched
  <2>5. /\ OwnersAgree' /\ NamesDiffer' /\ CopiesAgreeBut(S)'
        /\ \A v \in S : users'[v] = Unaffiliated
    BY <1>1, <1>3, <2>1, <2>2, <2>3, <2>4, AffiliationEnds
  <2>6. Untold(running[k])' = S
    BY <1>5, <1>6 DEF Untold
  <2>7. StageSound(k)'
    <3>1. \A v \in S : users'[v].clan = None /\ users'[v].priv = 0
      BY <2>5 DEF Unaffiliated
    <3> QED
      BY <1>5, <1>6, <3>1 DEF StageSound
  <2> QED
    BY <2>5, <2>6, <2>7 DEF CommandSound
<1>7. j # NoCommand
  BY <1>5, CommandsAreNotIdle
<1> QED
  BY <1>1, <1>4, <1>6, <1>7, CommandGoesOn

LEMMA LeaveCommitOneByOne ==
    ASSUME ClansIInv, OneByOne, NEW k \in ClanCommands, LeaveCommit(k)
    PROVE  OneByOne'
<1>1. /\ running[k].at = "leave commit" /\ running[k].at # "idle"
      /\ clans' = IF running[k].found = {} THEN [clans EXCEPT ![running[k].clan] = None]
                  ELSE clans
      /\ Affiliate({running[k].by}, Unaffiliated) /\ StepTo(k, "leave sync")
      /\ UNCHANGED <<connection, copy, crossed>>
  BY DEF LeaveCommit, CommandAt
<1>2. running[k] \in RemoveJobs /\ running[k].clan \in Known
  BY <1>1, CommandFields DEF RemoveSteps
<1>3. PICK u \in Users : u = running[k].by
  BY <1>2 DEF RemoveJobs
<1>4. PICK j : Become(k, j) /\ j = [running[k] EXCEPT !.at = "leave sync"]
  BY <1>1 DEF StepTo
<1>5. j.at = "leave sync" /\ j.by = u
  BY <1>2, <1>3, <1>4, RemoveJobFields
<1>6. ASSUME CommandSound(k), running'[k] = j
      PROVE  CommandSound(k)'
  <2> DEFINE c == running[k].clan
  <2>1. /\ OwnersAgree /\ NamesDiffer /\ CopiesAgreeBut({})
        /\ users[u].clan = c /\ users[u].priv # Owner
    BY <1>1, <1>3, <1>6 DEF CommandSound, StageSound, Untold
  <2>2. PICK gone \in {None, c} : clans' = [clans EXCEPT ![gone] = None]
                                  /\ (gone # None => running[k].found = {})
    <3>1. CASE running[k].found = {}
      BY <1>1, <3>1
    <3>2. CASE running[k].found # {}
      <4>1. None \notin ClanIds
        BY ClansAssumption DEF ClanIds
      <4>2. clans = [clans EXCEPT ![None] = None]
        BY <4>1 DEF ClansIInv
      <4> QED
        BY <1>1, <3>2, <4>2
    <3> QED
      BY <3>1, <3>2
  <2>3. gone # None => gone \in ClanIds /\ \A v \in Users : users[v].clan = gone => v = u
    <3> SUFFICES ASSUME gone # None
                 PROVE  gone \in ClanIds /\ \A v \in Users : users[v].clan = gone => v = u
      OBVIOUS
    <3>1. gone = c /\ running[k].found = {} /\ c \in ClanIds
      BY <1>2, <2>2, IdsAreKnown
    <3>2. Fetched(running[k])
      BY DEF ClansIInv
    <3> QED
      BY <1>1, <1>3, <3>1, <3>2 DEF Fetched
  <2>4. PICK S \in SUBSET Users : S = {u}
    OBVIOUS
  <2>5. \A v \in S : users[v].clan = c /\ (gone = None => users[v].priv # Owner)
    BY <2>1, <2>4
  <2>6. Affiliate(S, Unaffiliated) /\ UNCHANGED <<connection, copy>>
    BY <1>1, <1>3, <2>4
  <2>7. /\ OwnersAgree' /\ NamesDiffer' /\ CopiesAgreeBut(S)'
        /\ \A v \in S : users'[v] = Unaffiliated
    <3>1. gone # None => gone \in ClanIds /\ \A v \in Users : users[v].clan = gone => v \in S
      BY <2>3, <2>4
    <3> HIDE DEF c
    <3> QED
      BY <3>1, <2>1, <2>2, <2>5, <2>6, AffiliationEnds
  <2>8. Untold(running[k])' = S
    BY <1>5, <1>6, <2>4 DEF Untold
  <2>9. StageSound(k)'
    <3>1. users'[u].clan = None /\ users'[u].priv = 0
      BY <2>4, <2>7 DEF Unaffiliated
    <3> QED
      BY <1>5, <1>6, <3>1 DEF StageSound
  <2> QED
    BY <2>7, <2>8, <2>9 DEF CommandSound
<1>7. j # NoCommand
  BY <1>5, CommandsAreNotIdle
<1> QED
  BY <1>1, <1>4, <1>6, <1>7, CommandGoesOn

LEMMA RemoveSyncsOneByOne ==
    ASSUME ClansIInv, OneByOne, NEW k \in ClanCommands, DisbandSync(k) \/ LeaveSync(k)
    PROVE  OneByOne'
<1>1. PICK S \in SUBSET Users :
        /\ S = Untold(running[k]) /\ Sync(S, Unaffiliated) /\ Answer(k)
        /\ running[k].at \in {"disband sync", "leave sync"}
        /\ UNCHANGED <<clans, users, connection, crossed>>
  <2>1. CASE DisbandSync(k)
    <3>1. running[k].at = "disband sync" /\ Sync(running[k].found, Unaffiliated) /\ Answer(k)
          /\ UNCHANGED <<clans, users, connection, crossed>>
      BY <2>1 DEF DisbandSync, CommandAt
    <3>2. running[k].found \in SUBSET Users
      BY <3>1, CommandFields DEF RemoveSteps, RemoveJobs
    <3> QED
      BY <3>1, <3>2 DEF Untold
  <2>2. CASE LeaveSync(k)
    <3>1. running[k].at = "leave sync" /\ Sync({running[k].by}, Unaffiliated) /\ Answer(k)
          /\ UNCHANGED <<clans, users, connection, crossed>>
      BY <2>2 DEF LeaveSync, CommandAt
    <3>2. {running[k].by} \in SUBSET Users
      BY <3>1, CommandFields DEF RemoveSteps
    <3> QED
      BY <3>1, <3>2 DEF Untold
  <2> QED
    BY <2>1, <2>2
<1>2. CommandSound(k) => \A v \in S : users[v] = Unaffiliated
  <2>1. CommandSound(k) => \A v \in S : users[v].clan = None /\ users[v].priv = 0
    BY <1>1 DEF CommandSound, StageSound, Untold
  <2>2. Unaffiliated \in ClanUsers /\ Unaffiliated.clan = None /\ Unaffiliated.priv = 0
    BY IdsAreKnown DEF Unaffiliated
  <2>3. \A v \in S : users[v] \in ClanUsers
    BY DEF ClansIInv
  <2> QED
    BY <2>1, <2>2, <2>3, SameRow
<1>3. \A v \in Users : copy'[v] = IF v \in S /\ connection[v] = "on" THEN Unaffiliated ELSE copy[v]
  BY <1>1 DEF Sync
<1>4. running[k].at \in SyncSteps
  BY <1>1 DEF SyncSteps
<1> QED
  BY <1>1, <1>2, <1>3, <1>4, SyncOneByOne


\* transfer_clan_ownership up to the transaction.
LEMMA TransferReads ==
    ASSUME ClansIInv, OneByOne, NEW k \in ClanCommands,
           TransferPlayer(k) \/ TransferFind(k) \/ TransferTarget(k)
    PROVE  OneByOne'
<1>1. /\ running[k].at \in {"transfer player", "transfer clan", "transfer target"}
      /\ running[k].at \notin SyncSteps \cup {"idle"} /\ Queried
  BY DEF TransferPlayer, TransferFind, TransferTarget, CommandAt, SyncSteps
<1>2. running[k] \in TransferJobs
  BY <1>1, CommandFields DEF TransferSteps
<1>3. UNCHANGED <<clans, users>>
  BY DEF Queried, TransferPlayer, TransferFind, TransferTarget
<1>4. CASE Answer(k)
  BY <1>1, <1>4, ReadsOneByOne DEF Answer
<1>5. CASE TransferPlayer(k) /\ ~Answer(k)
  <2> DEFINE entry == users[running[k].by]
  <2>1. /\ entry.clan # None /\ entry.priv = Owner
        /\ Become(k, [running[k] EXCEPT !.at = "transfer clan", !.clan = entry.clan])
    BY <1>5 DEF TransferPlayer
  <2>2. PICK j : Become(k, j) /\ j = [running[k] EXCEPT !.at = "transfer clan", !.clan = entry.clan]
    BY <2>1
  <2>3. j.at = "transfer clan" /\ j.by = running[k].by /\ j.clan = entry.clan
    BY <1>2, <2>2, TransferJobFields
  <2>4. ASSUME running'[k] = j
        PROVE  StageSound(k)'
    BY <1>3, <2>1, <2>3, <2>4 DEF StageSound
  <2> QED
    BY <1>1, <2>2, <2>3, <2>4, ReadsOneByOne DEF SyncSteps
<1>6. CASE TransferFind(k) /\ ~Answer(k)
  <2>1. running[k].at = "transfer clan" /\ StepTo(k, "transfer target")
    BY <1>6 DEF TransferFind, CommandAt
  <2>2. PICK j : Become(k, j) /\ j = [running[k] EXCEPT !.at = "transfer target"]
    BY <2>1 DEF StepTo
  <2>3. j.at = "transfer target" /\ j.by = running[k].by /\ j.clan = running[k].clan
    BY <1>2, <2>2, TransferJobFields
  <2>4. ASSUME running'[k] = j, CommandSound(k)
        PROVE  StageSound(k)'
    BY <1>3, <2>1, <2>3, <2>4 DEF CommandSound, StageSound
  <2> QED
    BY <1>1, <2>2, <2>3, <2>4, ReadsOneByOne DEF SyncSteps
<1>7. CASE TransferTarget(k) /\ ~Answer(k)
  <2>1. /\ running[k].at = "transfer target" /\ StepTo(k, "transfer commit")
        /\ users[running[k].to].clan = running[k].clan /\ running[k].to # running[k].by
    BY <1>7 DEF TransferTarget, CommandAt
  <2>2. PICK j : Become(k, j) /\ j = [running[k] EXCEPT !.at = "transfer commit"]
    BY <2>1 DEF StepTo
  <2>3. /\ j.at = "transfer commit" /\ j.by = running[k].by /\ j.clan = running[k].clan
        /\ j.to = running[k].to
    BY <1>2, <2>2, TransferJobFields
  <2>4. ASSUME running'[k] = j, CommandSound(k)
        PROVE  StageSound(k)'
    BY <1>3, <2>1, <2>3, <2>4 DEF CommandSound, StageSound
  <2> QED
    BY <1>1, <2>2, <2>3, <2>4, ReadsOneByOne DEF SyncSteps
<1> QED
  BY <1>4, <1>5, <1>6, <1>7

\* The rows of the two players and the row of the clan change hands together.
LEMMA TransferCommitOneByOne ==
    ASSUME ClansIInv, OneByOne, NEW k \in ClanCommands, TransferCommit(k)
    PROVE  OneByOne'
<1>1. running[k].at = "transfer commit" /\ running[k].at \notin SyncSteps \cup {"idle"}
  BY DEF TransferCommit, CommandAt, SyncSteps
<1>2. running[k] \in TransferJobs /\ running[k].clan \in Known
  BY <1>1, CommandFields DEF TransferSteps
<1>3. CASE Answer(k) /\ Queried
  BY <1>1, <1>3, ReadsOneByOne DEF Answer
<1>4. CASE ~(Answer(k) /\ Queried)
  <2>1. PICK u \in Users, v \in Users : u = running[k].by /\ v = running[k].to
    BY <1>2 DEF TransferJobs
  <2>2. PICK c \in Known : c = running[k].clan
    BY <1>2
  <2>3. /\ clans' = IF clans[c] = None THEN clans ELSE [clans EXCEPT ![c].owner = v]
        /\ users' = [users EXCEPT ![v].priv = Owner, ![u].priv = Officer]
        /\ StepTo(k, "transfer sync") /\ UNCHANGED <<connection, copy, crossed>>
    BY <1>4, <2>1, <2>2 DEF TransferCommit
  <2>4. PICK j : Become(k, j) /\ j = [running[k] EXCEPT !.at = "transfer sync"]
    BY <2>3 DEF StepTo
  <2>5. j.at = "transfer sync" /\ j.by = u /\ j.to = v /\ j.clan = c
    BY <1>2, <2>1, <2>2, <2>4, TransferJobFields
  <2>6. ASSUME CommandSound(k), running'[k] = j
        PROVE  CommandSound(k)'
    <3>1. /\ OwnersAgree /\ NamesDiffer /\ CopiesAgreeBut({})
          /\ users[u].clan = c /\ c # None /\ users[u].priv = Owner
          /\ users[v].clan = c /\ u # v
      BY <1>1, <2>1, <2>2, <2>6 DEF CommandSound, StageSound, Untold
    <3>2. c \in ClanIds /\ clans[c] # None
      BY <3>1, IdsAreKnown DEF ClansIInv, MembersHaveClan
    <3>3. \A w \in Users :
            /\ users'[w].clan = users[w].clan
            /\ users'[w].priv = IF w = v THEN Owner ELSE IF w = u THEN Officer ELSE users[w].priv
            /\ w \notin {u, v} => users'[w] = users[w]
      <4>1. \A w \in Users, n \in 0..3 : /\ [users[w] EXCEPT !.priv = n].clan = users[w].clan
                                          /\ [users[w] EXCEPT !.priv = n].priv = n
        BY DEF ClansIInv, ClanUsers
      <4>2. Owner \in 0..3 /\ Officer \in 0..3
        BY DEF Owner, Officer
      <4>3. PICK first, second : /\ first = [users[v] EXCEPT !.priv = Owner]
                                 /\ second = [users[u] EXCEPT !.priv = Officer]
        OBVIOUS
      <4>4. PICK given : given = [users EXCEPT ![v] = first]
        OBVIOUS
      <4>5. users' = [given EXCEPT ![u] = [given[u] EXCEPT !.priv = Officer]]
        BY <2>3, <4>3, <4>4
      <4>6. given[u] = users[u]
        BY <3>1, <4>4 DEF ClansIInv
      <4>7. users' = [given EXCEPT ![u] = second]
        BY <4>3, <4>5, <4>6
      <4>8. \A w \in Users : users'[w] = IF w = u THEN second ELSE IF w = v THEN first ELSE users[w]
        BY <4>4, <4>7 DEF ClansIInv
      <4>9. /\ first.clan = users[v].clan /\ first.priv = Owner
            /\ second.clan = users[u].clan /\ second.priv = Officer
        BY <4>1, <4>2, <4>3
      <4> QED
        BY <3>1, <4>8, <4>9
    <3>4. \A d \in ClanIds :
            /\ clans'[d] # None => clans[d] # None /\ clans'[d].name = clans[d].name
            /\ clans'[d] # None => clans'[d].owner = IF d = c THEN v ELSE clans[d].owner
      <4>1. clans[c] \in [name : ClanNames, tag : Tags, owner : Users]
        BY <3>2 DEF ClansIInv
      <4>2. PICK given : /\ given = [clans[c] EXCEPT !.owner = v]
                         /\ given.owner = v /\ given.name = clans[c].name
        <5>1. PICK entry \in [name : ClanNames, tag : Tags, owner : Users] : entry = clans[c]
          BY <4>1
        <5>2. [entry EXCEPT !.owner = v].owner = v /\ [entry EXCEPT !.owner = v].name = entry.name
          OBVIOUS
        <5> QED
          BY <5>1, <5>2
      <4>3. clans' = [clans EXCEPT ![c] = given]
        BY <2>3, <3>2, <4>2 DEF ClansIInv
      <4> QED
        BY <3>2, <4>2, <4>3 DEF ClansIInv
    <3>5. OwnersAgree'
      <4> SUFFICES ASSUME NEW d \in ClanIds, clans'[d] # None, NEW w \in Users
                   PROVE  (users'[w].clan = d /\ users'[w].priv = Owner) <=> w = clans'[d].owner
        BY DEF OwnersAgree
      <4>1. (users[w].clan = d /\ users[w].priv = Owner) <=> w = clans[d].owner
        BY <3>1, <3>4 DEF OwnersAgree
      <4>2. (users[u].clan = d /\ users[u].priv = Owner) <=> u = clans[d].owner
        BY <3>1, <3>4 DEF OwnersAgree
      <4>3. Owner # Officer
        BY DEF Owner, Officer
      <4> QED
        BY <3>1, <3>3, <3>4, <4>1, <4>2, <4>3
    <3>6. NamesDiffer'
      BY <3>1, <3>4 DEF NamesDiffer
    <3>7. CopiesAgreeBut({u, v})'
      BY <2>3, <3>1, <3>3 DEF CopiesAgreeBut
    <3>8. Untold(running[k])' = {u, v}
      BY <2>5, <2>6 DEF Untold
    <3>9. StageSound(k)'
      <4>1. /\ running'[k].at = "transfer sync" /\ running'[k].by = u /\ running'[k].to = v
            /\ running'[k].clan = c
        BY <2>5, <2>6
      <4>2. /\ users'[u].clan = c /\ users'[u].priv = Officer
            /\ users'[v].clan = c /\ users'[v].priv = Owner
        BY <3>1, <3>3
      <4> QED
        BY <3>1, <4>1, <4>2 DEF StageSound
    <3> QED
      BY <3>5, <3>6, <3>7, <3>8, <3>9 DEF CommandSound
  <2>7. j # NoCommand
    BY <2>5, CommandsAreNotIdle
  <2> QED
    BY <1>1, <2>3, <2>4, <2>6, <2>7, CommandGoesOn
<1> QED
  BY <1>3, <1>4

LEMMA TransferSyncOneByOne ==
    ASSUME ClansIInv, OneByOne, NEW k \in ClanCommands, TransferSync(k)
    PROVE  OneByOne'
<1>1. /\ running[k].at = "transfer sync" /\ running[k].at \in SyncSteps /\ Answer(k)
      /\ UNCHANGED <<clans, users, connection, crossed>>
  BY DEF TransferSync, CommandAt, SyncSteps
<1>2. PICK u \in Users, v \in Users : u = running[k].by /\ v = running[k].to
  BY <1>1, CommandFields DEF TransferSteps, TransferJobs
<1>3. running[k].clan \in Known
  BY <1>1, CommandFields DEF TransferSteps
<1>4. Owner \in 0..3 /\ Officer \in 0..3
  BY DEF Owner, Officer
<1>5. PICK first \in ClanUsers, second \in ClanUsers :
        /\ first = [clan |-> running[k].clan, priv |-> Owner]
        /\ second = [clan |-> running[k].clan, priv |-> Officer]
  <2>1. [clan |-> running[k].clan, priv |-> Owner] \in ClanUsers
    BY <1>3, <1>4 DEF ClanUsers
  <2>2. [clan |-> running[k].clan, priv |-> Officer] \in ClanUsers
    BY <1>3, <1>4 DEF ClanUsers
  <2> QED
    BY <2>1, <2>2
<1>6. /\ first.clan = running[k].clan /\ first.priv = Owner
      /\ second.clan = running[k].clan /\ second.priv = Officer
  BY <1>5
<1>7. \A w \in Users : copy'[w] = IF connection[w] = "on" /\ w \in {u, v}
                                  THEN IF w = v THEN first ELSE second ELSE copy[w]
  BY <1>2, <1>5 DEF TransferSync
<1>8. Untold(running[k]) = {u, v}
  BY <1>1, <1>2 DEF Untold
<1>9. CommandSound(k) => u # v /\ first = users[v] /\ second = users[u]
  <2>1. users[u] \in ClanUsers /\ users[v] \in ClanUsers
    BY DEF ClansIInv
  <2> QED
    BY <1>1, <1>2, <1>6, <2>1, SameRow DEF CommandSound, StageSound
<1> QED
  BY <1>1, <1>7, <1>8, <1>9, SyncOneByOne

LEMMA OneByOneInductive == ClansSpec => []OneByOne
<1>1. ASSUME ClansIInv, OneByOne, [ClansNext]_clansVars
      PROVE  OneByOne'
  <2>1. CASE UNCHANGED clansVars
    <3>1. UNCHANGED <<clans, users, copy, connection, running, crossed>>
      BY <2>1 DEF clansVars
    <3>2. /\ OpenCommands' = OpenCommands /\ SomebodyLogsIn' = SomebodyLogsIn
          /\ ClansSettled' = ClansSettled
          /\ \A k \in ClanCommands : CommandSound(k)' = CommandSound(k)
      BY <3>1
      DEF OpenCommands, SomebodyLogsIn, ClansSettled, CommandSound, OwnersAgree, NamesDiffer,
          CopiesAgreeBut, Untold, StageSound, NameTaken
    <3> QED
      BY <1>1, <3>1, <3>2 DEF OneByOne, OpenCommands
  <2>2. ASSUME NEW u \in Users, BeginLogin(u) \/ FinishLogin(u) \/ EndSession(u)
        PROVE  OneByOne'
    BY <1>1, <2>2, LoginsOneByOne
  <2>3. ASSUME NEW k \in ClanCommands, NEW u \in Users, Command(k, u)
        PROVE  OneByOne'
    BY <1>1, <2>3, CommandsStartOneByOne
  <2>4. ASSUME NEW k \in ClanCommands, ProceedCommand(k)
        PROVE  OneByOne'
    BY <1>1, <2>4, CreateReads, CreateCommitOneByOne, CreateSyncOneByOne, RemoveReads,
       DisbandCommitOneByOne, LeaveCommitOneByOne, RemoveSyncsOneByOne, TransferReads,
       TransferCommitOneByOne, TransferSyncOneByOne
    DEF ProceedCommand
  <2> QED
    BY <1>1, <2>1, <2>2, <2>3, <2>4 DEF ClansNext
<1> QED
  BY <1>1, OneByOneInitially, ClansInductive, PTL DEF ClansSpec


-----------------------------------------------------------------------------
\* The variables of the clans keep their types; an id is given out once.
THEOREM ClansTypeCorrect == ClansSpec => []ClansTypeOK
<1>1. ASSUME ClansIInv
      PROVE  ClansTypeOK
  <2>1. Known \subseteq ClanIds \cup {None}
    BY <1>1, IdsAreKnown
  <2>2. \A k \in OpenCommands : running[k].by \in Users /\ running[k].clan \in ClanIds \cup {None}
    BY <1>1, <2>1 DEF ClansIInv, OpenCommands, CommandTypes, CreateJobs, RemoveJobs, TransferJobs
  <2>3. users \in [Users -> Affiliations] /\ copy \in [Users -> Affiliations]
    BY <1>1, <2>1 DEF ClansIInv, ClanUsers, Affiliations
  <2> QED
    BY <1>1, <2>2, <2>3 DEF ClansIInv, ClansTypeOK
<1> QED
  BY <1>1, ClansInductive, PTL

\* However disbands, leaves, creations and transfers interleave, nobody's row names a
\* clan that is gone (services/clans.py disband_clan, leave_clan).
THEOREM NobodyIsInAGoneClan == ClansSpec => []MembersHaveClan
<1>1. ClansIInv => MembersHaveClan
  BY DEF ClansIInv
<1> QED
  BY <1>1, ClansInductive, PTL

\* The commands of clans, interleaved and one by one: nobody is in a clan that is
\* gone; and once all that ran has been answered, with no command open while
\* another, or a login, was, every clan has exactly one owner, who is in it, names
\* are distinct, and players in game carry what their rows say
\* (services/clans.py and the command handlers of app/commands.py).
THEOREM ClansAreSound == ClansSpec => []ClansSound
<1>1. ASSUME ClansIInv, OneByOne
      PROVE  ClansSound
  <2>1. MembersHaveClan
    BY <1>1 DEF ClansIInv
  <2>2. ASSUME ~crossed, OpenCommands = {}
        PROVE  /\ \A c \in ClanIds : clans[c] # None =>
                    /\ {u \in Users : users[u] = [clan |-> c, priv |-> Owner]} = {clans[c].owner}
                    /\ \A d \in ClanIds \ {c} : clans[d] # None => clans[d].name # clans[c].name
               /\ \A u \in Users : connection[u] # "off" => copy[u] = users[u]
    <3>1. OwnersAgree /\ NamesDiffer /\ CopiesAgreeBut({})
      BY <1>1, <2>2 DEF OneByOne, ClansSettled
    <3>2. ASSUME NEW c \in ClanIds, clans[c] # None
          PROVE  {u \in Users : users[u] = [clan |-> c, priv |-> Owner]} = {clans[c].owner}
      <4>1. clans[c] \in [name : ClanNames, tag : Tags, owner : Users] /\ c \in Known
        BY <1>1, <3>2, IdsAreKnown DEF ClansIInv
      <4>2. clans[c].owner \in Users
        BY <4>1
      <4>3. \A u \in Users : (users[u].clan = c /\ users[u].priv = Owner) <=> u = clans[c].owner
        BY <3>1, <3>2 DEF OwnersAgree
      <4>4. Owner \in 0..3
        BY DEF Owner
      <4>5. PICK entry \in ClanUsers : entry = [clan |-> c, priv |-> Owner]
        BY <4>1, <4>4 DEF ClanUsers
      <4>6. entry.clan = c /\ entry.priv = Owner
        BY <4>5
      <4>7. \A u \in Users : users[u] \in ClanUsers
        BY <1>1 DEF ClansIInv
      <4>8. \A u \in Users : users[u] = entry <=> (users[u].clan = c /\ users[u].priv = Owner)
        BY <4>6, <4>7, SameRow
      <4> QED
        BY <4>2, <4>3, <4>5, <4>8
    <3> QED
      BY <3>1, <3>2 DEF NamesDiffer, CopiesAgreeBut
  <2> QED
    BY <2>1, <2>2 DEF ClansSound, SerialClansSound
<1> QED
  BY <1>1, ClansInductive, OneByOneInductive, PTL

-----------------------------------------------------------------------------
(***************************************************************************)
(* Standing. The session, the row, the boards and the client agree only    *)
(* when no job is open, so the invariant says of an open job what it has   *)
(* left to await (its plan, one of those below) and how the four differ    *)
(* until it has: JobSound is Changing, Silencing, Ranking, Moving or       *)
(* Patching, by the kind of job; Settled is what the last step of every    *)
(* plan restores. All of it is claimed while jobs have come one at a time. *)
(***************************************************************************)

-----------------------------------------------------------------------------
(* What a job may have left to await *)

ToRestrict == <<"priv", "global off", "country off", "logout">>
ToUnrank == <<"global off", "country off", "logout">>
ToUnrankAtHome == <<"country off", "logout">>
ToLogOut == <<"logout">>
ToUnrestrict == <<"priv", "global on", "country on", "logout">>
ToRank == <<"global on", "country on", "logout">>
ToRankAtHome == <<"country on", "logout">>
ToReadmit == <<"priv", "logout">>
ToWritePriv == <<"priv">>
ToWriteSilence == <<"silence">>
ToRankScore == <<"global on", "former country on">>
ToRankScoreAtHome == <<"former country on">>
ToMove == <<"country", "remember country", "former country off", "moved on">>
ToMoveUnranked == <<"country", "remember country", "former country off">>
ToRemember == <<"remember country", "former country off", "moved on">>
ToRememberUnranked == <<"remember country", "former country off">>
ToLeave == <<"former country off", "moved on">>
ToLeaveUnranked == <<"former country off">>
ToArrive == <<"moved on">>
ToPatch == <<"given", "remember given">>
ToRememberPatch == <<"remember given">>

Plans ==
    {ToRestrict, ToUnrank, ToUnrankAtHome, ToLogOut, ToUnrestrict, ToRank, ToRankAtHome,
     ToReadmit, ToWritePriv, ToWriteSilence, ToRankScore, ToRankScoreAtHome, ToMove,
     ToMoveUnranked, ToRemember, ToRememberUnranked, ToLeave, ToLeaveUnranked, ToArrive,
     ToPatch, ToRememberPatch}

LEMMA TailOfTwo == ASSUME NEW a, NEW b PROVE Tail(<<a, b>>) = <<b>>
OBVIOUS
LEMMA TailOfThree == ASSUME NEW a, NEW b, NEW c PROVE Tail(<<a, b, c>>) = <<b, c>>
OBVIOUS
LEMMA TailOfFour == ASSUME NEW a, NEW b, NEW c, NEW d PROVE Tail(<<a, b, c, d>>) = <<b, c, d>>
OBVIOUS

LEMMA PlanTails ==
    /\ Tail(ToRestrict) = ToUnrank /\ Tail(ToUnrank) = ToUnrankAtHome
    /\ Tail(ToUnrankAtHome) = ToLogOut
    /\ Tail(ToUnrestrict) = ToRank /\ Tail(ToRank) = ToRankAtHome /\ Tail(ToRankAtHome) = ToLogOut
    /\ Tail(ToReadmit) = ToLogOut
    /\ Tail(ToRankScore) = ToRankScoreAtHome
    /\ Tail(ToMove) = ToRemember /\ Tail(ToRemember) = ToLeave /\ Tail(ToLeave) = ToArrive
    /\ Tail(ToMoveUnranked) = ToRememberUnranked /\ Tail(ToRememberUnranked) = ToLeaveUnranked
    /\ Tail(ToPatch) = ToRememberPatch
<1>1. /\ Tail(ToRestrict) = ToUnrank /\ Tail(ToUnrestrict) = ToRank /\ Tail(ToMove) = ToRemember
  BY TailOfFour DEF ToRestrict, ToUnrank, ToUnrestrict, ToRank, ToMove, ToRemember
<1>2. /\ Tail(ToUnrank) = ToUnrankAtHome /\ Tail(ToRank) = ToRankAtHome
      /\ Tail(ToRemember) = ToLeave /\ Tail(ToMoveUnranked) = ToRememberUnranked
  BY TailOfThree DEF ToUnrank, ToUnrankAtHome, ToRank, ToRankAtHome, ToRemember, ToLeave,
                     ToMoveUnranked, ToRememberUnranked
<1>3. /\ Tail(ToUnrankAtHome) = ToLogOut /\ Tail(ToRankAtHome) = ToLogOut
      /\ Tail(ToReadmit) = ToLogOut /\ Tail(ToRankScore) = ToRankScoreAtHome
  BY TailOfTwo DEF ToUnrankAtHome, ToLogOut, ToRankAtHome, ToReadmit, ToRankScore,
                   ToRankScoreAtHome
<1>4. /\ Tail(ToLeave) = ToArrive /\ Tail(ToRememberUnranked) = ToLeaveUnranked
      /\ Tail(ToPatch) = ToRememberPatch
  BY TailOfTwo DEF ToLeave, ToArrive, ToRememberUnranked, ToLeaveUnranked, ToPatch,
                   ToRememberPatch
<1> QED
  BY <1>1, <1>2, <1>3, <1>4

LEMMA PlanHeads ==
    /\ Head(ToRestrict) = "priv" /\ Head(ToUnrestrict) = "priv" /\ Head(ToReadmit) = "priv"
    /\ Head(ToWritePriv) = "priv"
    /\ Head(ToUnrank) = "global off" /\ Head(ToUnrankAtHome) = "country off"
    /\ Head(ToLogOut) = "logout"
    /\ Head(ToRank) = "global on" /\ Head(ToRankAtHome) = "country on"
    /\ Head(ToWriteSilence) = "silence"
    /\ Head(ToRankScore) = "global on" /\ Head(ToRankScoreAtHome) = "former country on"
    /\ Head(ToMove) = "country" /\ Head(ToMoveUnranked) = "country"
    /\ Head(ToRemember) = "remember country" /\ Head(ToRememberUnranked) = "remember country"
    /\ Head(ToLeave) = "former country off" /\ Head(ToLeaveUnranked) = "former country off"
    /\ Head(ToArrive) = "moved on"
    /\ Head(ToPatch) = "given" /\ Head(ToRememberPatch) = "remember given"
<1>1. /\ Head(ToRestrict) = "priv" /\ Head(ToUnrestrict) = "priv" /\ Head(ToMove) = "country"
  BY DEF ToRestrict, ToUnrestrict, ToMove
<1>2. /\ Head(ToUnrank) = "global off" /\ Head(ToRank) = "global on"
      /\ Head(ToMoveUnranked) = "country" /\ Head(ToRemember) = "remember country"
  BY DEF ToUnrank, ToRank, ToMoveUnranked, ToRemember
<1>3. /\ Head(ToUnrankAtHome) = "country off" /\ Head(ToRankAtHome) = "country on"
      /\ Head(ToReadmit) = "priv" /\ Head(ToRankScore) = "global on"
  BY DEF ToUnrankAtHome, ToRankAtHome, ToReadmit, ToRankScore
<1>4. /\ Head(ToRememberUnranked) = "remember country" /\ Head(ToLeave) = "former country off"
      /\ Head(ToPatch) = "given"
  BY DEF ToRememberUnranked, ToLeave, ToPatch
<1>5. /\ Head(ToLogOut) = "logout" /\ Head(ToWritePriv) = "priv"
      /\ Head(ToWriteSilence) = "silence" /\ Head(ToRankScoreAtHome) = "former country on"
      /\ Head(ToLeaveUnranked) = "former country off" /\ Head(ToArrive) = "moved on"
      /\ Head(ToRememberPatch) = "remember given"
  BY DEF ToLogOut, ToWritePriv, ToWriteSilence, ToRankScoreAtHome, ToLeaveUnranked, ToArrive,
         ToRememberPatch
<1> QED
  BY <1>1, <1>2, <1>3, <1>4, <1>5

\* The plans of one step, after which a job ends.
LastSteps ==
    {ToLogOut, ToWritePriv, ToWriteSilence, ToRankScoreAtHome, ToLeaveUnranked, ToArrive,
     ToRememberPatch}

LEMMA PlanLengths ==
    /\ Len(ToLogOut) = 1 /\ Len(ToWritePriv) = 1 /\ Len(ToWriteSilence) = 1
    /\ Len(ToRankScoreAtHome) = 1 /\ Len(ToLeaveUnranked) = 1 /\ Len(ToArrive) = 1
    /\ Len(ToRememberPatch) = 1 /\ Len(ToRestrict) = 4 /\ Len(ToUnrestrict) = 4
    /\ Len(ToMove) = 4 /\ Len(ToUnrank) = 3 /\ Len(ToRank) = 3
    /\ Len(ToMoveUnranked) = 3 /\ Len(ToRemember) = 3 /\ Len(ToUnrankAtHome) = 2
    /\ Len(ToRankAtHome) = 2 /\ Len(ToReadmit) = 2 /\ Len(ToRankScore) = 2
    /\ Len(ToRememberUnranked) = 2 /\ Len(ToLeave) = 2 /\ Len(ToPatch) = 2
<1>1. /\ Len(ToLogOut) = 1 /\ Len(ToWritePriv) = 1
      /\ Len(ToWriteSilence) = 1 /\ Len(ToRankScoreAtHome) = 1
  BY DEF ToLogOut, ToWritePriv, ToWriteSilence, ToRankScoreAtHome
<1>1a. /\ Len(ToLeaveUnranked) = 1 /\ Len(ToArrive) = 1
      /\ Len(ToRememberPatch) = 1
  BY DEF ToLeaveUnranked, ToArrive, ToRememberPatch
<1>2. /\ Len(ToRestrict) = 4 /\ Len(ToUnrestrict) = 4
      /\ Len(ToMove) = 4
  BY DEF ToRestrict, ToUnrestrict, ToMove
<1>3. /\ Len(ToUnrank) = 3 /\ Len(ToRank) = 3
      /\ Len(ToMoveUnranked) = 3 /\ Len(ToRemember) = 3
  BY DEF ToUnrank, ToRank, ToMoveUnranked, ToRemember
<1>4. /\ Len(ToUnrankAtHome) = 2 /\ Len(ToRankAtHome) = 2
      /\ Len(ToReadmit) = 2 /\ Len(ToRankScore) = 2
  BY DEF ToUnrankAtHome, ToRankAtHome, ToReadmit, ToRankScore
<1>5. /\ Len(ToRememberUnranked) = 2 /\ Len(ToLeave) = 2
      /\ Len(ToPatch) = 2
  BY DEF ToRememberUnranked, ToLeave, ToPatch
<1> QED
  BY <1>1, <1>1a, <1>2, <1>3, <1>4, <1>5

LEMMA PlanEnds == ASSUME NEW todo \in Plans
                  PROVE  /\ todo # <<>>
                         /\ Tail(todo) = <<>> <=> todo \in LastSteps
                         /\ todo \notin LastSteps => Tail(todo) \in Plans
<1>1. Len(todo) \in {1, 2, 3, 4} /\ (Len(todo) = 1 <=> todo \in LastSteps)
  BY PlanLengths DEF Plans, LastSteps
<1>2. \A p \in LastSteps : Tail(p) = <<>>
  <2>1. ASSUME NEW a PROVE Tail(<<a>>) = <<>>
    OBVIOUS
  <2> QED
    BY <2>1 DEF LastSteps, ToLogOut, ToWritePriv, ToWriteSilence, ToRankScoreAtHome,
                ToLeaveUnranked, ToArrive, ToRememberPatch
<1>3. ASSUME todo \notin LastSteps
      PROVE  Tail(todo) \in Plans
  BY <1>3, PlanTails DEF Plans, LastSteps
<1>4. ASSUME NEW p \in Plans
      PROVE  p # <<>>
  <2>1. Len(p) \in {1, 2, 3, 4}
    BY PlanLengths DEF Plans
  <2>2. Len(<<>>) = 0
    OBVIOUS
  <2> QED
    BY <2>1, <2>2
<1> QED
  BY <1>1, <1>2, <1>3, <1>4

-----------------------------------------------------------------------------
(* The inductive invariant *)

JobTypes == [on : {"session", "own"}, obj : Persons, new : Persons, todo : Plans]

StandingShape ==
    /\ row \in [priv : SUBSET Bits, silenced : BOOLEAN, country : Countries]
    /\ session \in {"off", "login", "verifying", "on"}
    /\ player \in Persons
    /\ jobs \in [Jobs -> JobTypes \cup {Idle}]

Tame == ~abroad /\ ~patched
Permitted == "unrestricted" \in row.priv
Ranked == boards \subseteq {"global", row.country}
BoardsAgree == Tame => IF Permitted THEN Ranked ELSE boards = {}

AtHome(p) == ~abroad => p.country = row.country
Matches(p) == p.priv = row.priv /\ p.silenced = row.silenced /\ AtHome(p)
Told == session = "on" /\ ~patched => told = player.priv

\* A job on an object works on that of the session as long as there is one.
Following(k) == jobs[k].on = "session" <=> session = "on"

\* The object has its new privileges, the row has not.
Changing(k) ==
    LET p == Target(k)  todo == jobs[k].todo  allowed == "unrestricted" \in jobs[k].new.priv IN
    /\ Following(k)
    /\ p.priv = jobs[k].new.priv /\ p.silenced = row.silenced /\ AtHome(p)
    /\ BoardsAgree
    /\ \/ todo = ToRestrict /\ ~allowed
       \/ todo \in {ToUnrestrict, ToReadmit} /\ allowed
       \/ todo = ToWritePriv /\ (allowed <=> Permitted)

Silencing(k) ==
    LET p == Target(k) IN
    /\ Following(k)
    /\ p.priv = row.priv /\ p.silenced = jobs[k].new.silenced /\ AtHome(p)
    /\ BoardsAgree /\ Told
    /\ jobs[k].todo = ToWriteSilence

\* Object and row are at one, the boards are not yet.
Ranking(k) ==
    LET todo == jobs[k].todo IN
    /\ Following(k) /\ Matches(Target(k)) /\ Told
    /\ \/ todo = ToUnrank /\ ~Permitted /\ (Tame => Ranked)
       \/ todo = ToUnrankAtHome /\ ~Permitted /\ (Tame => boards \subseteq {row.country})
       \/ todo = ToLogOut /\ BoardsAgree
       \/ todo \in {ToRank, ToRankAtHome} /\ Permitted /\ (Tame => Ranked)
       \/ /\ todo \in {ToRankScore, ToRankScoreAtHome} /\ Permitted
          /\ AtHome(jobs[k].new) /\ (Tame => Ranked)

\* A move has an object of its own; the session, if there is one, is not told of it
\* until the row is written.
Moving(k) ==
    LET todo == jobs[k].todo  former == jobs[k].new.country  country == jobs[k].obj.country IN
    /\ jobs[k].on = "own" /\ Told
    /\ session = "on" => player.priv = row.priv /\ player.silenced = row.silenced
    /\ \/ /\ (todo = ToMove /\ Permitted) \/ (todo = ToMoveUnranked /\ ~Permitted)
          /\ session = "on" => AtHome(player)
          /\ former = row.country /\ BoardsAgree
       \/ /\ (todo = ToRemember /\ Permitted) \/ (todo = ToRememberUnranked /\ ~Permitted)
          /\ country = row.country
          /\ Tame => IF Permitted THEN boards \subseteq {"global", former} ELSE boards = {}
       \/ /\ (todo = ToLeave /\ Permitted) \/ (todo = ToLeaveUnranked /\ ~Permitted)
          /\ session = "on" => AtHome(player)
          /\ country = row.country
          /\ Tame => IF Permitted THEN boards \subseteq {"global", former} ELSE boards = {}
       \/ /\ todo = ToArrive /\ Permitted
          /\ session = "on" => AtHome(player)
          /\ country = row.country
          /\ Tame => boards \subseteq {"global"}

\* A patch: the boards and what the client was told are given up.
Patching(k) ==
    LET given == jobs[k].new IN
    /\ jobs[k].on = "own" /\ patched
    /\ \/ jobs[k].todo = ToPatch /\ (session = "on" => Matches(player))
       \/ /\ jobs[k].todo = ToRememberPatch
          /\ given.priv = row.priv /\ given.country = row.country
          /\ session = "on" => player.silenced = row.silenced

JobSound(k) == Changing(k) \/ Silencing(k) \/ Ranking(k) \/ Moving(k) \/ Patching(k)

\* No job is open.
Settled ==
    /\ session = "on" => Matches(player) /\ Told
    /\ session = "login" => Matches(player) /\ told = player.priv
    /\ session = "verifying" =>
         /\ player.priv = row.priv \cup {"verified"}
         /\ player.silenced = row.silenced /\ AtHome(player)
    /\ BoardsAgree

SerialSound ==
    ~jobsOverlap =>
      /\ \A j, k \in OpenJobs : j = k
      /\ LoggingIn => OpenJobs = {}
      /\ \A k \in OpenJobs : JobSound(k)
      /\ OpenJobs = {} => Settled

StandingIInv == StandingShape /\ SerialSound

LEMMA StandingInitially == StandingInit => StandingIInv
<1> SUFFICES ASSUME StandingInit
             PROVE  StandingIInv
  OBVIOUS
<1>1. Home \in Countries
  BY StandingAssumption
<1>2. row \in [priv : SUBSET Bits, silenced : BOOLEAN, country : Countries]
  BY <1>1 DEF StandingInit, Bits
<1>3. row.priv \subseteq Bits /\ row.silenced \in BOOLEAN
  BY <1>2
<1>4. player \in Persons
  BY <1>1, <1>3 DEF StandingInit, FromRow, Persons
<1>5. OpenJobs = {}
  BY DEF StandingInit, OpenJobs
<1>6. row.country = Home /\ boards = {} /\ session = "off"
  BY DEF StandingInit
<1>7. Settled
  BY <1>6 DEF Settled, BoardsAgree, Ranked, Told
<1> QED
  BY <1>2, <1>4, <1>5, <1>7, <1>6 DEF StandingInit, StandingIInv, StandingShape, SerialSound,
                                      LoggingIn

LEMMA JobsAreNotIdle == ASSUME NEW job \in JobTypes PROVE job # Idle
<1>1. job.todo \in Plans
  BY DEF JobTypes
<1>2. job.todo # <<>>
  BY <1>1, PlanEnds
<1> QED
  BY <1>2 DEF Idle

\* The object made of a row, and that of a session while no job is open.
LEMMA FoundIsSound ==
    ASSUME StandingIInv
    PROVE  /\ FoundPlayer \in Persons
           /\ ~jobsOverlap /\ OpenJobs = {} /\ ~LoggingIn =>
                Matches(FoundPlayer) /\ BoardsAgree /\ Told
<1>1. /\ row.priv \subseteq Bits /\ row.silenced \in BOOLEAN /\ row.country \in Countries
      /\ player \in Persons
  BY DEF StandingIInv, StandingShape
<1>2. FromRow(row.country, FALSE) \in Persons /\ Matches(FromRow(row.country, FALSE))
  BY <1>1 DEF FromRow, Persons, Matches, AtHome
<1>3. ASSUME ~jobsOverlap, OpenJobs = {}, ~LoggingIn
      PROVE  Settled
  BY <1>3 DEF StandingIInv, SerialSound
<1>4. Told \/ session = "on"
  BY DEF Told
<1> QED
  BY <1>1, <1>2, <1>3, <1>4 DEF FoundPlayer, Settled

LEMMA JobBegins ==
    ASSUME StandingIInv, NEW k \in Jobs, NEW job \in JobTypes, BeginJob(k, job),
           player' \in Persons,
           ~jobsOverlap /\ OpenJobs = {} /\ ~LoggingIn /\ jobs'[k] = job => JobSound(k)'
    PROVE  StandingIInv'
<1>1. /\ jobs[k] = Idle /\ jobs' = [jobs EXCEPT ![k] = job]
      /\ jobsOverlap' = (jobsOverlap \/ OpenJobs # {} \/ LoggingIn)
      /\ UNCHANGED <<row, session>>
  BY DEF BeginJob
<1>2. /\ \A j \in Jobs : jobs'[j] = IF j = k THEN job ELSE jobs[j]
      /\ jobs' \in [Jobs -> JobTypes \cup {Idle}]
  BY <1>1 DEF StandingIInv, StandingShape
<1>3. OpenJobs' = OpenJobs \cup {k}
  BY <1>2, JobsAreNotIdle DEF OpenJobs
<1>4. LoggingIn' = LoggingIn
  BY <1>1 DEF LoggingIn
<1>5. StandingShape'
  BY <1>1, <1>2 DEF StandingIInv, StandingShape
<1>6. SerialSound'
  BY <1>1, <1>2, <1>3, <1>4 DEF SerialSound
<1> QED
  BY <1>5, <1>6 DEF StandingIInv

LEMMA ObjectChanges ==
    ASSUME StandingIInv, NEW k \in Jobs, NEW new \in Persons, NEW todo \in Plans,
           Change(k, new, todo),
           ASSUME ~jobsOverlap, Matches(FoundPlayer), BoardsAgree, Told,
                  Target(k)' = new, jobs'[k].new = new, jobs'[k].todo = todo, Following(k)',
                  session' = "on" => player' = new,
                  UNCHANGED <<row, session, told, boards, abroad, patched>>
           PROVE  JobSound(k)'
    PROVE  StandingIInv'
<1> DEFINE job == [on |-> IF session = "on" THEN "session" ELSE "own",
                   obj |-> new, new |-> new, todo |-> todo]
<1>1. /\ BeginJob(k, job)
      /\ player' = IF session = "on" THEN new ELSE player
      /\ patched' = patched
  BY DEF Change
<1>2. job \in JobTypes
  BY DEF JobTypes
<1>3. /\ job.on = IF session = "on" THEN "session" ELSE "own"
      /\ job.obj = new /\ job.new = new /\ job.todo = todo
  OBVIOUS
<1> HIDE DEF job
<1>4. player' \in Persons
  BY <1>1 DEF StandingIInv, StandingShape
<1>5. ASSUME ~jobsOverlap, OpenJobs = {}, ~LoggingIn, jobs'[k] = job
      PROVE  JobSound(k)'
  <2>1. UNCHANGED <<row, session, told, boards, abroad, patched>>
    BY <1>1 DEF BeginJob
  <2>2. Target(k)' = new /\ Following(k)'
    BY <1>1, <1>3, <1>5, <2>1 DEF Target, Following
  <2>3. Matches(FoundPlayer) /\ BoardsAgree /\ Told
    BY <1>5, FoundIsSound
  <2> QED
    BY <1>1, <1>3, <1>5, <2>1, <2>2, <2>3
<1> QED
  BY <1>1, <1>2, <1>4, <1>5, JobBegins

\* What becomes of an object whose privileges change.
LEMMA PrivChanges ==
    ASSUME NEW p \in Persons, NEW bits \in SUBSET Bits
    PROVE  /\ [p EXCEPT !.priv = @ \ bits] \in Persons
           /\ [p EXCEPT !.priv = @ \cup bits] \in Persons
           /\ [p EXCEPT !.priv = @ \ bits].priv = p.priv \ bits
           /\ [p EXCEPT !.priv = @ \cup bits].priv = p.priv \cup bits
           /\ [p EXCEPT !.priv = @ \ bits].silenced = p.silenced
           /\ [p EXCEPT !.priv = @ \cup bits].silenced = p.silenced
           /\ [p EXCEPT !.priv = @ \ bits].country = p.country
           /\ [p EXCEPT !.priv = @ \cup bits].country = p.country
BY DEF Persons

LEMMA RestrictSound ==
    ASSUME StandingIInv, NEW k \in Jobs, RestrictUser(k)
    PROVE  StandingIInv'
<1> DEFINE new == Without({"unrestricted"})
<1>1. Change(k, new, ToRestrict)
  BY DEF RestrictUser, ToRestrict
<1>2. FoundPlayer \in Persons /\ {"unrestricted"} \in SUBSET Bits
  BY FoundIsSound DEF Bits
<1>3. /\ new \in Persons /\ new.priv = FoundPlayer.priv \ {"unrestricted"}
      /\ new.silenced = FoundPlayer.silenced /\ new.country = FoundPlayer.country
  BY <1>2, PrivChanges DEF Without
<1> HIDE DEF new
<1>4. ASSUME ~jobsOverlap, Matches(FoundPlayer), BoardsAgree, Told,
             Target(k)' = new, jobs'[k].new = new, jobs'[k].todo = ToRestrict, Following(k)',
             session' = "on" => player' = new,
             UNCHANGED <<row, session, told, boards, abroad, patched>>
      PROVE  JobSound(k)'
  <2>1. Changing(k)'
    BY <1>3, <1>4 DEF Changing, Matches, AtHome, BoardsAgree, Tame, Permitted, Ranked
  <2> QED
    BY <2>1 DEF JobSound
<1> QED
  BY <1>1, <1>3, <1>4, ObjectChanges DEF Plans

LEMMA UnrestrictSound ==
    ASSUME StandingIInv, NEW k \in Jobs, Unrestrict(k)
    PROVE  StandingIInv'
<1> DEFINE new == With({"unrestricted"})
<1>1. PICK todo \in {ToUnrestrict, ToReadmit} : Change(k, new, todo)
  BY DEF Unrestrict, ToUnrestrict, ToReadmit
<1>2. FoundPlayer \in Persons /\ {"unrestricted"} \in SUBSET Bits
  BY FoundIsSound DEF Bits
<1>3. /\ new \in Persons /\ new.priv = FoundPlayer.priv \cup {"unrestricted"}
      /\ new.silenced = FoundPlayer.silenced /\ new.country = FoundPlayer.country
  BY <1>2, PrivChanges DEF With
<1> HIDE DEF new
<1>4. ASSUME ~jobsOverlap, Matches(FoundPlayer), BoardsAgree, Told,
             Target(k)' = new, jobs'[k].new = new, jobs'[k].todo = todo, Following(k)',
             session' = "on" => player' = new,
             UNCHANGED <<row, session, told, boards, abroad, patched>>
      PROVE  JobSound(k)'
  <2>1. Changing(k)'
    BY <1>1, <1>3, <1>4 DEF Changing, Matches, AtHome, BoardsAgree, Tame, Permitted, Ranked
  <2> QED
    BY <2>1 DEF JobSound
<1> QED
  BY <1>1, <1>3, <1>4, ObjectChanges DEF Plans

LEMMA DonatorSound ==
    ASSUME StandingIInv, NEW k \in Jobs, AddPriv(k) \/ RemovePriv(k)
    PROVE  StandingIInv'
<1>1. PICK new \in {With({"donator"}), Without({"donator"})} : Change(k, new, ToWritePriv)
  BY DEF AddPriv, RemovePriv, ToWritePriv
<1>2. FoundPlayer \in Persons /\ {"donator"} \in SUBSET Bits
  BY FoundIsSound DEF Bits
<1>3. /\ new \in Persons
      /\ new.priv \in {FoundPlayer.priv \cup {"donator"}, FoundPlayer.priv \ {"donator"}}
      /\ new.silenced = FoundPlayer.silenced /\ new.country = FoundPlayer.country
  <2>1. CASE new = With({"donator"})
    BY <1>2, <2>1, PrivChanges DEF With
  <2>2. CASE new = Without({"donator"})
    BY <1>2, <2>2, PrivChanges DEF Without
  <2> QED
    BY <1>1, <2>1, <2>2
<1>4. ASSUME ~jobsOverlap, Matches(FoundPlayer), BoardsAgree, Told,
             Target(k)' = new, jobs'[k].new = new, jobs'[k].todo = ToWritePriv, Following(k)',
             session' = "on" => player' = new,
             UNCHANGED <<row, session, told, boards, abroad, patched>>
      PROVE  JobSound(k)'
  <2>1. Changing(k)'
    BY <1>3, <1>4 DEF Changing, Matches, AtHome, BoardsAgree, Tame, Permitted, Ranked
  <2> QED
    BY <2>1 DEF JobSound
<1> QED
  BY <1>1, <1>3, <1>4, ObjectChanges DEF Plans

LEMMA SilenceSound ==
    ASSUME StandingIInv, NEW k \in Jobs, Silence(k) \/ Unsilence(k)
    PROVE  StandingIInv'
<1>1. PICK b \in BOOLEAN : Change(k, [FoundPlayer EXCEPT !.silenced = b], ToWriteSilence)
  BY DEF Silence, Unsilence, ToWriteSilence
<1> DEFINE new == [FoundPlayer EXCEPT !.silenced = b]
<1>2. FoundPlayer \in Persons
  BY FoundIsSound
<1>3. /\ new \in Persons /\ new.priv = FoundPlayer.priv /\ new.country = FoundPlayer.country
  BY <1>2 DEF Persons
<1>4. Change(k, new, ToWriteSilence)
  BY <1>1
<1> HIDE DEF new
<1>5. ASSUME ~jobsOverlap, Matches(FoundPlayer), BoardsAgree, Told,
             Target(k)' = new, jobs'[k].new = new, jobs'[k].todo = ToWriteSilence, Following(k)',
             session' = "on" => player' = new,
             UNCHANGED <<row, session, told, boards, abroad, patched>>
      PROVE  JobSound(k)'
  <2>1. session = "on" => FoundPlayer = player
    BY DEF FoundPlayer
  <2>2. Told'
    BY <1>3, <1>5, <2>1 DEF Told, Matches
  <2>3. Silencing(k)'
    BY <1>3, <1>5, <2>2 DEF Silencing, Matches, AtHome, BoardsAgree, Tame, Permitted, Ranked
  <2> QED
    BY <2>3 DEF JobSound
<1> QED
  BY <1>3, <1>4, <1>5, ObjectChanges DEF Plans

LEMMA UpdateRankSound ==
    ASSUME StandingIInv, NEW k \in Jobs, UpdateRank(k)
    PROVE  StandingIInv'
<1>1. /\ Change(k, player, ToRankScore)
      /\ session = "on" /\ "unrestricted" \in player.priv
  BY DEF UpdateRank, ToRankScore
<1>2. player \in Persons /\ FoundPlayer = player
  BY <1>1 DEF StandingIInv, StandingShape, FoundPlayer
<1>3. ASSUME ~jobsOverlap, Matches(FoundPlayer), BoardsAgree, Told,
             Target(k)' = player, jobs'[k].new = player, jobs'[k].todo = ToRankScore,
             Following(k)', session' = "on" => player' = player,
             UNCHANGED <<row, session, told, boards, abroad, patched>>
      PROVE  JobSound(k)'
  <2>1. Told'
    BY <1>1, <1>3 DEF Told
  <2>2. Ranking(k)'
    BY <1>1, <1>2, <1>3, <2>1 DEF Ranking, Matches, AtHome, BoardsAgree, Tame, Permitted, Ranked
  <2> QED
    BY <2>2 DEF JobSound
<1> QED
  BY <1>1, <1>2, <1>3, ObjectChanges DEF Plans

LEMMA UpdateCountrySound ==
    ASSUME StandingIInv, NEW k \in Jobs, NEW country \in Countries, UpdateCountry(k, country)
    PROVE  StandingIInv'
<1> DEFINE user == FromRow(row.country, FALSE)
           gone == [user EXCEPT !.country = country]
           todo == IF "unrestricted" \in row.priv THEN ToMove ELSE ToMoveUnranked
           job == [on |-> "own", obj |-> gone, new |-> user, todo |-> todo]
<1>1. BeginJob(k, job) /\ UNCHANGED <<player, patched>>
  BY DEF UpdateCountry, ToMove, ToMoveUnranked
<1>2. /\ row.priv \subseteq Bits /\ row.silenced \in BOOLEAN /\ row.country \in Countries
      /\ player' \in Persons
  BY <1>1 DEF StandingIInv, StandingShape
<1>3. user \in Persons /\ user.country = row.country
  BY <1>2 DEF FromRow, Persons
<1>4. gone \in Persons
  BY <1>3 DEF Persons
<1>5. todo \in Plans
  BY DEF Plans
<1>6. job \in JobTypes
  BY <1>3, <1>4, <1>5 DEF JobTypes
<1>7. job.on = "own" /\ job.new = user /\ job.todo = todo
  OBVIOUS
<1> HIDE DEF job, user
<1>8. ASSUME ~jobsOverlap, OpenJobs = {}, ~LoggingIn, jobs'[k] = job
      PROVE  JobSound(k)'
  <2>1. UNCHANGED <<row, session, told, boards, abroad, patched, player>>
    BY <1>1 DEF BeginJob
  <2>2. Settled
    BY <1>8 DEF StandingIInv, SerialSound
  <2>3. Moving(k)'
    BY <1>3, <1>7, <1>8, <2>1, <2>2
    DEF Moving, Settled, Told, Matches, AtHome, BoardsAgree, Tame, Permitted, Ranked
  <2> QED
    BY <2>3 DEF JobSound
<1> QED
  BY <1>1, <1>2, <1>6, <1>8, JobBegins

LEMMA AdminUpdateSound ==
    ASSUME StandingIInv, NEW k \in Jobs, NEW priv \in SUBSET Bits, NEW country \in Countries,
           AdminUpdate(k, priv, country)
    PROVE  StandingIInv'
<1> DEFINE given == [priv |-> priv, silenced |-> row.silenced, country |-> country, stats |-> FALSE]
           job == [on |-> "own", obj |-> given, new |-> given, todo |-> ToPatch]
<1>1. BeginJob(k, job) /\ player' = player /\ patched' = TRUE
  BY DEF AdminUpdate, ToPatch
<1>2. row.silenced \in BOOLEAN /\ player' \in Persons
  BY <1>1 DEF StandingIInv, StandingShape
<1>3. given \in Persons
  BY <1>2 DEF Persons
<1>4. job \in JobTypes
  BY <1>3 DEF JobTypes, Plans
<1>5. job.on = "own" /\ job.todo = ToPatch
  OBVIOUS
<1> HIDE DEF job, given
<1>6. ASSUME ~jobsOverlap, OpenJobs = {}, ~LoggingIn, jobs'[k] = job
      PROVE  JobSound(k)'
  <2>1. UNCHANGED <<row, session, abroad>>
    BY <1>1 DEF BeginJob
  <2>2. Settled
    BY <1>6 DEF StandingIInv, SerialSound
  <2>3. Patching(k)'
    BY <1>1, <1>5, <1>6, <2>1, <2>2 DEF Patching, Settled, Matches, AtHome
  <2> QED
    BY <2>3 DEF JobSound
<1> QED
  BY <1>1, <1>2, <1>4, <1>6, JobBegins

LEMMA StartSound ==
    ASSUME StandingIInv, NEW k \in Jobs, Start(k)
    PROVE  StandingIInv'
<1>1. ASSUME NEW toggled \in {{}, {"unrestricted"}}
      PROVE  (row.priv \ toggled) \cup (toggled \ row.priv) \in SUBSET Bits
  BY DEF StandingIInv, StandingShape, Bits
<1> QED
  BY <1>1, RestrictSound, UnrestrictSound, DonatorSound, SilenceSound, UpdateRankSound,
     UpdateCountrySound, AdminUpdateSound DEF Start

-----------------------------------------------------------------------------
(* The session *)

LEMMA LoginSound ==
    ASSUME StandingIInv, NEW country \in Countries, Login(country)
    PROVE  StandingIInv'
<1>1. /\ session' = "login" /\ player' = FromRow(country, TRUE) /\ told' = row.priv
      /\ jobsOverlap' = (jobsOverlap \/ OpenJobs # {})
      /\ abroad' = (abroad \/ country # row.country)
      /\ UNCHANGED <<row, boards, jobs, patched>>
  BY DEF Login
<1>2. row.priv \subseteq Bits /\ row.silenced \in BOOLEAN /\ row.country \in Countries
  BY DEF StandingIInv, StandingShape
<1>3. /\ player' \in Persons /\ player'.priv = row.priv /\ player'.silenced = row.silenced
      /\ player'.country = country
  BY <1>1, <1>2 DEF FromRow, Persons
<1>4. StandingShape'
  BY <1>1, <1>3 DEF StandingIInv, StandingShape
<1>5. OpenJobs' = OpenJobs
  BY <1>1 DEF OpenJobs
<1>6. ASSUME ~jobsOverlap'
      PROVE  Settled'
  <2>1. OpenJobs = {} /\ ~jobsOverlap
    BY <1>1, <1>6
  <2>2. BoardsAgree
    BY <2>1 DEF StandingIInv, SerialSound, Settled
  <2>3. BoardsAgree'
    BY <1>1, <2>2 DEF BoardsAgree, Tame, Permitted, Ranked
  <2> QED
    BY <1>1, <1>3, <2>3 DEF Settled, Matches, AtHome
<1>7. SerialSound'
  BY <1>1, <1>5, <1>6 DEF SerialSound, LoggingIn
<1> QED
  BY <1>4, <1>7 DEF StandingIInv

LEMMA VerificationSound ==
    ASSUME StandingIInv, AddVerified \/ WriteVerified \/ Appear
    PROVE  StandingIInv'
<1>1. LoggingIn /\ UNCHANGED <<boards, jobs, jobsOverlap, abroad, patched>>
  BY DEF AddVerified, WriteVerified, Appear, LoggingIn
<1>2. OpenJobs' = OpenJobs
  BY <1>1 DEF OpenJobs
<1>3. /\ row \in [priv : SUBSET Bits, silenced : BOOLEAN, country : Countries]
      /\ player \in Persons /\ player.priv \subseteq Bits
  BY DEF StandingIInv, StandingShape, Persons
<1>4. StandingShape' /\ (~jobsOverlap => Settled')
  <2>1. ~jobsOverlap => Settled
    BY <1>1 DEF StandingIInv, SerialSound
  <2>2. CASE AddVerified
    <3>1. /\ session = "login" /\ session' = "verifying"
          /\ player' = [player EXCEPT !.priv = @ \cup {"verified"}] /\ row' = row
      BY <2>2 DEF AddVerified
    <3>2. /\ player' \in Persons /\ player'.priv = player.priv \cup {"verified"}
          /\ player'.silenced = player.silenced /\ player'.country = player.country
      BY <1>3, <3>1, PrivChanges DEF Bits
    <3> QED
      BY <1>1, <2>1, <3>1, <3>2
      DEF StandingIInv, StandingShape, Settled, Matches, AtHome, BoardsAgree, Tame, Permitted,
          Ranked, Told
  <2>3. CASE WriteVerified
    <3>1. /\ session = "verifying" /\ session' = "login"
          /\ row' = [row EXCEPT !.priv = player.priv] /\ told' = player.priv /\ player' = player
      BY <2>3 DEF WriteVerified
    <3>2. /\ row' \in [priv : SUBSET Bits, silenced : BOOLEAN, country : Countries]
          /\ row'.priv = player.priv /\ row'.silenced = row.silenced /\ row'.country = row.country
      BY <1>3, <3>1
    <3> QED
      BY <1>1, <2>1, <3>1, <3>2
      DEF StandingIInv, StandingShape, Settled, Matches, AtHome, BoardsAgree, Tame, Permitted,
          Ranked, Told
  <2>4. CASE Appear
    <3>1. session = "login" /\ session' = "on" /\ UNCHANGED <<row, player, told>>
      BY <2>4 DEF Appear
    <3> QED
      BY <1>1, <2>1, <3>1
      DEF StandingIInv, StandingShape, Settled, Matches, AtHome, BoardsAgree, Tame, Permitted,
          Ranked, Told
  <2> QED
    BY <2>2, <2>3, <2>4
<1>5. SerialSound'
  BY <1>1, <1>2, <1>4 DEF StandingIInv, SerialSound
<1> QED
  BY <1>4, <1>5 DEF StandingIInv

\* A job whose session ends keeps the object.
LEMMA DetachedJobs ==
    ASSUME StandingIInv, NEW k \in Jobs
    PROVE  /\ Detached(k) \in JobTypes \cup {Idle}
           /\ Detached(k) = Idle <=> jobs[k] = Idle
           /\ jobs[k] # Idle =>
                /\ Detached(k).on = "own" /\ Detached(k).todo = jobs[k].todo
                /\ Detached(k).new = jobs[k].new /\ Detached(k).obj = Target(k)
<1>1. jobs[k] \in JobTypes \cup {Idle} /\ player \in Persons
  BY DEF StandingIInv, StandingShape
<1>2. CASE jobs[k] = Idle
  BY <1>2 DEF Detached
<1>3. CASE jobs[k] # Idle /\ jobs[k].on = "session"
  <2> DEFINE job == [jobs[k] EXCEPT !.on = "own", !.obj = player]
  <2>1. Detached(k) = job
    BY <1>3 DEF Detached
  <2>2. /\ job \in JobTypes /\ job.on = "own" /\ job.todo = jobs[k].todo
        /\ job.new = jobs[k].new /\ job.obj = player
    BY <1>1, <1>3 DEF JobTypes
  <2> HIDE DEF job
  <2> QED
    BY <1>3, <2>1, <2>2, JobsAreNotIdle DEF Target
<1>4. CASE jobs[k] # Idle /\ jobs[k].on # "session"
  BY <1>1, <1>4 DEF Detached, Target, JobTypes
<1> QED
  BY <1>2, <1>3, <1>4

LEMMA LogoutSound ==
    ASSUME StandingIInv, Logout
    PROVE  StandingIInv'
<1>1. /\ session = "on" /\ session' = "off" /\ jobs' = [k \in Jobs |-> Detached(k)]
      /\ UNCHANGED <<row, player, told, boards, jobsOverlap, abroad, patched>>
  BY DEF Logout
<1>2. StandingShape'
  BY <1>1, DetachedJobs DEF StandingIInv, StandingShape
<1>3. OpenJobs' = OpenJobs
  BY <1>1, DetachedJobs DEF OpenJobs
<1>4. ASSUME NEW k \in OpenJobs, JobSound(k)
      PROVE  JobSound(k)'
  <2>1. /\ jobs'[k].on = "own" /\ jobs'[k].todo = jobs[k].todo /\ jobs'[k].new = jobs[k].new
        /\ jobs'[k].obj = Target(k)
    BY <1>1, DetachedJobs DEF OpenJobs
  <2>2. Target(k)' = Target(k)
    BY <2>1 DEF Target
  <2>3. Following(k)' /\ Told'
    BY <1>1, <2>1 DEF Following, Told
  <2>4. CASE Changing(k)
    <3>1. Changing(k)'
      BY <1>1, <2>1, <2>2, <2>3, <2>4
      DEF Changing, Matches, AtHome, BoardsAgree, Tame, Permitted, Ranked
    <3> QED
      BY <3>1 DEF JobSound
  <2>5. CASE Silencing(k)
    <3>1. Silencing(k)'
      BY <1>1, <2>1, <2>2, <2>3, <2>5
      DEF Silencing, Matches, AtHome, BoardsAgree, Tame, Permitted, Ranked
    <3> QED
      BY <3>1 DEF JobSound
  <2>6. CASE Ranking(k)
    <3>1. Ranking(k)'
      BY <1>1, <2>1, <2>2, <2>3, <2>6
      DEF Ranking, Matches, AtHome, BoardsAgree, Tame, Permitted, Ranked
    <3> QED
      BY <3>1 DEF JobSound
  <2>7. CASE Moving(k)
    <3>1. jobs'[k].obj = jobs[k].obj
      BY <2>1, <2>7 DEF Moving, Target
    <3>2. Moving(k)'
      BY <1>1, <2>1, <2>3, <2>7, <3>1
      DEF Moving, Matches, AtHome, BoardsAgree, Tame, Permitted, Ranked
    <3> QED
      BY <3>2 DEF JobSound
  <2>8. CASE Patching(k)
    <3>1. Patching(k)'
      BY <1>1, <2>1, <2>8 DEF Patching
    <3> QED
      BY <3>1 DEF JobSound
  <2> QED
    BY <1>4, <2>4, <2>5, <2>6, <2>7, <2>8 DEF JobSound
<1>5. Settled => Settled'
  BY <1>1 DEF Settled, BoardsAgree, Tame, Permitted, Ranked, Told
<1>6. SerialSound'
  BY <1>1, <1>3, <1>4, <1>5 DEF StandingIInv, SerialSound, LoggingIn
<1> QED
  BY <1>2, <1>6 DEF StandingIInv

\* restrict and unrestrict are done, and the session is theirs to end.
LEMMA LogoutTargetSound ==
    ASSUME StandingIInv, NEW k \in Jobs, LogoutTarget(k)
    PROVE  StandingIInv'
<1>1. /\ jobs[k] # Idle /\ Head(jobs[k].todo) = "logout"
      /\ session' = IF jobs[k].on = "session" THEN "off" ELSE session
      /\ jobs' = [j \in Jobs |-> IF j = k THEN Idle
                                 ELSE IF jobs[k].on = "session" THEN Detached(j) ELSE jobs[j]]
      /\ UNCHANGED <<row, player, told, boards, jobsOverlap, abroad, patched>>
  BY DEF LogoutTarget, Awaits, Rest
<1>2. StandingShape'
  BY <1>1, DetachedJobs DEF StandingIInv, StandingShape
<1>3. OpenJobs' = OpenJobs \ {k}
  BY <1>1, DetachedJobs DEF OpenJobs
<1>4. ASSUME ~jobsOverlap
      PROVE  OpenJobs = {k} /\ JobSound(k) /\ ~LoggingIn
  BY <1>1, <1>4 DEF StandingIInv, SerialSound, OpenJobs
<1>5. ASSUME ~jobsOverlap
      PROVE  Settled'
  <2>1. Ranking(k) /\ BoardsAgree
    BY <1>1, <1>4, <1>5, PlanHeads
    DEF JobSound, Changing, Silencing, Ranking, Moving, Patching
  <2>2. session' = "off"
    BY <1>1, <1>4, <1>5, <2>1 DEF Ranking, Following, LoggingIn, StandingIInv, StandingShape
  <2> QED
    BY <1>1, <2>1, <2>2 DEF Settled, BoardsAgree, Tame, Permitted, Ranked, Told
<1>6. SerialSound'
  BY <1>1, <1>3, <1>4, <1>5 DEF SerialSound, LoggingIn
<1> QED
  BY <1>2, <1>6 DEF StandingIInv

-----------------------------------------------------------------------------
(* What is awaited *)

\* A job that is not at its last step goes on with the rest of its plan.
LEMMA JobGoesOn ==
    ASSUME StandingIInv, NEW k \in Jobs, jobs[k] # Idle, Done(k)
    PROVE  /\ jobs' \in [Jobs -> JobTypes \cup {Idle}]
           /\ jobs[k].todo \in Plans
           /\ OpenJobs' = IF jobs[k].todo \in LastSteps THEN OpenJobs \ {k} ELSE OpenJobs
           /\ jobs[k].todo \notin LastSteps =>
                /\ jobs'[k].todo = Tail(jobs[k].todo) /\ jobs'[k].on = jobs[k].on
                /\ jobs'[k].obj = jobs[k].obj /\ jobs'[k].new = jobs[k].new
<1> DEFINE job == [jobs[k] EXCEPT !.todo = Tail(jobs[k].todo)]
           next == IF jobs[k].todo \in LastSteps THEN Idle ELSE job
<1>1. jobs \in [Jobs -> JobTypes \cup {Idle}] /\ jobs[k] \in JobTypes
  BY DEF StandingIInv, StandingShape
<1>2. jobs[k].todo \in Plans
  BY <1>1 DEF JobTypes
<1>3. /\ Tail(jobs[k].todo) = <<>> <=> jobs[k].todo \in LastSteps
      /\ jobs[k].todo \notin LastSteps => Tail(jobs[k].todo) \in Plans
  BY <1>2, PlanEnds
<1>4. jobs' = [jobs EXCEPT ![k] = IF Tail(jobs[k].todo) = <<>> THEN Idle ELSE job]
  BY Zenon DEF Done
<1>5. jobs' = [jobs EXCEPT ![k] = next]
  BY <1>3, <1>4
<1>6. jobs[k].todo \notin LastSteps =>
        /\ job \in JobTypes /\ job.todo = Tail(jobs[k].todo) /\ job.on = jobs[k].on
        /\ job.obj = jobs[k].obj /\ job.new = jobs[k].new
  BY <1>1, <1>3 DEF JobTypes
<1> HIDE DEF job
<1>7. \A j \in Jobs : jobs'[j] = IF j = k THEN next ELSE jobs[j]
  BY <1>1, <1>5
<1> QED
  BY <1>1, <1>2, <1>5, <1>6, <1>7, JobsAreNotIdle DEF OpenJobs

LEMMA StepSound ==
    ASSUME StandingIInv, NEW k \in Jobs, jobs[k] # Idle, Done(k), Rest, session' = session,
           row' \in [priv : SUBSET Bits, silenced : BOOLEAN, country : Countries],
           player' \in Persons,
           ~jobsOverlap /\ ~LoggingIn /\ JobSound(k) =>
             IF jobs[k].todo \in LastSteps THEN Settled' ELSE JobSound(k)'
    PROVE  StandingIInv'
<1>1. /\ jobs' \in [Jobs -> JobTypes \cup {Idle}]
      /\ OpenJobs' = IF jobs[k].todo \in LastSteps THEN OpenJobs \ {k} ELSE OpenJobs
  BY JobGoesOn
<1>2. StandingShape'
  BY <1>1 DEF StandingIInv, StandingShape
<1>3. ASSUME ~jobsOverlap
      PROVE  OpenJobs = {k} /\ JobSound(k) /\ ~LoggingIn
  BY <1>3 DEF StandingIInv, SerialSound, OpenJobs
<1>4. LoggingIn' = LoggingIn /\ jobsOverlap' = jobsOverlap
  BY DEF LoggingIn, Rest
<1>5. SerialSound'
  BY <1>1, <1>3, <1>4 DEF SerialSound
<1> QED
  BY <1>2, <1>5 DEF StandingIInv

LEMMA WritePrivSound ==
    ASSUME StandingIInv, NEW k \in Jobs, WritePriv(k)
    PROVE  StandingIInv'
<1>1. /\ jobs[k] # Idle /\ Head(jobs[k].todo) = "priv"
      /\ row' = [row EXCEPT !.priv = jobs[k].new.priv]
      /\ told' = IF jobs[k].on = "session" THEN player.priv ELSE told
      /\ Done(k) /\ Rest /\ UNCHANGED <<session, player, boards, abroad, patched>>
  BY DEF WritePriv, Awaits, Rest
<1>2. /\ row \in [priv : SUBSET Bits, silenced : BOOLEAN, country : Countries]
      /\ player \in Persons /\ jobs[k].new.priv \subseteq Bits
  BY <1>1 DEF StandingIInv, StandingShape, JobTypes, Persons
<1>3. /\ row' \in [priv : SUBSET Bits, silenced : BOOLEAN, country : Countries]
      /\ row'.priv = jobs[k].new.priv /\ row'.silenced = row.silenced /\ row'.country = row.country
  BY <1>1, <1>2
<1>4. ASSUME ~jobsOverlap, ~LoggingIn, JobSound(k)
      PROVE  IF jobs[k].todo \in LastSteps THEN Settled' ELSE JobSound(k)'
  <2>1. Changing(k)
    BY <1>1, <1>4, PlanHeads DEF JobSound, Changing, Silencing, Ranking, Moving, Patching
  <2>2. CASE jobs[k].todo = ToWritePriv
    <3>1. session \in {"off", "on"}
      BY <1>4 DEF LoggingIn, StandingIInv, StandingShape
    <3>2. "unrestricted" \in jobs[k].new.priv <=> Permitted
      BY <2>1, <2>2, PlanLengths DEF Changing
    <3>3. BoardsAgree'
      BY <1>1, <1>3, <2>1, <3>2 DEF Changing, BoardsAgree, Tame, Permitted, Ranked
    <3>4. session = "on" => Matches(player)' /\ Told'
      BY <1>1, <1>3, <2>1 DEF Changing, Following, Target, Matches, AtHome, Told
    <3>5. Settled'
      BY <1>1, <3>1, <3>3, <3>4 DEF Settled
    <3> QED
      BY <2>2, <3>5 DEF LastSteps
  <2>3. CASE jobs[k].todo \notin LastSteps
    <3>1. /\ jobs'[k].todo = Tail(jobs[k].todo) /\ jobs'[k].on = jobs[k].on
          /\ jobs'[k].obj = jobs[k].obj /\ jobs'[k].new = jobs[k].new
      BY <1>1, <2>3, JobGoesOn
    <3>2. Target(k)' = Target(k) /\ Following(k)'
      BY <1>1, <2>1, <3>1 DEF Target, Following, Changing
    <3>3. Matches(Target(k))' /\ Told'
      BY <1>1, <1>3, <2>1, <3>2 DEF Changing, Matches, AtHome, Told, Following
    <3>4. jobs[k].todo \in {ToRestrict, ToUnrestrict, ToReadmit}
      BY <2>1, <2>3 DEF Changing, LastSteps
    <3>5. \/ /\ jobs[k].todo = ToRestrict /\ jobs'[k].todo = ToUnrank
             /\ "unrestricted" \notin jobs[k].new.priv
          \/ /\ jobs[k].todo = ToUnrestrict /\ jobs'[k].todo = ToRank
             /\ "unrestricted" \in jobs[k].new.priv
          \/ /\ jobs[k].todo = ToReadmit /\ jobs'[k].todo = ToLogOut
             /\ "unrestricted" \in jobs[k].new.priv
      BY <2>1, <2>3, <3>1, PlanTails DEF Changing, LastSteps
    <3>6. Tame' => Ranked'
      BY <1>1, <1>3, <2>1 DEF Changing, BoardsAgree, Tame, Permitted, Ranked
    <3>7. Permitted' <=> "unrestricted" \in jobs[k].new.priv
      BY <1>3 DEF Permitted
    <3>8. Ranking(k)'
      BY <3>2, <3>3, <3>5, <3>6, <3>7 DEF Ranking, BoardsAgree
    <3> QED
      BY <2>3, <3>8 DEF JobSound
  <2> QED
    <3>1. jobs[k].todo \in LastSteps => jobs[k].todo = ToWritePriv
      BY <1>1, PlanHeads DEF LastSteps
    <3> QED
      BY <2>2, <2>3, <3>1
<1> QED
  BY <1>1, <1>2, <1>3, <1>4, StepSound

LEMMA WriteSilenceSound ==
    ASSUME StandingIInv, NEW k \in Jobs, WriteSilence(k)
    PROVE  StandingIInv'
<1>1. /\ jobs[k] # Idle /\ Head(jobs[k].todo) = "silence"
      /\ row' = [row EXCEPT !.silenced = jobs[k].new.silenced]
      /\ Done(k) /\ Rest /\ UNCHANGED <<session, player, told, boards, abroad, patched>>
  BY DEF WriteSilence, Awaits, Rest
<1>2. /\ row \in [priv : SUBSET Bits, silenced : BOOLEAN, country : Countries]
      /\ player \in Persons /\ jobs[k].new.silenced \in BOOLEAN
  BY <1>1 DEF StandingIInv, StandingShape, JobTypes, Persons
<1>3. /\ row' \in [priv : SUBSET Bits, silenced : BOOLEAN, country : Countries]
      /\ row'.priv = row.priv /\ row'.silenced = jobs[k].new.silenced /\ row'.country = row.country
  BY <1>1, <1>2
<1>4. ASSUME ~jobsOverlap, ~LoggingIn, JobSound(k)
      PROVE  jobs[k].todo \in LastSteps /\ Settled'
  <2>1. Silencing(k)
    BY <1>1, <1>4, PlanHeads DEF JobSound, Changing, Silencing, Ranking, Moving, Patching
  <2>2. session \in {"off", "on"}
    BY <1>4 DEF LoggingIn, StandingIInv, StandingShape
  <2>3. Settled'
    BY <1>1, <1>3, <2>1, <2>2
    DEF Silencing, Settled, Following, Target, Matches, AtHome, BoardsAgree, Tame, Permitted,
        Ranked, Told
  <2> QED
    BY <2>1, <2>3 DEF Silencing, LastSteps
<1> QED
  BY <1>1, <1>2, <1>3, <1>4, StepSound

\* zadd and zrem: nothing but the boards and the plan.
LEMMA BoardSound ==
    ASSUME StandingIInv, NEW k \in Jobs, NEW step, NEW next, Board(k, step, next),
           ~jobsOverlap /\ ~LoggingIn /\ JobSound(k) =>
             IF jobs[k].todo \in LastSteps THEN Settled' ELSE JobSound(k)'
    PROVE  StandingIInv'
<1>1. /\ jobs[k] # Idle /\ Done(k) /\ Rest /\ session' = session /\ row' = row
      /\ player' = player
  BY DEF Board, Awaits
<1>2. row \in [priv : SUBSET Bits, silenced : BOOLEAN, country : Countries] /\ player \in Persons
  BY DEF StandingIInv, StandingShape
<1> QED
  BY <1>1, <1>2, StepSound

\* What a step on the boards leaves as it was.
LEMMA BoardLeaves ==
    ASSUME StandingIInv, NEW k \in Jobs, NEW step, NEW next, Board(k, step, next)
    PROVE  /\ Head(jobs[k].todo) = step /\ boards' = next
           /\ UNCHANGED <<row, session, player, told, abroad, patched>>
           /\ Told => Told'
           /\ jobs[k].todo \notin LastSteps =>
                /\ jobs'[k].todo = Tail(jobs[k].todo) /\ jobs'[k].new = jobs[k].new
                /\ jobs'[k].obj = jobs[k].obj /\ jobs'[k].on = jobs[k].on
                /\ Target(k)' = Target(k) /\ (Following(k) => Following(k)')
                /\ Matches(Target(k)) => Matches(Target(k))'
<1>1. /\ jobs[k] # Idle /\ Head(jobs[k].todo) = step /\ boards' = next /\ Done(k)
      /\ UNCHANGED <<row, session, player, told, abroad, patched>>
  BY DEF Board, Awaits, Rest
<1>2. ASSUME jobs[k].todo \notin LastSteps
      PROVE  /\ jobs'[k].todo = Tail(jobs[k].todo) /\ jobs'[k].new = jobs[k].new
             /\ jobs'[k].obj = jobs[k].obj /\ jobs'[k].on = jobs[k].on
  BY <1>1, <1>2, JobGoesOn
<1>3. ASSUME jobs[k].todo \notin LastSteps
      PROVE  Target(k)' = Target(k) /\ (Following(k) => Following(k)')
  BY <1>1, <1>2, <1>3 DEF Target, Following
<1>4. ASSUME jobs[k].todo \notin LastSteps, Matches(Target(k))
      PROVE  Matches(Target(k))'
  BY <1>1, <1>3, <1>4 DEF Matches, AtHome
<1> QED
  BY <1>1, <1>2, <1>3, <1>4 DEF Told

LEMMA RankingStages ==
    ASSUME NEW k \in Jobs, JobSound(k)
    PROVE  /\ Head(jobs[k].todo) = "global off" =>
                Ranking(k) /\ jobs[k].todo = ToUnrank /\ jobs[k].todo \notin LastSteps
           /\ Head(jobs[k].todo) = "country off" =>
                Ranking(k) /\ jobs[k].todo = ToUnrankAtHome /\ jobs[k].todo \notin LastSteps
           /\ Head(jobs[k].todo) = "country on" =>
                Ranking(k) /\ jobs[k].todo = ToRankAtHome /\ jobs[k].todo \notin LastSteps
           /\ Head(jobs[k].todo) = "global on" =>
                /\ Ranking(k) /\ jobs[k].todo \in {ToRank, ToRankScore}
                /\ jobs[k].todo \notin LastSteps
                /\ jobs[k].todo = ToRankScore => AtHome(jobs[k].new)
           /\ Head(jobs[k].todo) = "former country on" =>
                Ranking(k) /\ jobs[k].todo = ToRankScoreAtHome
<1>1. ASSUME Head(jobs[k].todo) \in
               {"global off", "country off", "country on", "global on", "former country on"}
      PROVE  Ranking(k)
  BY <1>1, PlanHeads DEF JobSound, Changing, Silencing, Moving, Patching
<1>2. ToUnrank \notin LastSteps /\ ToUnrankAtHome \notin LastSteps
      /\ ToRankAtHome \notin LastSteps /\ ToRank \notin LastSteps /\ ToRankScore \notin LastSteps
  BY PlanHeads DEF LastSteps
<1>3. ToRank # ToRankScore
  BY PlanLengths
<1> QED
  BY <1>1, <1>2, <1>3, PlanHeads DEF Ranking

LEMMA RankingBoards ==
    ASSUME StandingIInv, NEW k \in Jobs,
           GlobalOff(k) \/ GlobalOn(k) \/ CountryOff(k) \/ CountryOn(k) \/ FormerCountryOn(k)
    PROVE  StandingIInv'
<1>1. CASE GlobalOff(k)
  <2> DEFINE next == boards \ {"global"}
  <2>1. Board(k, "global off", next)
    BY <1>1 DEF GlobalOff
  <2>0. /\ Head(jobs[k].todo) = "global off" /\ boards' = next
        /\ UNCHANGED <<row, session, player, told, abroad, patched>>
    BY <2>1, BoardLeaves
  <2>2. ASSUME JobSound(k)
        PROVE  jobs[k].todo \notin LastSteps /\ JobSound(k)'
    <3>1. Ranking(k) /\ jobs[k].todo = ToUnrank /\ jobs[k].todo \notin LastSteps
      BY <2>0, <2>2, RankingStages
    <3>2. jobs'[k].todo = ToUnrankAtHome
      BY <2>1, <3>1, BoardLeaves, PlanTails
    <3>3. ~Permitted /\ (Tame => boards \subseteq {"global", row.country})
      BY <3>1, PlanHeads DEF Ranking, Ranked
    <3>4. ~Permitted' /\ (Tame' => boards' \subseteq {row'.country})
      BY <2>0, <3>3 DEF Permitted, Tame
    <3>5. Ranking(k)'
      BY <2>1, <3>1, <3>2, <3>4, BoardLeaves DEF Ranking
    <3> QED
      BY <3>1, <3>5 DEF JobSound
  <2> QED
    BY <2>1, <2>2, BoardSound
<1>2. CASE CountryOff(k)
  <2> DEFINE next == boards \ {Target(k).country}
  <2>1. Board(k, "country off", next)
    BY <1>2 DEF CountryOff
  <2>0. /\ Head(jobs[k].todo) = "country off" /\ boards' = next
        /\ UNCHANGED <<row, session, player, told, abroad, patched>>
    BY <2>1, BoardLeaves
  <2>2. ASSUME JobSound(k)
        PROVE  jobs[k].todo \notin LastSteps /\ JobSound(k)'
    <3>1. Ranking(k) /\ jobs[k].todo = ToUnrankAtHome /\ jobs[k].todo \notin LastSteps
      BY <2>0, <2>2, RankingStages
    <3>2. jobs'[k].todo = ToLogOut
      BY <2>1, <3>1, BoardLeaves, PlanTails
    <3>3. ~Permitted /\ (Tame => boards \subseteq {row.country} /\ Target(k).country = row.country)
      BY <3>1, PlanHeads DEF Ranking, Matches, AtHome, Tame
    <3>4. BoardsAgree'
      BY <2>0, <3>3 DEF Permitted, Tame, BoardsAgree
    <3>5. Ranking(k)'
      BY <2>1, <3>1, <3>2, <3>4, BoardLeaves DEF Ranking
    <3> QED
      BY <3>1, <3>5 DEF JobSound
  <2> QED
    BY <2>1, <2>2, BoardSound
<1>3. CASE CountryOn(k)
  <2> DEFINE next == boards \cup {Target(k).country}
  <2>1. Board(k, "country on", next)
    BY <1>3 DEF CountryOn
  <2>0. /\ Head(jobs[k].todo) = "country on" /\ boards' = next
        /\ UNCHANGED <<row, session, player, told, abroad, patched>>
    BY <2>1, BoardLeaves
  <2>2. ASSUME JobSound(k)
        PROVE  jobs[k].todo \notin LastSteps /\ JobSound(k)'
    <3>1. Ranking(k) /\ jobs[k].todo = ToRankAtHome /\ jobs[k].todo \notin LastSteps
      BY <2>0, <2>2, RankingStages
    <3>2. jobs'[k].todo = ToLogOut
      BY <2>1, <3>1, BoardLeaves, PlanTails
    <3>3. Permitted /\ (Tame => Ranked /\ Target(k).country = row.country)
      BY <3>1, PlanHeads DEF Ranking, Matches, AtHome, Tame
    <3>4. BoardsAgree'
      BY <2>0, <3>3 DEF Permitted, Tame, BoardsAgree, Ranked
    <3>5. Ranking(k)'
      BY <2>1, <3>1, <3>2, <3>4, BoardLeaves DEF Ranking
    <3> QED
      BY <3>1, <3>5 DEF JobSound
  <2> QED
    BY <2>1, <2>2, BoardSound
<1>4. CASE GlobalOn(k)
  <2> DEFINE next == boards \cup {"global"}
  <2>1. Board(k, "global on", next)
    BY <1>4 DEF GlobalOn
  <2>0. /\ Head(jobs[k].todo) = "global on" /\ boards' = next
        /\ UNCHANGED <<row, session, player, told, abroad, patched>>
    BY <2>1, BoardLeaves
  <2>2. ASSUME JobSound(k)
        PROVE  jobs[k].todo \notin LastSteps /\ JobSound(k)'
    <3>1. /\ Ranking(k) /\ jobs[k].todo \in {ToRank, ToRankScore}
          /\ jobs[k].todo \notin LastSteps
      BY <2>0, <2>2, RankingStages
    <3>2. jobs'[k].todo = Tail(jobs[k].todo) /\ jobs'[k].new = jobs[k].new
      BY <2>1, <3>1, BoardLeaves
    <3>3. Permitted /\ (Tame => Ranked)
      BY <3>1, PlanHeads DEF Ranking
    <3>4. Permitted' /\ (Tame' => Ranked')
      BY <2>0, <3>3 DEF Permitted, Tame, Ranked
    <3>5. jobs[k].todo = ToRankScore => AtHome(jobs[k].new)
      BY <2>0, <2>2, RankingStages
    <3>6. jobs[k].todo = ToRankScore => AtHome(jobs[k].new)'
      BY <2>0, <3>2, <3>5 DEF AtHome
    <3>7. Ranking(k)'
      BY <2>1, <3>1, <3>2, <3>4, <3>6, BoardLeaves, PlanTails DEF Ranking
    <3> QED
      BY <3>1, <3>7 DEF JobSound
  <2> QED
    BY <2>1, <2>2, BoardSound
<1>5. CASE FormerCountryOn(k)
  <2> DEFINE next == boards \cup {jobs[k].new.country}
  <2>1. Board(k, "former country on", next)
    BY <1>5 DEF FormerCountryOn
  <2>0. /\ Head(jobs[k].todo) = "former country on" /\ boards' = next
        /\ UNCHANGED <<row, session, player, told, abroad, patched>>
    BY <2>1, BoardLeaves
  <2>2. ASSUME ~LoggingIn, JobSound(k)
        PROVE  jobs[k].todo \in LastSteps /\ Settled'
    <3>1. Ranking(k) /\ jobs[k].todo = ToRankScoreAtHome
      BY <2>0, <2>2, RankingStages
    <3>2. Permitted /\ (Tame => Ranked) /\ AtHome(jobs[k].new)
      BY <3>1, PlanHeads DEF Ranking
    <3>3. BoardsAgree'
      BY <2>0, <3>2 DEF Permitted, Tame, BoardsAgree, Ranked, AtHome
    <3>4. session \in {"off", "on"}
      BY <2>2 DEF LoggingIn, StandingIInv, StandingShape
    <3>5. (session = "on" => Matches(player)) /\ Told
      BY <3>1 DEF Ranking, Following, Target
    <3>6. (session = "on" => Matches(player)') /\ Told'
      BY <2>0, <3>5 DEF Matches, AtHome, Told
    <3>7. Settled'
      BY <2>0, <3>3, <3>4, <3>6 DEF Settled
    <3> QED
      BY <3>1, <3>7 DEF LastSteps
  <2> QED
    BY <2>1, <2>2, BoardSound
<1> QED
  BY <1>1, <1>2, <1>3, <1>4, <1>5

\* The stages of a move and of a patch.
LEMMA MovingStages ==
    ASSUME NEW k \in Jobs, JobSound(k)
    PROVE  /\ Head(jobs[k].todo) \in {"country", "remember country", "former country off", "moved on"}
                => Moving(k)
           /\ Head(jobs[k].todo) \in {"given", "remember given"} => Patching(k)
<1>1. ASSUME Head(jobs[k].todo) \in {"country", "remember country", "former country off", "moved on"}
      PROVE  Moving(k)
  BY <1>1, PlanHeads DEF JobSound, Changing, Silencing, Ranking, Patching
<1>2. ASSUME Head(jobs[k].todo) \in {"given", "remember given"}
      PROVE  Patching(k)
  BY <1>2, PlanHeads DEF JobSound, Changing, Silencing, Ranking, Moving
<1> QED
  BY <1>1, <1>2

LEMMA NotLast ==
    /\ ToMove \notin LastSteps /\ ToMoveUnranked \notin LastSteps /\ ToRemember \notin LastSteps
    /\ ToRememberUnranked \notin LastSteps /\ ToLeave \notin LastSteps /\ ToPatch \notin LastSteps
BY PlanLengths DEF LastSteps

LEMMA WriteCountrySound ==
    ASSUME StandingIInv, NEW k \in Jobs, WriteCountry(k)
    PROVE  StandingIInv'
<1>1. /\ jobs[k] # Idle /\ Head(jobs[k].todo) = "country"
      /\ row' = [row EXCEPT !.country = jobs[k].obj.country]
      /\ Done(k) /\ Rest /\ UNCHANGED <<session, player, told, boards, abroad, patched>>
  BY DEF WriteCountry, Awaits, Rest
<1>2. /\ row \in [priv : SUBSET Bits, silenced : BOOLEAN, country : Countries]
      /\ player \in Persons /\ jobs[k].obj.country \in Countries
  BY <1>1 DEF StandingIInv, StandingShape, JobTypes, Persons
<1>3. /\ row' \in [priv : SUBSET Bits, silenced : BOOLEAN, country : Countries]
      /\ row'.priv = row.priv /\ row'.silenced = row.silenced
      /\ row'.country = jobs[k].obj.country
  BY <1>1, <1>2
<1>4. ASSUME JobSound(k)
      PROVE  jobs[k].todo \notin LastSteps /\ JobSound(k)'
  <2>1. Moving(k)
    BY <1>1, <1>4, MovingStages
  <2>2. /\ jobs[k].on = "own" /\ Told
        /\ session = "on" => player.priv = row.priv /\ player.silenced = row.silenced
        /\ (jobs[k].todo = ToMove /\ Permitted) \/ (jobs[k].todo = ToMoveUnranked /\ ~Permitted)
        /\ jobs[k].new.country = row.country /\ BoardsAgree
    BY <1>1, <2>1, PlanHeads DEF Moving
  <2>3. jobs[k].todo \notin LastSteps
    BY <2>2, NotLast
  <2>4. /\ jobs'[k].todo = Tail(jobs[k].todo) /\ jobs'[k].on = jobs[k].on
        /\ jobs'[k].obj = jobs[k].obj /\ jobs'[k].new = jobs[k].new
    BY <1>1, <2>3, JobGoesOn
  <2>5. Permitted' = Permitted /\ Told'
    BY <1>1, <1>3, <2>2 DEF Permitted, Told
  <2>6. Tame' => IF Permitted THEN boards' \subseteq {"global", jobs'[k].new.country}
                 ELSE boards' = {}
    BY <1>1, <2>2, <2>4 DEF BoardsAgree, Tame, Ranked
  <2>7. Moving(k)'
    BY <1>1, <1>3, <2>2, <2>4, <2>5, <2>6, PlanTails DEF Moving
  <2> QED
    BY <2>3, <2>7 DEF JobSound
<1> QED
  BY <1>1, <1>2, <1>3, <1>4, StepSound

LEMMA RememberCountrySound ==
    ASSUME StandingIInv, NEW k \in Jobs, RememberCountry(k)
    PROVE  StandingIInv'
<1>1. /\ jobs[k] # Idle /\ Head(jobs[k].todo) = "remember country"
      /\ player' = IF session = "on" THEN [player EXCEPT !.country = jobs[k].obj.country]
                   ELSE player
      /\ Done(k) /\ Rest /\ UNCHANGED <<row, session, told, boards, abroad, patched>>
  BY DEF RememberCountry, Awaits, Rest
<1>2. /\ row \in [priv : SUBSET Bits, silenced : BOOLEAN, country : Countries]
      /\ player \in Persons /\ jobs[k].obj.country \in Countries
  BY <1>1 DEF StandingIInv, StandingShape, JobTypes, Persons
<1>3. /\ player' \in Persons /\ player'.priv = player.priv /\ player'.silenced = player.silenced
      /\ session = "on" => player'.country = jobs[k].obj.country
  BY <1>1, <1>2 DEF Persons
<1>4. ASSUME JobSound(k)
      PROVE  jobs[k].todo \notin LastSteps /\ JobSound(k)'
  <2>1. Moving(k)
    BY <1>1, <1>4, MovingStages
  <2>2. /\ jobs[k].on = "own" /\ Told
        /\ session = "on" => player.priv = row.priv /\ player.silenced = row.silenced
        /\ \/ jobs[k].todo = ToRemember /\ Permitted
           \/ jobs[k].todo = ToRememberUnranked /\ ~Permitted
        /\ jobs[k].obj.country = row.country
        /\ Tame => IF Permitted THEN boards \subseteq {"global", jobs[k].new.country}
                   ELSE boards = {}
    BY <1>1, <2>1, PlanHeads DEF Moving
  <2>3. jobs[k].todo \notin LastSteps
    BY <2>2, NotLast
  <2>4. /\ jobs'[k].todo = Tail(jobs[k].todo) /\ jobs'[k].on = jobs[k].on
        /\ jobs'[k].obj = jobs[k].obj /\ jobs'[k].new = jobs[k].new
    BY <1>1, <2>3, JobGoesOn
  <2>5. Permitted' = Permitted /\ Told' /\ Tame' = Tame
    BY <1>1, <1>3, <2>2 DEF Permitted, Told, Tame
  <2>6. session = "on" => AtHome(player)'
    BY <1>1, <1>3, <2>2 DEF AtHome
  <2>7. Moving(k)'
    BY <1>1, <1>3, <2>2, <2>4, <2>5, <2>6, PlanTails DEF Moving
  <2> QED
    BY <2>3, <2>7 DEF JobSound
<1> QED
  BY <1>1, <1>2, <1>3, <1>4, StepSound

LEMMA MovingBoards ==
    ASSUME StandingIInv, NEW k \in Jobs, FormerCountryOff(k) \/ MovedOn(k)
    PROVE  StandingIInv'
<1>1. CASE FormerCountryOff(k)
  <2> DEFINE next == boards \ {jobs[k].new.country}
  <2>1. Board(k, "former country off", next)
    BY <1>1 DEF FormerCountryOff
  <2>2. /\ Head(jobs[k].todo) = "former country off" /\ boards' = next
        /\ UNCHANGED <<row, session, player, told, abroad, patched>>
    BY <2>1, BoardLeaves
  <2>3. ASSUME ~LoggingIn, JobSound(k)
        PROVE  IF jobs[k].todo \in LastSteps THEN Settled' ELSE JobSound(k)'
    <3>1. Moving(k)
      BY <2>2, <2>3, MovingStages
    <3>2. /\ jobs[k].on = "own" /\ Told
          /\ session = "on" => Matches(player)
          /\ \/ jobs[k].todo = ToLeave /\ Permitted
             \/ jobs[k].todo = ToLeaveUnranked /\ ~Permitted
          /\ jobs[k].obj.country = row.country
          /\ Tame => IF Permitted THEN boards \subseteq {"global", jobs[k].new.country}
                     ELSE boards = {}
      BY <2>2, <3>1, PlanHeads DEF Moving, Matches
    <3>3. Permitted' = Permitted /\ Told' /\ Tame' = Tame /\ (session' = "on" => Matches(player)')
      BY <2>2, <3>2 DEF Permitted, Told, Tame, Matches, AtHome
    <3>4. Tame' => boards' \subseteq {"global"} /\ (~Permitted => boards' = {})
      BY <2>2, <3>2, <3>3
    <3>5. CASE jobs[k].todo = ToLeave
      <4>1. jobs[k].todo \notin LastSteps /\ Permitted
        <5>1. ToLeave # ToLeaveUnranked
          BY PlanLengths
        <5> QED
          BY <3>2, <3>5, <5>1, NotLast
      <4>2. /\ jobs'[k].todo = ToArrive /\ jobs'[k].on = jobs[k].on
            /\ jobs'[k].obj = jobs[k].obj
        BY <2>1, <3>5, <4>1, BoardLeaves, PlanTails
      <4>3. Moving(k)'
        BY <2>2, <3>2, <3>3, <3>4, <4>1, <4>2 DEF Moving, Matches
      <4> QED
        BY <4>1, <4>3 DEF JobSound
    <3>6. CASE jobs[k].todo = ToLeaveUnranked
      <4>1. jobs[k].todo \in LastSteps /\ ~Permitted
        <5>1. ToLeave # ToLeaveUnranked
          BY PlanLengths
        <5> QED
          BY <3>2, <3>6, <5>1 DEF LastSteps
      <4>2. session' \in {"off", "on"}
        BY <2>2, <2>3 DEF LoggingIn, StandingIInv, StandingShape
      <4>3. Settled'
        BY <3>3, <3>4, <4>1, <4>2 DEF Settled, BoardsAgree
      <4> QED
        BY <4>1, <4>3
    <3> QED
      BY <3>2, <3>5, <3>6
  <2> QED
    BY <2>1, <2>3, BoardSound
<1>2. CASE MovedOn(k)
  <2> DEFINE next == boards \cup {jobs[k].obj.country}
  <2>1. Board(k, "moved on", next)
    BY <1>2 DEF MovedOn
  <2>2. /\ Head(jobs[k].todo) = "moved on" /\ boards' = next
        /\ UNCHANGED <<row, session, player, told, abroad, patched>>
    BY <2>1, BoardLeaves
  <2>3. ASSUME ~LoggingIn, JobSound(k)
        PROVE  jobs[k].todo \in LastSteps /\ Settled'
    <3>1. Moving(k)
      BY <2>2, <2>3, MovingStages
    <3>2. /\ Told /\ (session = "on" => Matches(player))
          /\ jobs[k].todo = ToArrive /\ Permitted
          /\ jobs[k].obj.country = row.country
          /\ Tame => boards \subseteq {"global"}
      BY <2>2, <3>1, PlanHeads DEF Moving, Matches
    <3>3. Permitted' /\ Told' /\ Tame' = Tame /\ (session' = "on" => Matches(player)')
      BY <2>2, <3>2 DEF Permitted, Told, Tame, Matches, AtHome
    <3>4. BoardsAgree'
      BY <2>2, <3>2, <3>3 DEF BoardsAgree, Ranked
    <3>5. session' \in {"off", "on"}
      BY <2>2, <2>3 DEF LoggingIn, StandingIInv, StandingShape
    <3>6. Settled'
      BY <3>3, <3>4, <3>5 DEF Settled
    <3> QED
      BY <3>2, <3>6 DEF LastSteps
  <2> QED
    BY <2>1, <2>3, BoardSound
<1> QED
  BY <1>1, <1>2

LEMMA WriteGivenSound ==
    ASSUME StandingIInv, NEW k \in Jobs, WriteGiven(k)
    PROVE  StandingIInv'
<1>1. /\ jobs[k] # Idle /\ Head(jobs[k].todo) = "given"
      /\ row' = [row EXCEPT !.priv = jobs[k].new.priv, !.country = jobs[k].new.country]
      /\ Done(k) /\ Rest /\ UNCHANGED <<session, player, told, boards, abroad, patched>>
  BY DEF WriteGiven, Awaits, Rest
<1>2. /\ row \in [priv : SUBSET Bits, silenced : BOOLEAN, country : Countries]
      /\ player \in Persons
      /\ jobs[k].new.priv \subseteq Bits /\ jobs[k].new.country \in Countries
  BY <1>1 DEF StandingIInv, StandingShape, JobTypes, Persons
<1>3. /\ row' \in [priv : SUBSET Bits, silenced : BOOLEAN, country : Countries]
      /\ row'.priv = jobs[k].new.priv /\ row'.silenced = row.silenced
      /\ row'.country = jobs[k].new.country
  BY <1>1, <1>2
<1>4. ASSUME JobSound(k)
      PROVE  jobs[k].todo \notin LastSteps /\ JobSound(k)'
  <2>1. Patching(k)
    BY <1>1, <1>4, MovingStages
  <2>2. /\ jobs[k].on = "own" /\ patched /\ jobs[k].todo = ToPatch
        /\ session = "on" => player.silenced = row.silenced
    BY <1>1, <2>1, PlanHeads DEF Patching, Matches
  <2>3. /\ jobs'[k].todo = ToRememberPatch /\ jobs'[k].on = jobs[k].on
        /\ jobs'[k].new = jobs[k].new
    BY <1>1, <2>2, NotLast, JobGoesOn, PlanTails
  <2>4. Patching(k)'
    BY <1>1, <1>3, <2>2, <2>3 DEF Patching
  <2> QED
    BY <2>2, <2>4, NotLast DEF JobSound
<1> QED
  BY <1>1, <1>2, <1>3, <1>4, StepSound

LEMMA RememberGivenSound ==
    ASSUME StandingIInv, NEW k \in Jobs, RememberGiven(k)
    PROVE  StandingIInv'
<1>1. /\ jobs[k] # Idle /\ Head(jobs[k].todo) = "remember given"
      /\ player' = IF session = "on"
                   THEN [player EXCEPT !.priv = jobs[k].new.priv, !.country = jobs[k].new.country]
                   ELSE player
      /\ Done(k) /\ Rest /\ UNCHANGED <<row, session, told, boards, abroad, patched>>
  BY DEF RememberGiven, Awaits, Rest
<1>2. /\ row \in [priv : SUBSET Bits, silenced : BOOLEAN, country : Countries]
      /\ player \in Persons
      /\ jobs[k].new.priv \subseteq Bits /\ jobs[k].new.country \in Countries
  BY <1>1 DEF StandingIInv, StandingShape, JobTypes, Persons
<1>3. /\ player' \in Persons
      /\ session = "on" => /\ player'.priv = jobs[k].new.priv
                           /\ player'.silenced = player.silenced
                           /\ player'.country = jobs[k].new.country
  BY <1>1, <1>2 DEF Persons
<1>4. ASSUME ~LoggingIn, JobSound(k)
      PROVE  jobs[k].todo \in LastSteps /\ Settled'
  <2>1. Patching(k)
    BY <1>1, <1>4, MovingStages
  <2>2. /\ patched /\ jobs[k].todo = ToRememberPatch
        /\ jobs[k].new.priv = row.priv /\ jobs[k].new.country = row.country
        /\ session = "on" => player.silenced = row.silenced
    BY <1>1, <2>1, PlanHeads DEF Patching
  <2>3. session' \in {"off", "on"}
    BY <1>1, <1>4 DEF LoggingIn, StandingIInv, StandingShape
  <2>4. Settled'
    BY <1>1, <1>3, <2>2, <2>3 DEF Settled, Matches, AtHome, Told, BoardsAgree, Tame
  <2> QED
    BY <2>2, <2>4 DEF LastSteps
<1> QED
  BY <1>1, <1>2, <1>3, <1>4, StepSound

LEMMA StandingInductive == StandingSpec => []StandingIInv
<1>1. ASSUME StandingIInv, [StandingNext]_standingVars
      PROVE  StandingIInv'
  <2>1. CASE \E country \in Countries : Login(country)
    BY <1>1, <2>1, LoginSound
  <2>2. CASE AddVerified \/ WriteVerified \/ Appear
    BY <1>1, <2>2, VerificationSound
  <2>3. CASE Logout
    BY <1>1, <2>3, LogoutSound
  <2>4. ASSUME NEW k \in Jobs, Start(k)
        PROVE  StandingIInv'
    BY <1>1, <2>4, StartSound
  <2>5. ASSUME NEW k \in Jobs, Await(k)
        PROVE  StandingIInv'
    BY <1>1, <2>5, WritePrivSound, WriteSilenceSound, RankingBoards, MovingBoards,
       LogoutTargetSound, WriteCountrySound, RememberCountrySound, WriteGivenSound,
       RememberGivenSound DEF Await
  <2>6. CASE UNCHANGED standingVars
    <3>1. /\ OpenJobs' = OpenJobs /\ LoggingIn' = LoggingIn /\ StandingShape' = StandingShape
          /\ jobsOverlap' = jobsOverlap /\ Settled' = Settled
      BY <2>6 DEF standingVars, OpenJobs, LoggingIn, StandingShape, Settled, Matches, AtHome,
         Told, BoardsAgree, Tame, Permitted, Ranked
    <3>2. ASSUME NEW k \in Jobs
          PROVE  JobSound(k)' = JobSound(k)
      BY <2>6 DEF standingVars, JobSound, Changing, Silencing, Ranking, Moving, Patching,
         Following, Target, Matches, AtHome, Told, BoardsAgree, Tame, Permitted, Ranked
    <3> QED
      BY <1>1, <3>1, <3>2 DEF StandingIInv, SerialSound, OpenJobs
  <2> QED
    BY <1>1, <2>1, <2>2, <2>3, <2>4, <2>5, <2>6 DEF StandingNext
<1> QED
  BY <1>1, StandingInitially, PTL DEF StandingSpec

\* With one job at a time, however many, the session, the row, the boards and what the
\* client was told agree (commands.restrict and the others, Player.restrict, unrestrict,
\* silence, add_privs, update_rank, update_profile, the login).
THEOREM StandingIsSerial == StandingSpec => []SerialStanding
<1>1. StandingIInv => SerialStanding
  <2> SUFFICES ASSUME StandingIInv, ~jobsOverlap, OpenJobs = {}
               PROVE  SerialStanding
    BY DEF SerialStanding, SerialSessionAgrees, SerialBoards
  <2>1. Settled
    BY DEF StandingIInv, SerialSound
  <2> QED
    BY <2>1 DEF Settled, Matches, AtHome, Told, BoardsAgree, Tame, Permitted, Ranked,
       SerialStanding, SerialSessionAgrees, SerialBoards
<1> QED
  BY <1>1, StandingInductive, PTL

-----------------------------------------------------------------------------
(* Types *)

\* What the invariant above does not speak of.
RestTypeOK ==
    /\ told \subseteq Bits
    /\ boards \subseteq {"global"} \cup Countries
    /\ started \in 0..MaxJobs
    /\ jobsOverlap \in BOOLEAN /\ abroad \in BOOLEAN /\ patched \in BOOLEAN

LEMMA SessionKeepsTypes ==
    ASSUME StandingShape, RestTypeOK,
           (\E country \in Countries : Login(country)) \/ AddVerified \/ WriteVerified \/ Appear
             \/ Logout
    PROVE  RestTypeOK'
<1>1. row.priv \subseteq Bits /\ player.priv \subseteq Bits
  BY DEF StandingShape, Persons
<1> QED
  BY <1>1 DEF RestTypeOK, Login, AddVerified, WriteVerified, Appear, Logout

LEMMA BeginKeepsTypes ==
    ASSUME RestTypeOK, NEW k, NEW job, BeginJob(k, job), patched' \in BOOLEAN
    PROVE  RestTypeOK'
BY StandingAssumption DEF RestTypeOK, BeginJob

LEMMA StartKeepsTypes ==
    ASSUME RestTypeOK, NEW k \in Jobs, Start(k)
    PROVE  RestTypeOK'
<1>1. ASSUME NEW new, NEW todo, Change(k, new, todo)
      PROVE  RestTypeOK'
  BY <1>1, BeginKeepsTypes DEF Change, RestTypeOK
<1>2. ASSUME NEW country \in Countries, UpdateCountry(k, country)
      PROVE  RestTypeOK'
  BY <1>2, BeginKeepsTypes DEF UpdateCountry, RestTypeOK
<1>3. ASSUME NEW priv, NEW country, AdminUpdate(k, priv, country)
      PROVE  RestTypeOK'
  BY <1>3, BeginKeepsTypes DEF AdminUpdate
<1> QED
  BY <1>1, <1>2, <1>3
  DEF Start, RestrictUser, Unrestrict, Silence, Unsilence, AddPriv, RemovePriv, UpdateRank

LEMMA AwaitKeepsTypes ==
    ASSUME StandingShape, RestTypeOK, NEW k \in Jobs, Await(k)
    PROVE  RestTypeOK'
<1>1. ASSUME jobs[k] # Idle
      PROVE  /\ jobs[k].obj \in Persons /\ jobs[k].new \in Persons
             /\ Target(k).country \in Countries
             /\ jobs[k].obj.country \in Countries /\ jobs[k].new.country \in Countries
  BY <1>1 DEF StandingShape, JobTypes, Persons, Target
<1>2. player.priv \subseteq Bits
  BY DEF StandingShape, Persons
<1>3. CASE WritePriv(k) \/ WriteSilence(k) \/ LogoutTarget(k) \/ WriteCountry(k)
           \/ RememberCountry(k) \/ WriteGiven(k) \/ RememberGiven(k)
  BY <1>2, <1>3 DEF RestTypeOK, WritePriv, WriteSilence, LogoutTarget, WriteCountry,
     RememberCountry, WriteGiven, RememberGiven, Rest
<1>4. ASSUME NEW step, NEW next, Board(k, step, next), next \subseteq {"global"} \cup Countries
      PROVE  RestTypeOK'
  BY <1>4 DEF RestTypeOK, Board, Rest
<1>5. CASE GlobalOff(k) \/ GlobalOn(k) \/ CountryOff(k) \/ CountryOn(k) \/ FormerCountryOn(k)
           \/ FormerCountryOff(k) \/ MovedOn(k)
  <2>1. jobs[k] # Idle
    BY <1>5 DEF GlobalOff, GlobalOn, CountryOff, CountryOn, FormerCountryOn, FormerCountryOff,
       MovedOn, Board, Awaits
  <2>2. boards \subseteq {"global"} \cup Countries
    BY DEF RestTypeOK
  <2> QED
    BY <1>1, <1>4, <1>5, <2>1, <2>2 DEF GlobalOff, GlobalOn, CountryOff, CountryOn,
       FormerCountryOn, FormerCountryOff, MovedOn
<1> QED
  BY <1>3, <1>5 DEF Await

\* The rows, the session, the boards and the jobs keep their types.
THEOREM StandingTypeCorrect == StandingSpec => []StandingTypeOK
<1>1. ASSUME StandingInit
      PROVE  RestTypeOK
  <2>1. /\ told = {} /\ boards = {} /\ started = 0
        /\ jobsOverlap = FALSE /\ abroad = FALSE /\ patched = FALSE
    BY <1>1, Zenon DEF StandingInit
  <2>2. 0 \in 0..MaxJobs
    BY StandingAssumption
  <2> QED
    BY <2>1, <2>2, Zenon DEF RestTypeOK
<1>2. ASSUME StandingIInv, RestTypeOK, [StandingNext]_standingVars
      PROVE  RestTypeOK'
  <2>1. StandingShape
    BY <1>2 DEF StandingIInv
  <2>2. CASE UNCHANGED standingVars
    BY <1>2, <2>2 DEF standingVars, RestTypeOK
  <2> QED
    BY <1>2, <2>1, <2>2, SessionKeepsTypes, StartKeepsTypes, AwaitKeepsTypes DEF StandingNext
<1>3. StandingIInv /\ RestTypeOK => StandingTypeOK
  <2> SUFFICES ASSUME StandingShape, RestTypeOK
               PROVE  StandingTypeOK
    BY DEF StandingIInv
  <2>1. ASSUME NEW k \in OpenJobs
        PROVE  /\ jobs[k].on \in {"session", "own"}
               /\ jobs[k].obj \in Persons /\ jobs[k].new \in Persons
    BY <2>1 DEF OpenJobs, StandingShape, JobTypes
  <2> QED
    BY <2>1 DEF StandingShape, RestTypeOK, StandingTypeOK
<1> QED
  BY <1>1, <1>2, <1>3, StandingInductive, PTL DEF StandingSpec
=============================================================================
