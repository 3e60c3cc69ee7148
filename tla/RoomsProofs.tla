---------------------------- MODULE RoomsProofs -----------------------------
(***************************************************************************)
(* Proofs about Rooms for every number of players, matches and slots.      *)
(*                                                                         *)
(* Under Spec, where clients send anything at any time, the five invariants*)
(* the model checker confirms support one another, and their conjunction   *)
(* Seating is inductive: OneSeat is what makes "reset the first slot found"*)
(* vacate the player, SeatPointsBack is what makes the test "player.match  *)
(* is None" of join_match rule out a second slot.                          *)
(*                                                                         *)
(* Under CivilSpec, Civil adds what the good manners keep true.            *)
(* HostIsSeated and MatchMeansSeat are not inductive without TableIsExact  *)
(* and PlayersAreConnected, which make Match.host find the heir of a match *)
(* that is left, so that leave_match never stops half way; OpenIsEmpty is  *)
(* why nobody is displaced, and only HostIsSeated rules out the branch of  *)
(* join_match that overwrites slot 0 without looking.  SeatedHears, that   *)
(* the chat is the room's, holds together with two facts: who follows a    *)
(* match does not play in it, and who is in a chat is connected.           *)
(***************************************************************************)
EXTENDS Rooms, WellFoundedInduction, TLAPS

Seating ==
    /\ TypeOK
    /\ TakenHasPlayer
    /\ SeatPointsBack
    /\ OneSeat
    /\ RegistrySound

\* First picks an element of a non-empty set of indices.
LEMMA FirstIsElement ==
    ASSUME NEW K, K \subseteq Nat, K # {}
    PROVE  First(K) \in K
<1> DEFINE R == OpToRel(<, Nat)
<1>1. IsWellFoundedOn(R, Nat)
  BY NatLessThanWellFounded
<1>2. PICK x \in K : \A y \in K : ~ (<<y, x>> \in R)
  <2> HIDE DEF R
  <2> QED BY <1>1, WFMin
<1>3. \A y \in K : ~(y < x)
  BY <1>2 DEF OpToRel
<1>4. \A y \in K : x <= y
  BY <1>3
<1> QED
  BY <1>4 DEF First

\* get_slot returns a slot that holds the player, and it is the only one.
LEMMA SeatFound ==
    ASSUME NEW s \in Sessions, Seating, Seated(s)
    PROVE  /\ matchOf[s] \in Matches
           /\ First(SeatsOf(s, matchOf[s])) \in Slots
           /\ \A m \in Matches, k \in Slots :
                occupant[m][k] = s <=> m = matchOf[s] /\ k = First(SeatsOf(s, matchOf[s]))
<1> DEFINE m0 == matchOf[s]
           k0 == First(SeatsOf(s, m0))
<1>1. m0 \in Matches /\ SeatsOf(s, m0) # {} /\ SeatsOf(s, m0) \subseteq Nat
  BY RoomsAssumption DEF Seating, TypeOK, Seated, SeatsOf
<1>2. k0 \in Slots /\ occupant[m0][k0] = s
  <2>1. k0 \in SeatsOf(s, m0)
    BY <1>1, FirstIsElement
  <2> QED
    BY <2>1 DEF SeatsOf
<1>3. s # None
  BY RoomsAssumption
<1>4. ASSUME NEW m \in Matches, NEW k \in Slots, occupant[m][k] = s
      PROVE  m = m0 /\ k = k0
  BY <1>1, <1>2, <1>3, <1>4 DEF Seating, OneSeat
<1> QED
  BY <1>1, <1>2, <1>4

\* A player that points at no match has no slot.
LEMMA Unseated ==
    ASSUME NEW s \in Sessions, Seating, matchOf[s] = None
    PROVE  \A m \in Matches, k \in Slots : occupant[m][k] # s
  BY RoomsAssumption DEF Seating, SeatPointsBack

LEMMA SeatingInit == Init => Seating
  BY RoomsAssumption DEF Init, Seating, TypeOK, Status, TakenHasPlayer, SeatPointsBack,
     OneSeat, RegistrySound, Registered

-----------------------------------------------------------------------------
(* Steps that disturb one attribute *)

\* A step that only rewrites statuses, and writes "taken" on occupied slots.
LEMMA StatusStep ==
    ASSUME Seating,
           status' \in [Matches -> [Slots -> Status]],
           \A m \in Matches, k \in Slots : status'[m][k] = "taken" => occupant[m][k] # None,
           UNCHANGED <<playerVars, registry, host, referees, chatVars, occupant, matchOf>>
    PROVE  Seating'
  BY DEF Seating, TypeOK, TakenHasPlayer, SeatPointsBack, OneSeat, RegistrySound, Registered, playerVars,
     chatVars

\* A step that only appoints a host.
LEMMA AppointStep ==
    ASSUME Seating, NEW m \in Matches, NEW u \in Users, Appoint(m, u)
    PROVE  Seating'
<1>1. TypeOK'
  BY DEF Seating, TypeOK, Appoint, playerVars, chatVars
<1> QED
  BY <1>1 DEF Seating, TakenHasPlayer, SeatPointsBack, OneSeat, RegistrySound, Registered, Appoint,
     playerVars

\* A step that only changes the referees, to players of the match.
LEMMA RefereeStep ==
    ASSUME Seating, NEW m \in Matches, NEW new \in SUBSET Sessions, ChangeReferees(m, new),
           \A s \in new : s \in referees[m] \/ matchOf[s] = m
    PROVE  Seating'
<1>1. TypeOK'
  BY DEF Seating, TypeOK, ChangeReferees, playerVars, chatVars
<1>2. RegistrySound'
  <2>1. \A n \in Matches, s \in Sessions :
          s \in referees'[n] => s \in referees[n] \/ matchOf[s] = n
    BY DEF Seating, TypeOK, ChangeReferees
  <2> QED
    BY <1>1, <2>1 DEF Seating, TypeOK, RegistrySound, Registered, ChangeReferees
<1> QED
  BY <1>1, <1>2 DEF Seating, TakenHasPlayer, SeatPointsBack, OneSeat, ChangeReferees,
     playerVars

\* A step that only changes the table of players and the chats.
LEMMA TableStep ==
    ASSUME Seating, UNCHANGED <<registry, host, referees, status, occupant, matchOf>>,
           online' \in SUBSET Sessions, issued' \in SUBSET Sessions,
           byId' \in [Users -> Sessions \cup {None}],
           chat' \in [Matches -> SUBSET Sessions], listed' \in SUBSET Matches,
           tourney' \in [Matches -> SUBSET Users], stuck' \in SUBSET Sessions
    PROVE  Seating'
  BY DEF Seating, TypeOK, TakenHasPlayer, SeatPointsBack, OneSeat, RegistrySound, Registered

\* Leaving chats keeps them typed.
LEMMA ChatsTyped ==
    ASSUME Seating, NEW s \in Sessions, NEW M, LeaveChats(s, M)
    PROVE  /\ chat' \in [Matches -> SUBSET Sessions]
           /\ listed' \in SUBSET Matches
           /\ stuck' \in SUBSET Sessions
  BY DEF LeaveChats, Seating, TypeOK

-----------------------------------------------------------------------------
(* Taking a slot *)

\* Player.join_match: the player had no slot, and gets one whatever it held.
LEMMA JoinStep ==
    ASSUME Seating, NEW s \in Sessions, NEW m \in Matches, JoinMatch(s, m)
    PROVE  Seating'
<1>1. PICK k \in Slots : Sit(s, m, k)
  <2>1. OpenSlots(m) # {} => First(OpenSlots(m)) \in Slots
    <3>1. OpenSlots(m) \subseteq Nat
      BY RoomsAssumption DEF OpenSlots
    <3> QED
      BY <3>1, FirstIsElement DEF OpenSlots
  <2> QED
    BY <2>1, RoomsAssumption DEF JoinMatch
<1>2. /\ matchOf[s] = None /\ s # None /\ m # None
      /\ \A n \in Matches, j \in Slots : occupant[n][j] # s
      /\ \A n \in Matches : s \notin referees[n] \/ ~Registered(n)
  BY Unseated, RoomsAssumption DEF JoinMatch, Seating, RegistrySound
<1>3. TypeOK'
  BY <1>1 DEF Seating, TypeOK, JoinMatch, Sit, playerVars, Status
<1>4. \A n \in Matches, j \in Slots :
        /\ occupant'[n][j] = IF n = m /\ j = k THEN s ELSE occupant[n][j]
        /\ status'[n][j] = IF n = m /\ j = k THEN "taken" ELSE status[n][j]
  BY <1>1 DEF Seating, TypeOK, Sit
<1>5. \A r \in Sessions : matchOf'[r] = IF r = s THEN m ELSE matchOf[r]
  BY <1>1 DEF Seating, TypeOK, Sit
<1>6. TakenHasPlayer'
  BY <1>2, <1>4 DEF Seating, TakenHasPlayer
<1>7. SeatPointsBack'
  BY <1>2, <1>4, <1>5 DEF Seating, TypeOK, SeatPointsBack
<1>8. OneSeat'
  BY <1>2, <1>4 DEF Seating, OneSeat
<1>10. RegistrySound'
  <2>1. UNCHANGED <<registry, referees>>
    BY DEF JoinMatch
  <2> QED
    BY <2>1, <1>2, <1>5 DEF Seating, TypeOK, RegistrySound, Registered
<1> QED
  BY <1>3, <1>6, <1>7, <1>8, <1>10 DEF Seating

\* MatchCreate, whether or not the player gets into the new match.
LEMMA CreateStep ==
    ASSUME Seating, NEW s \in Sessions, NEW m \in Matches, CreateMatch(s, m)
    PROVE  Seating'
<1> DEFINE i0 == First(FreeIds)
<1>1. i0 \in MatchIds /\ registry[i0] = None
  <2>1. FreeIds \subseteq Nat /\ FreeIds # {}
    BY RoomsAssumption DEF FreeIds, CreateMatch
  <2> QED
    BY <2>1, FirstIsElement DEF FreeIds
<1>2. PICK joins \in BOOLEAN :
        /\ joins => matchOf[s] = None
        /\ chat' = [chat EXCEPT ![m] = IF joins THEN {s} ELSE {}]
        /\ status' = [status EXCEPT ![m] =
                        [k \in Slots |-> IF joins /\ k = 0 THEN "taken" ELSE "open"]]
        /\ occupant' = [occupant EXCEPT ![m] =
                        [k \in Slots |-> IF joins /\ k = 0 THEN s ELSE None]]
        /\ matchOf' = IF joins THEN [matchOf EXCEPT ![s] = m] ELSE matchOf
  <2>1. CASE /\ matchOf[s] = None
             /\ chat' = [chat EXCEPT ![m] = {s}]
             /\ status' = [status EXCEPT ![m] =
                             [k \in Slots |-> IF k = 0 THEN "taken" ELSE "open"]]
             /\ occupant' = [occupant EXCEPT ![m] =
                             [k \in Slots |-> IF k = 0 THEN s ELSE None]]
             /\ matchOf' = [matchOf EXCEPT ![s] = m]
    BY <2>1
  <2>2. CASE /\ chat' = [chat EXCEPT ![m] = {}]
             /\ status' = [status EXCEPT ![m] = [k \in Slots |-> "open"]]
             /\ occupant' = [occupant EXCEPT ![m] = [k \in Slots |-> None]]
             /\ UNCHANGED matchOf
    BY <2>2
  <2> QED
    BY <2>1, <2>2 DEF CreateMatch
<1>3. /\ s # None /\ m # None
      /\ matchOf[s] # m
      /\ \A r \in Sessions : matchOf[r] # m
      /\ \A i \in MatchIds : registry[i] # m
      /\ matchOf[s] = None => \A n \in Matches, j \in Slots : occupant[n][j] # s
  BY Unseated, RoomsAssumption DEF CreateMatch, Unused
<1>4. TypeOK'
  <2>1. /\ chat' \in [Matches -> SUBSET Sessions]
        /\ matchOf' \in [Sessions -> Matches \cup {None}]
    BY <1>2 DEF Seating, TypeOK
  <2>2. /\ status' \in [Matches -> [Slots -> Status]]
        /\ occupant' \in [Matches -> [Slots -> Sessions \cup {None}]]
    BY <1>2 DEF Seating, TypeOK, Status
  <2>3. /\ registry' \in [MatchIds -> Matches \cup {None}]
        /\ host' \in [Matches -> Users \cup {None}]
        /\ referees' \in [Matches -> SUBSET Sessions]
        /\ listed' \in SUBSET Matches
        /\ tourney' \in [Matches -> SUBSET Users]
    BY RoomsAssumption DEF CreateMatch, Seating, TypeOK
  <2> QED
    BY <2>1, <2>2, <2>3 DEF CreateMatch, playerVars, Seating, TypeOK
<1>5. \A n \in Matches, j \in Slots :
        /\ occupant'[n][j] = IF n = m THEN IF joins /\ j = 0 THEN s ELSE None
                                      ELSE occupant[n][j]
        /\ status'[n][j] = IF n = m THEN IF joins /\ j = 0 THEN "taken" ELSE "open"
                                    ELSE status[n][j]
  BY <1>2 DEF Seating, TypeOK
<1>6. \A r \in Sessions : matchOf'[r] = IF joins /\ r = s THEN m ELSE matchOf[r]
  BY <1>2 DEF Seating, TypeOK
<1>7. TakenHasPlayer'
  BY <1>3, <1>5 DEF Seating, TakenHasPlayer
<1>8. SeatPointsBack'
  BY <1>2, <1>3, <1>5, <1>6 DEF Seating, TypeOK, SeatPointsBack
<1>9. OneSeat'
  BY <1>2, <1>3, <1>5 DEF Seating, OneSeat
<1>11. RegistrySound'
  <2>1. \A i \in MatchIds : registry'[i] = IF i = i0 THEN m ELSE registry[i]
    BY <1>1 DEF CreateMatch, Seating, TypeOK
  <2>2. \A n \in Matches : referees'[n] = IF n = m THEN {} ELSE referees[n]
    BY DEF CreateMatch, Seating, TypeOK
  <2>3. \A n \in Matches : Registered(n)' => n = m \/ Registered(n)
    BY <2>1 DEF Registered
  <2>4. ASSUME NEW n \in Matches, Registered(n)', NEW r \in referees'[n]
        PROVE  matchOf'[r] = n
    <3>1. Registered(n) /\ r \in referees[n] /\ r \in Sessions
      BY <2>2, <2>3, <2>4 DEF Seating, TypeOK
    <3>2. matchOf[r] = n /\ n # None
      BY <3>1, RoomsAssumption DEF Seating, RegistrySound
    <3> QED
      BY <3>1, <3>2, <1>2, <1>6
  <2> QED
    BY <1>1, <1>3, <2>1, <2>4 DEF Seating, RegistrySound
<1> QED
  BY <1>4, <1>7, <1>8, <1>9, <1>11 DEF Seating

-----------------------------------------------------------------------------
(* Giving a slot up *)

\* Player.leave_match, returning or raising: the player's one slot is vacated.
LEMMA LeaveStep ==
    ASSUME Seating, NEW s \in Sessions, LeaveRoom(s),
           online' \in SUBSET Sessions, issued' \in SUBSET Sessions,
           byId' \in [Users -> Sessions \cup {None}],
           chat' \in [Matches -> SUBSET Sessions], listed' \in SUBSET Matches,
           stuck' \in SUBSET Sessions
    PROVE  Seating'
<1> DEFINE m == matchOf[s]
           k0 == First(SeatsOf(s, m))
           left == {k \in Slots : Vacated(s, m)[k] # None}
<1>1. /\ m \in Matches /\ k0 \in Slots /\ s # None /\ m # None
      /\ \A n \in Matches, k \in Slots : occupant[n][k] = s <=> n = m /\ k = k0
  BY SeatFound, RoomsAssumption DEF LeaveRoom
<1> HIDE DEF k0
<1>2. /\ Vacated(s, m) \in [Slots -> Sessions \cup {None}]
      /\ \A k \in Slots : Vacated(s, m)[k] = IF k = k0 THEN None ELSE occupant[m][k]
  BY <1>1 DEF Vacated, k0, Seating, TypeOK
<1>3. \A n \in Matches, k \in Slots :
        occupant'[n][k] = IF n = m /\ k = k0 THEN None ELSE occupant[n][k]
  BY <1>1, <1>2 DEF LeaveRoom, Seating, TypeOK
<1>4. /\ status' \in [Matches -> [Slots -> Status]]
      /\ \A n \in Matches, k \in Slots :
           IF n = m /\ k = k0 THEN status'[n][k] \in {"locked", "open"}
                              ELSE status'[n][k] = status[n][k]
  BY <1>1 DEF LeaveRoom, Seating, TypeOK, Status, k0
<1>5. /\ matchOf' \in [Sessions -> Matches \cup {None}]
      /\ \A r \in Sessions : r # s => matchOf'[r] = matchOf[r]
      /\ matchOf'[s] = IF LeaveReturns(s, m) THEN None ELSE m
  BY DEF LeaveRoom, Seating, TypeOK
<1>6. /\ referees' \in [Matches -> SUBSET Sessions]
      /\ \A n \in Matches : n # m => referees'[n] = referees[n]
      /\ referees'[m] = IF LeaveReturns(s, m) /\ ~Deserted(s, m)
                          THEN referees[m] \ {s} ELSE referees[m]
  BY <1>1 DEF LeaveRoom, Seating, TypeOK
<1>7. /\ registry' \in [MatchIds -> Matches \cup {None}]
      /\ \A i \in MatchIds :
           registry'[i] = IF Deserted(s, m) /\ ~ChatFails(s, m) /\ registry[i] = m
                            THEN None ELSE registry[i]
  BY DEF LeaveRoom, Seating, TypeOK
<1>8. TypeOK'
  <2>1. ~Deserted(s, m) => Heir(s, m) \in Users \cup {None}
    <3>1. SUFFICES ASSUME ~Deserted(s, m) PROVE Heir(s, m) \in Users \cup {None}
      OBVIOUS
    <3>2. First(left) \in Slots /\ Vacated(s, m)[First(left)] # None
      <4>1. left # {} /\ left \subseteq Nat
        BY <3>1, RoomsAssumption DEF Deserted
      <4> HIDE DEF left
      <4>2. First(left) \in left
        BY <4>1, FirstIsElement
      <4> QED
        BY <4>2 DEF left
    <3>3. Vacated(s, m)[First(left)] \in Sessions
      BY <3>2, <1>2
    <3>4. host[m] \in Users \cup {None}
      BY <1>1 DEF Seating, TypeOK
    <3> QED
      BY <3>3, <3>4, RoomsAssumption DEF Heir
  <2>2. host' \in [Matches -> Users \cup {None}]
    BY <2>1 DEF LeaveRoom, Seating, TypeOK
  <2>3. occupant' \in [Matches -> [Slots -> Sessions \cup {None}]]
    BY <1>2 DEF LeaveRoom, Seating, TypeOK
  <2>4. tourney' \in [Matches -> SUBSET Users]
    BY DEF LeaveRoom, Seating, TypeOK
  <2> QED
    BY <2>2, <2>3, <2>4, <1>4, <1>5, <1>6, <1>7 DEF TypeOK
<1>9. TakenHasPlayer'
  BY <1>3, <1>4 DEF Seating, TakenHasPlayer
<1>10. SeatPointsBack'
  BY <1>1, <1>3, <1>5 DEF Seating, TypeOK, SeatPointsBack
<1>11. OneSeat'
  BY <1>3 DEF Seating, OneSeat
<1>13. RegistrySound'
  <2>1. \A n \in Matches : Registered(n)' =>
          Registered(n) /\ (n = m => ~Deserted(s, m) \/ ChatFails(s, m))
    BY <1>1, <1>7, RoomsAssumption DEF Registered
  <2>2. ASSUME NEW n \in Matches, Registered(n)', NEW r \in referees'[n]
        PROVE  matchOf'[r] = n
    <3>1. r \in Sessions /\ r \in referees[n]
      BY <2>2, <1>1, <1>6 DEF Seating, TypeOK
    <3>2. matchOf[r] = n
      BY <2>1, <2>2, <3>1 DEF Seating, RegistrySound
    <3>3. CASE r # s
      BY <3>2, <3>1, <3>3, <1>5
    <3>4. CASE r = s
      BY <3>2, <3>4, <2>1, <2>2, <1>5, <1>6 DEF LeaveReturns
    <3> QED
      BY <3>3, <3>4
  <2>3. ASSUME NEW i \in MatchIds, NEW j \in MatchIds,
               registry'[i] # None, registry'[i] = registry'[j]
        PROVE  i = j
    BY <2>3, <1>7 DEF Seating, RegistrySound
  <2> QED
    BY <2>2, <2>3 DEF RegistrySound
<1> QED
  BY <1>8, <1>9, <1>10, <1>11, <1>13 DEF Seating

\* MatchChangeSlot: one slot before, one slot after.
LEMMA ChangeSlotStep ==
    ASSUME Seating, NEW s \in Sessions, NEW k \in Slots, MatchChangeSlot(s, k)
    PROVE  Seating'
<1> DEFINE m == matchOf[s]
           k0 == First(SeatsOf(s, m))
<1>1. /\ m \in Matches /\ k0 \in Slots /\ s # None
      /\ \A n \in Matches, j \in Slots : occupant[n][j] = s <=> n = m /\ j = k0
  BY SeatFound, RoomsAssumption DEF MatchChangeSlot
<1> HIDE DEF k0
<1>2. \A n \in Matches, j \in Slots :
        /\ occupant'[n][j] = IF n = m /\ j = k0 THEN None
                             ELSE IF n = m /\ j = k THEN s ELSE occupant[n][j]
        /\ status'[n][j] = IF n = m /\ j = k0 THEN "open"
                           ELSE IF n = m /\ j = k THEN status[m][k0] ELSE status[n][j]
  BY <1>1 DEF MatchChangeSlot, Seating, TypeOK, k0
<1>3. /\ UNCHANGED <<online, issued, byId, registry, host, referees, chat, listed, tourney,
                     stuck, matchOf>>
      /\ matchOf[s] = m
  BY DEF MatchChangeSlot, playerVars, chatVars
<1>4. TypeOK'
  <2>1. /\ occupant' \in [Matches -> [Slots -> Sessions \cup {None}]]
        /\ status' \in [Matches -> [Slots -> Status]]
    BY <1>1 DEF MatchChangeSlot, Seating, TypeOK, Status, k0
  <2> QED
    BY <2>1, <1>3 DEF Seating, TypeOK
<1>5. TakenHasPlayer'
  BY <1>1, <1>2 DEF Seating, TakenHasPlayer
<1>6. SeatPointsBack'
  BY <1>1, <1>2, <1>3 DEF Seating, SeatPointsBack
<1>7. OneSeat'
  BY <1>1, <1>2 DEF Seating, OneSeat
<1>9. RegistrySound'
  BY <1>3 DEF Seating, RegistrySound, Registered
<1> QED
  BY <1>4, <1>5, <1>6, <1>7, <1>9 DEF Seating

-----------------------------------------------------------------------------
(* Every step *)

\* A command typed in the match's chat names the match its author is in.
LEMMA CommandIsLocal ==
    ASSUME Seating, NEW s \in Sessions, MayCommand(s, matchOf[s])
    PROVE  matchOf[s] \in Matches
  BY DEF Seating, TypeOK, MayCommand

LEMMA LogoutStep ==
    ASSUME Seating, NEW s \in Sessions, Logout(s)
    PROVE  Seating'
<1>1. /\ online' \in SUBSET Sessions
      /\ issued' \in SUBSET Sessions
      /\ byId' \in [Users -> Sessions \cup {None}]
      /\ \E M : LeaveChats(s, M)
  <2>1. CASE LogoutStops(s)
    BY <2>1 DEF LogoutStops, playerVars, Seating, TypeOK
  <2>2. CASE LogoutEnds(s)
    <3>1. LeaveChats(s, Matches)
      BY <2>2 DEF LogoutEnds
    <3> QED
      BY <2>2, <3>1, RoomsAssumption DEF LogoutEnds, Seating, TypeOK
  <2> QED
    BY <2>1, <2>2 DEF Logout
<1>2. /\ chat' \in [Matches -> SUBSET Sessions]
      /\ listed' \in SUBSET Matches
      /\ stuck' \in SUBSET Sessions
  BY <1>1, ChatsTyped
<1>3. CASE LeaveRoom(s)
  BY <1>1, <1>2, <1>3, LeaveStep
<1>4. CASE UNCHANGED <<registry, host, referees, tourney, status, occupant, matchOf>>
  <2>1. tourney' \in [Matches -> SUBSET Users]
    BY <1>4 DEF Seating, TypeOK
  <2> QED
    BY <1>1, <1>2, <1>4, <2>1, TableStep
<1> QED
  BY <1>3, <1>4 DEF Logout

\* A match's chat entered or left without the match.
LEMMA ChatStep ==
    ASSUME Seating, NEW s \in Sessions, NEW m \in Matches,
           ChannelJoin(s, m) \/ ChannelPart(s, m) \/ TourneyJoin(s, m) \/ TourneyLeave(s, m)
    PROVE  Seating'
<1>1. tourney' \in [Matches -> SUBSET Users]
  BY RoomsAssumption DEF ChannelJoin, ChannelPart, TourneyJoin, TourneyLeave, Seating, TypeOK
<1>2. CASE EnterChat(s, m)
  <2>1. /\ chat' \in [Matches -> SUBSET Sessions]
        /\ listed' \in SUBSET Matches
        /\ stuck' \in SUBSET Sessions
        /\ online' \in SUBSET Sessions /\ issued' \in SUBSET Sessions
        /\ byId' \in [Users -> Sessions \cup {None}]
    BY <1>2 DEF EnterChat, playerVars, Seating, TypeOK
  <2> QED
    BY <1>1, <1>2, <2>1, TableStep DEF EnterChat
<1>3. CASE QuitChat(s, m)
  <2>1. /\ chat' \in [Matches -> SUBSET Sessions]
        /\ listed' \in SUBSET Matches
        /\ stuck' \in SUBSET Sessions
    BY <1>3, ChatsTyped DEF QuitChat
  <2>2. /\ online' \in SUBSET Sessions /\ issued' \in SUBSET Sessions
        /\ byId' \in [Users -> Sessions \cup {None}]
    BY <1>3 DEF QuitChat, playerVars, Seating, TypeOK
  <2> QED
    BY <1>1, <1>3, <2>1, <2>2, TableStep DEF QuitChat
<1>4. CASE UNCHANGED <<playerVars, registry, host, referees, chat, listed, stuck, status,
                       occupant, matchOf>>
  BY <1>1, <1>4, TableStep DEF playerVars, Seating, TypeOK
<1> QED
  BY <1>2, <1>3, <1>4 DEF ChannelJoin, ChannelPart, TourneyJoin, TourneyLeave

LEMMA LockStep ==
    ASSUME Seating, NEW s \in Sessions, NEW k \in Slots, MatchLock(s, k)
    PROVE  Seating'
<1>1. matchOf[s] \in Matches
  BY DEF MatchLock, Seating, TypeOK
<1>2. PICK v \in {"open", "locked"} : status' = [status EXCEPT ![matchOf[s]][k] = v]
  BY DEF MatchLock
<1>3. status' \in [Matches -> [Slots -> Status]]
  BY <1>1, <1>2 DEF Seating, TypeOK, Status
<1>4. \A m \in Matches, j \in Slots : status'[m][j] = "taken" => occupant[m][j] # None
  BY <1>1, <1>2 DEF Seating, TypeOK, TakenHasPlayer
<1> QED
  BY <1>3, <1>4, StatusStep DEF MatchLock

LEMMA AllSlotsStep ==
    ASSUME Seating, NEW s \in Sessions, MpLock(s) \/ MpUnlock(s)
    PROVE  Seating'
<1>1. PICK from \in Status, to \in {"open", "locked"} : SetAllSlots(s, from, to)
  BY DEF MpLock, MpUnlock, Status
<1>2. matchOf[s] \in Matches
  BY <1>1, CommandIsLocal DEF SetAllSlots
<1>3. status' \in [Matches -> [Slots -> Status]]
  BY <1>1, <1>2 DEF SetAllSlots, Seating, TypeOK, Status
<1>4. \A m \in Matches, j \in Slots : status'[m][j] = "taken" => status[m][j] = "taken"
  BY <1>1, <1>2 DEF SetAllSlots, Seating, TypeOK, Status
<1>5. \A m \in Matches, j \in Slots : status'[m][j] = "taken" => occupant[m][j] # None
  BY <1>4 DEF Seating, TakenHasPlayer
<1> QED
  BY <1>1, <1>3, <1>5, StatusStep DEF SetAllSlots

LEMMA TakenStep ==
    ASSUME Seating, NEW s \in Sessions, Start(s) \/ ReportStatus(s)
    PROVE  Seating'
<1>1. CASE Start(s)
  <2>1. matchOf[s] \in Matches
    BY <1>1 DEF Start, Seating, TypeOK
  <2>2. status' \in [Matches -> [Slots -> Status]]
    BY <1>1, <2>1 DEF Start, Seating, TypeOK, Status
  <2>3. \A m \in Matches, j \in Slots : status'[m][j] = "taken" => occupant[m][j] # None
    BY <1>1, <2>1 DEF Start, Seating, TypeOK, TakenHasPlayer
  <2> QED
    BY <1>1, <2>2, <2>3, StatusStep DEF Start
<1>2. CASE ReportStatus(s)
  <2> DEFINE m0 == matchOf[s]
             k0 == First(SeatsOf(s, m0))
  <2>1. m0 \in Matches /\ k0 \in Slots /\ occupant[m0][k0] # None
    BY <1>2, SeatFound, RoomsAssumption DEF ReportStatus
  <2>2. status' = [status EXCEPT ![m0][k0] = "taken"]
    BY <1>2 DEF ReportStatus
  <2> HIDE DEF m0, k0
  <2>3. status' \in [Matches -> [Slots -> Status]]
    BY <2>1, <2>2 DEF Seating, TypeOK, Status
  <2>4. \A m \in Matches, j \in Slots : status'[m][j] = "taken" => occupant[m][j] # None
    BY <2>1, <2>2 DEF Seating, TypeOK, TakenHasPlayer
  <2> QED
    BY <1>2, <2>3, <2>4, StatusStep DEF ReportStatus
<1> QED
  BY <1>1, <1>2

\* MatchTransferHost and !mp host appoint the account of a player.
LEMMA HostStep ==
    ASSUME Seating, NEW s \in Sessions,
           \/ \E k \in Slots : MatchTransferHost(s, k)
           \/ \E u \in Users : MpHost(s, u)
    PROVE  Seating'
<1>1. CASE \E k \in Slots : MatchTransferHost(s, k)
  <2>1. PICK k \in Slots : MatchTransferHost(s, k)
    BY <1>1
  <2>2. matchOf[s] \in Matches
    BY <2>1 DEF MatchTransferHost, Seating, TypeOK
  <2>3. occupant[matchOf[s]][k] \in Sessions
    BY <2>1, <2>2 DEF MatchTransferHost, Seating, TypeOK
  <2>4. UserOf[occupant[matchOf[s]][k]] \in Users
    BY <2>3, RoomsAssumption
  <2> QED
    BY <2>1, <2>2, <2>4, AppointStep DEF MatchTransferHost
<1>2. CASE \E u \in Users : MpHost(s, u)
  BY <1>2, AppointStep, CommandIsLocal DEF MpHost
<1> QED
  BY <1>1, <1>2

LEMMA RefereesStep ==
    ASSUME Seating, NEW s \in Sessions, NEW u \in Users, MpAddRef(s, u) \/ MpRmRef(s, u)
    PROVE  Seating'
<1>1. matchOf[s] \in Matches
  BY CommandIsLocal DEF MpAddRef, MpRmRef
<1>2. referees[matchOf[s]] \in SUBSET Sessions /\ byId[u] \in Sessions \cup {None}
  BY <1>1 DEF Seating, TypeOK
<1>3. CASE MpAddRef(s, u)
  <2>1. byId[u] \in Sessions /\ matchOf[byId[u]] = matchOf[s]
    BY <1>1, <1>2, <1>3 DEF MpAddRef, Plays, SeatsOf, Seating, TypeOK, SeatPointsBack
  <2> QED
    BY <1>1, <1>2, <1>3, <2>1, RefereeStep DEF MpAddRef
<1>4. CASE MpRmRef(s, u)
  BY <1>1, <1>2, <1>4, RefereeStep DEF MpRmRef
<1> QED
  BY <1>3, <1>4

LEMMA RoomStep ==
    ASSUME Seating, NEW s \in Sessions, InRoom(s)
    PROVE  Seating'
<1>1. CASE MatchPart(s)
  <2>2. /\ chat' \in [Matches -> SUBSET Sessions]
        /\ listed' \in SUBSET Matches
        /\ stuck' \in SUBSET Sessions
    BY <1>1, ChatsTyped DEF MatchPart
  <2>3. /\ online' \in SUBSET Sessions /\ issued' \in SUBSET Sessions
        /\ byId' \in [Users -> Sessions \cup {None}]
    BY <1>1 DEF MatchPart, playerVars, Seating, TypeOK
  <2> QED
    BY <1>1, <2>2, <2>3, LeaveStep DEF MatchPart
<1>2. CASE \E k \in Slots : MatchChangeSlot(s, k)
  BY <1>2, ChangeSlotStep
<1>3. CASE \E u \in Users : MpForce(s, u)
  <2>1. PICK u \in Users : MpForce(s, u)
    BY <1>3
  <2>2. matchOf[s] \in Matches /\ byId[u] \in Sessions
    BY <2>1, CommandIsLocal DEF MpForce, Seating, TypeOK
  <2> QED
    BY <2>1, <2>2, JoinStep DEF MpForce
<1> QED
  BY <1>1, <1>2, <1>3, TakenStep, AllSlotsStep, HostStep, RefereesStep DEF InRoom

LEMMA SeatingStep == Seating /\ [Next]_vars => Seating'
<1> SUFFICES ASSUME Seating, [Next]_vars PROVE Seating'
  OBVIOUS
<1>1. ASSUME NEW s \in Sessions, Login(s) PROVE Seating'
  <2>1. /\ online' \in SUBSET Sessions /\ issued' \in SUBSET Sessions
        /\ byId' \in [Users -> Sessions \cup {None}]
    BY <1>1, RoomsAssumption DEF Login, Seating, TypeOK
  <2> QED
    BY <1>1, <2>1, TableStep DEF Login, roomVars, chatVars, Seating, TypeOK
<1>2. ASSUME NEW s \in Sessions, NEW i \in MatchIds, MatchJoin(s, i) PROVE Seating'
  <2>1. registry[i] \in Matches
    BY <1>2 DEF MatchJoin, Seating, TypeOK
  <2> QED
    BY <1>2, <2>1, JoinStep DEF MatchJoin
<1>3. ASSUME UNCHANGED vars PROVE Seating'
  BY <1>3, TableStep DEF vars, Seating, TypeOK
<1>4. ASSUME NEW s \in Sessions, Follow(s) PROVE Seating'
  <2>1. PICK i \in MatchIds :
          registry[i] # None /\ (TourneyJoin(s, registry[i]) \/ TourneyLeave(s, registry[i]))
    BY <1>4 DEF Follow
  <2>2. registry[i] \in Matches
    BY <2>1 DEF Seating, TypeOK
  <2> QED
    BY <2>1, <2>2, ChatStep
<1> QED
  BY <1>1, <1>2, <1>3, <1>4, LogoutStep, CreateStep, LockStep, AllSlotsStep, RoomStep, ChatStep
     DEF Next

-----------------------------------------------------------------------------
(* The theorems *)

LEMMA SeatingInvariant == Spec => []Seating
<1> QED
  BY SeatingInit, SeatingStep, PTL DEF Spec

\* Every attribute always holds a value of its kind.
THEOREM TypeCorrect == Spec => []TypeOK
<1>1. Seating => TypeOK
  BY DEF Seating
<1> QED
  BY <1>1, SeatingInvariant, PTL

\* The assertion of write_match never fails: a slot with a player's status has
\* a player, whatever was locked, moved, forced or left before.
THEOREM TakenSlotsHavePlayers == Spec => []TakenHasPlayer
<1>1. Seating => TakenHasPlayer
  BY DEF Seating
<1> QED
  BY <1>1, SeatingInvariant, PTL

\* slot.player and player.match agree from the slot's side.
THEOREM SeatsPointBack == Spec => []SeatPointsBack
<1>1. Seating => SeatPointsBack
  BY DEF Seating
<1> QED
  BY <1>1, SeatingInvariant, PTL

\* No player ever has two slots, in one match or in two.
THEOREM AtMostOneSeat == Spec => []OneSeat
<1>1. Seating => OneSeat
  BY DEF Seating
<1> QED
  BY <1>1, SeatingInvariant, PTL

\* A match is listed once, and its referees are in it.
THEOREM RegistryIsSound == Spec => []RegistrySound
<1>1. Seating => RegistrySound
  BY DEF Seating
<1> QED
  BY <1>1, SeatingInvariant, PTL

-----------------------------------------------------------------------------
(* Action properties: what no step may do *)

\* The table files every object under its own account.
FiledByAccount == \A u \in Users : byId[u] # None => UserOf[byId[u]] = u

LEMMA TableChanges ==
    ASSUME Seating, [Next]_vars, byId' # byId
    PROVE  \E s \in Sessions : Login(s) \/ Logout(s)
<1>1. ASSUME NEW s \in Sessions, InRoom(s) PROVE byId' = byId
  BY <1>1 DEF playerVars, JoinMatch, MpLock, SetAllSlots, InRoom, MatchPart, ReportStatus, Start,
     MatchChangeSlot, MatchTransferHost, MpHost, MpAddRef, MpRmRef, MpForce, Appoint, ChangeReferees
<1>2. ASSUME NEW s \in Sessions, NEW m \in Matches, ChannelJoin(s, m) \/ ChannelPart(s, m)
      PROVE  byId' = byId
  BY <1>2 DEF ChannelJoin, ChannelPart, EnterChat, QuitChat, playerVars
<1>3. ASSUME NEW s \in Sessions, Follow(s) PROVE byId' = byId
  BY <1>3 DEF Follow, TourneyJoin, TourneyLeave, EnterChat, QuitChat, playerVars
<1>4. ASSUME NEW s \in Sessions,
             \/ \E m \in Matches : CreateMatch(s, m)
             \/ \E i \in MatchIds : MatchJoin(s, i)
             \/ \E k \in Slots : MatchLock(s, k)
             \/ MpUnlock(s)
      PROVE  byId' = byId
  BY <1>4 DEF CreateMatch, MatchJoin, JoinMatch, MatchLock, MpUnlock, SetAllSlots, playerVars
<1> QED
  BY <1>1, <1>2, <1>3, <1>4 DEF Next, vars

LEMMA FiledStep == Seating /\ FiledByAccount /\ [Next]_vars => FiledByAccount'
<1> SUFFICES ASSUME Seating, FiledByAccount, [Next]_vars, byId' # byId
             PROVE  FiledByAccount'
  BY DEF FiledByAccount
<1>1. PICK s \in Sessions : Login(s) \/ Logout(s)
  BY TableChanges
<1>2. UserOf[s] \in Users
  BY RoomsAssumption
<1> QED
  BY <1>1, <1>2 DEF FiledByAccount, Login, Logout, LogoutStops, LogoutEnds, playerVars, Seating,
     TypeOK

LEMMA FiledInvariant == Spec => []FiledByAccount
<1>1. Init => FiledByAccount
  BY DEF Init, FiledByAccount
<1> QED
  BY <1>1, FiledStep, SeatingInvariant, PTL DEF Spec

\* The steps that change the list of matches or a host.
LEMMA HandsChange ==
    ASSUME [Next]_vars, registry' # registry \/ host' # host
    PROVE  \E s \in Sessions :
             \/ \E m \in Matches : CreateMatch(s, m)
             \/ LeaveRoom(s)
             \/ \E k \in Slots : MatchTransferHost(s, k)
             \/ \E u \in Users : MpHost(s, u)
  BY DEF Next, vars, roomVars, playerVars, Login, Logout, MatchJoin, JoinMatch, MatchLock,
     MpUnlock, MpLock, SetAllSlots, InRoom, MatchPart, ReportStatus, Start, MatchChangeSlot,
     MpAddRef, MpRmRef, MpForce, ChangeReferees, ChannelJoin, ChannelPart, EnterChat, QuitChat,
     Follow, TourneyJoin, TourneyLeave

\* leave_match: the slots after it, and who inherits the host.
LEMMA LeaveHandsOn ==
    ASSUME Seating, NEW s \in Sessions, LeaveRoom(s)
    PROVE  LET m == matchOf[s] IN
           /\ m \in Matches
           /\ occupant'[m] = Vacated(s, m)
           /\ \A n \in Matches : n # m => host'[n] = host[n]
           /\ Deserted(s, m) => host'[m] = host[m]
           /\ host'[m] # host[m] =>
                \E k \in Slots : occupant'[m][k] # None /\ UserOf[occupant'[m][k]] = host'[m]
<1> DEFINE m == matchOf[s]
           left == {k \in Slots : Vacated(s, m)[k] # None}
<1>1. m \in Matches
  BY SeatFound DEF LeaveRoom
<1>2. /\ occupant'[m] = Vacated(s, m)
      /\ \A n \in Matches : n # m => host'[n] = host[n]
      /\ host'[m] = IF Deserted(s, m) \/ ChatFails(s, m) THEN host[m] ELSE Heir(s, m)
  BY <1>1 DEF LeaveRoom, Seating, TypeOK
<1>3. ASSUME host'[m] # host[m]
      PROVE  \E k \in Slots : occupant'[m][k] # None /\ UserOf[occupant'[m][k]] = host'[m]
  <2>1. ~Deserted(s, m) /\ host'[m] = UserOf[Vacated(s, m)[First(left)]]
    BY <1>2, <1>3 DEF Heir
  <2>2. left # {} /\ left \subseteq Nat
    BY <2>1, RoomsAssumption DEF Deserted
  <2> HIDE DEF left
  <2>3. First(left) \in left
    BY <2>2, FirstIsElement
  <2>4. First(left) \in Slots /\ Vacated(s, m)[First(left)] # None
    BY <2>3 DEF left
  <2> QED
    BY <2>1, <2>4, <1>2
<1> QED
  BY <1>1, <1>2, <1>3

\* An index of the match list is given up only when the match is empty.
THEOREM OnlyEmptyMatchesAreRemoved == Spec => RemovedWhenEmpty
<1> DEFINE A == \A i \in MatchIds :
                  registry[i] \notin {None, registry'[i]} =>
                    registry'[i] = None /\ \A k \in Slots : occupant'[registry[i]][k] = None
<1>1. Seating /\ [Next]_vars => A
  <2> SUFFICES ASSUME Seating, [Next]_vars, NEW i \in MatchIds,
                      registry[i] \notin {None, registry'[i]}
               PROVE  registry'[i] = None /\ \A k \in Slots : occupant'[registry[i]][k] = None
    OBVIOUS
  <2>1. PICK s \in Sessions : (\E m \in Matches : CreateMatch(s, m)) \/ LeaveRoom(s)
    <3>1. registry' # registry
      OBVIOUS
    <3> QED
      BY <3>1, HandsChange DEF MatchTransferHost, MpHost, Appoint
  <2>2. ASSUME NEW m \in Matches, CreateMatch(s, m) PROVE FALSE
    <3>1. FreeIds # {} /\ FreeIds \subseteq Nat
      BY <2>2, RoomsAssumption DEF CreateMatch, FreeIds
    <3>2. First(FreeIds) \in FreeIds
      BY <3>1, FirstIsElement
    <3> QED
      BY <2>2, <3>2 DEF CreateMatch, FreeIds, Seating, TypeOK
  <2>3. LeaveRoom(s)
    BY <2>1, <2>2
  <2>4. Deserted(s, matchOf[s]) /\ registry[i] = matchOf[s] /\ registry'[i] = None
    BY <2>3 DEF LeaveRoom, Seating, TypeOK
  <2> QED
    BY <2>3, <2>4, LeaveHandsOn DEF Deserted
<1> QED
  BY <1>1, SeatingInvariant, PTL DEF Spec, RemovedWhenEmpty

\* Whoever becomes the host of a listed match has a slot in it.
THEOREM HostsAreAppointedFromTheSeats == Spec => NewHostIsSeated
<1> DEFINE A == \A m \in Matches :
                  Registered(m) /\ host'[m] # host[m] =>
                    \E k \in Slots : occupant'[m][k] # None /\ UserOf[occupant'[m][k]] = host'[m]
<1>1. Seating /\ FiledByAccount /\ [Next]_vars => A
  <2> SUFFICES ASSUME Seating, FiledByAccount, [Next]_vars,
                      NEW m \in Matches, Registered(m), host'[m] # host[m]
               PROVE  \E k \in Slots : occupant'[m][k] # None /\ UserOf[occupant'[m][k]] = host'[m]
    OBVIOUS
  <2>1. PICK s \in Sessions :
          \/ \E n \in Matches : CreateMatch(s, n)
          \/ LeaveRoom(s)
          \/ \E k \in Slots : MatchTransferHost(s, k)
          \/ \E u \in Users : MpHost(s, u)
    BY HandsChange
  <2>2. CASE \E n \in Matches : CreateMatch(s, n)
    BY <2>2 DEF CreateMatch, Unused, Registered, Seating, TypeOK
  <2>3. CASE LeaveRoom(s)
    BY <2>3, LeaveHandsOn
  <2>4. CASE \E k \in Slots : MatchTransferHost(s, k)
    BY <2>4 DEF MatchTransferHost, Appoint, Seating, TypeOK
  <2>5. CASE \E u \in Users : MpHost(s, u)
    <3>1. PICK u \in Users : MpHost(s, u)
      BY <2>5
    <3>2. matchOf[s] = m /\ host'[m] = u /\ occupant' = occupant
      BY <3>1 DEF MpHost, Appoint, Seating, TypeOK
    <3>3. PICK k \in Slots : occupant[m][k] = byId[u]
      BY <3>1, <3>2 DEF MpHost, Plays, SeatsOf
    <3>4. byId[u] # None /\ UserOf[byId[u]] = u
      BY <3>1 DEF MpHost, Plays, FiledByAccount
    <3> QED
      BY <3>2, <3>3, <3>4
  <2> QED
    BY <2>1, <2>2, <2>3, <2>4, <2>5
<1> QED
  BY <1>1, SeatingInvariant, FiledInvariant, PTL DEF Spec, NewHostIsSeated

-----------------------------------------------------------------------------
(* CivilSpec: what the client's good manners buy *)

\* The table finds exactly the connected objects under their accounts.
TableIsExact == \A s \in Sessions : s \in online <=> byId[UserOf[s]] = s

\* Only a connected player is in a match.
PlayersAreConnected == \A s \in Sessions : matchOf[s] # None => s \in online

\* No player is left in a slot that get_free may give away.
OpenIsEmpty == \A m \in Matches, k \in Slots : status[m][k] = "open" => occupant[m][k] = None

\* A listed match has a host id: Match.host can look it up.
HostIsNamed == \A m \in Matches : Registered(m) => host[m] \in Users

\* Who follows a match has no slot in it.
FollowersDoNotPlay ==
    \A m \in Matches, k \in Slots :
      occupant[m][k] # None => UserOf[occupant[m][k]] \notin tourney[m]

\* Who is in a chat is connected.
ListenersAreConnected == \A m \in Matches : chat[m] \subseteq online

Hearing == SeatedHears /\ FollowersDoNotPlay /\ ListenersAreConnected

Manners ==
    /\ TableIsExact
    /\ PlayersAreConnected
    /\ OpenIsEmpty
    /\ HostIsNamed
    /\ MatchMeansSeat
    /\ HostIsSeated

Civil == Seating /\ FiledByAccount /\ Manners /\ Hearing

\* What NoTakeover says of one step.
NobodyDisplaced ==
    \A m \in Matches, k \in Slots :
      occupant[m][k] # None => occupant'[m][k] \in {None, occupant[m][k]}

LEMMA CivilIsAllowed == CivilNext => Next
  BY DEF CivilNext, Next

LEMMA MannersInit == Init => Manners
  BY RoomsAssumption DEF Init, Manners, TableIsExact, PlayersAreConnected, OpenIsEmpty,
     HostIsNamed, MatchMeansSeat, HostIsSeated, Registered

\* The player found as the host of a listed match.
LEMMA HostFound ==
    ASSUME Civil, NEW m \in Matches, Registered(m)
    PROVE  /\ HostOf(m) \in Sessions
           /\ HostOf(m) \in online
           /\ host[m] \in Users
           /\ UserOf[HostOf(m)] = host[m]
           /\ byId[host[m]] = HostOf(m)
           /\ \E k \in Slots : occupant[m][k] = HostOf(m)
           /\ matchOf[HostOf(m)] = m
<1>1. HostOf(m) \in online /\ host[m] \in Users /\ \E k \in Slots : occupant[m][k] = HostOf(m)
  BY DEF Civil, Manners, HostIsSeated, HostIsNamed, SeatsOf
<1>2. HostOf(m) \in Sessions /\ HostOf(m) # None
  BY <1>1, RoomsAssumption DEF Civil, Seating, TypeOK
<1> QED
  BY <1>1, <1>2 DEF HostOf, Civil, FiledByAccount, Seating, SeatPointsBack

\* A player of a match is connected, has a slot, and its match is listed.
LEMMA PlayerSeated ==
    ASSUME Civil, NEW s \in Sessions, matchOf[s] # None
    PROVE  /\ matchOf[s] \in Matches
           /\ Registered(matchOf[s])
           /\ s \in online
           /\ Seated(s)
           /\ \E k \in Slots : occupant[matchOf[s]][k] = s
<1>1. matchOf[s] \in Matches /\ s \in online /\ Seated(s)
  BY DEF Civil, Manners, PlayersAreConnected, MatchMeansSeat, Seating, TypeOK
<1>2. \E k \in Slots : occupant[matchOf[s]][k] = s
  BY <1>1 DEF Seated, SeatsOf
<1> QED
  BY <1>1, <1>2, RoomsAssumption DEF Civil, Manners, HostIsSeated

\* A step that only rewrites statuses, and opens no slot with a player in it.
LEMMA MannersStatus ==
    ASSUME Civil,
           \A m \in Matches, k \in Slots : status'[m][k] = "open" => occupant[m][k] = None,
           UNCHANGED <<playerVars, registry, host, occupant, matchOf>>
    PROVE  Manners' /\ NobodyDisplaced
<1>1. Manners'
  BY DEF Civil, Manners, TableIsExact, PlayersAreConnected, OpenIsEmpty, HostIsNamed,
     MatchMeansSeat, HostIsSeated, Registered, Seated, SeatsOf, HostOf, playerVars
<1>2. NobodyDisplaced
  BY DEF NobodyDisplaced
<1> QED
  BY <1>1, <1>2

\* A step that appoints a player with a slot in the match, or nobody.
LEMMA MannersAppoint ==
    ASSUME Civil, NEW m \in Matches, NEW h \in Sessions, NEW k \in Slots,
           occupant[m][k] = h,
           Appoint(m, UserOf[h])
    PROVE  Manners' /\ NobodyDisplaced
<1>1. /\ h # None /\ UserOf[h] \in Users
      /\ matchOf[h] = m
      /\ h \in online
      /\ byId[UserOf[h]] = h
  BY RoomsAssumption DEF Civil, Manners, Seating, SeatPointsBack, PlayersAreConnected, TableIsExact
<1>2. /\ UNCHANGED <<online, byId, registry, status, occupant, matchOf>>
      /\ \A n \in Matches : host'[n] = IF n = m THEN UserOf[h] ELSE host[n]
  BY DEF Appoint, playerVars, Civil, Seating, TypeOK
<1>3. (TableIsExact /\ PlayersAreConnected /\ OpenIsEmpty /\ MatchMeansSeat)'
  BY <1>2 DEF Civil, Manners, TableIsExact, PlayersAreConnected, OpenIsEmpty, MatchMeansSeat,
     Seated, SeatsOf
<1>4. HostIsNamed'
  BY <1>1, <1>2 DEF Civil, Manners, HostIsNamed, Registered
<1>5. HostIsSeated'
  BY <1>1, <1>2 DEF Civil, Manners, HostIsSeated, Registered, HostOf, SeatsOf
<1>6. NobodyDisplaced
  BY <1>2 DEF NobodyDisplaced
<1> QED
  BY <1>3, <1>4, <1>5, <1>6 DEF Manners

\* The end of a login of an account that is not in the table.
LEMMA MannersLogin ==
    ASSUME Civil, NEW s \in Sessions, byId[UserOf[s]] = None, Login(s)
    PROVE  Manners' /\ NobodyDisplaced
<1>1. /\ UNCHANGED <<registry, host, status, occupant, matchOf>>
      /\ online' = online \cup {s}
      /\ UserOf[s] \in Users
      /\ \A u \in Users : byId'[u] = IF u = UserOf[s] THEN s ELSE byId[u]
  BY RoomsAssumption DEF Login, roomVars, Civil, Seating, TypeOK
<1>2. TableIsExact'
  BY <1>1, RoomsAssumption DEF Civil, Manners, TableIsExact
<1>3. (PlayersAreConnected /\ OpenIsEmpty /\ MatchMeansSeat /\ HostIsNamed)'
  BY <1>1 DEF Civil, Manners, PlayersAreConnected, OpenIsEmpty, MatchMeansSeat, HostIsNamed,
     Registered, Seated, SeatsOf
<1>4. HostIsSeated'
  <2>1. ASSUME NEW m \in Matches, Registered(m)
        PROVE  HostOf(m)' = HostOf(m) /\ HostOf(m) \in online
    <3>1. HostOf(m) \in Sessions /\ host[m] \in Users /\ byId[host[m]] = HostOf(m)
          /\ HostOf(m) \in online
      BY <2>1, HostFound
    <3>2. host[m] # UserOf[s]
      BY <3>1, RoomsAssumption
    <3> QED
      BY <1>1, <3>1, <3>2 DEF HostOf
  <2>2. \A m \in Matches : Registered(m)' <=> Registered(m)
    BY <1>1 DEF Registered
  <2> QED
    BY <1>1, <2>1, <2>2 DEF Civil, Manners, HostIsSeated, SeatsOf
<1>5. NobodyDisplaced
  BY <1>1 DEF NobodyDisplaced
<1> QED
  BY <1>2, <1>3, <1>4, <1>5 DEF Manners

\* Player.join_match, by a connected player: the slot it takes was empty, for
\* only the host itself would overwrite one, and the host has a slot already.
LEMMA MannersJoin ==
    ASSUME Civil, NEW s \in Sessions, s \in online,
           NEW m \in Matches, Registered(m), JoinMatch(s, m)
    PROVE  Manners' /\ NobodyDisplaced
<1>1. ~IsHost(s, m)
  BY HostFound, RoomsAssumption DEF JoinMatch, IsHost
<1>2. PICK k \in Slots : status[m][k] = "open" /\ Sit(s, m, k)
  <2>1. OpenSlots(m) # {} /\ OpenSlots(m) \subseteq Nat
    BY <1>1, RoomsAssumption DEF JoinMatch, OpenSlots
  <2>2. First(OpenSlots(m)) \in OpenSlots(m)
    BY <2>1, FirstIsElement
  <2> QED
    BY <1>1, <2>2 DEF JoinMatch, OpenSlots
<1>3. /\ UNCHANGED <<online, byId, registry, host>>
      /\ \A n \in Matches, j \in Slots :
           /\ occupant'[n][j] = IF n = m /\ j = k THEN s ELSE occupant[n][j]
           /\ status'[n][j] = IF n = m /\ j = k THEN "taken" ELSE status[n][j]
      /\ \A r \in Sessions : matchOf'[r] = IF r = s THEN m ELSE matchOf[r]
  BY <1>2 DEF JoinMatch, playerVars, Civil, Seating, TypeOK, Sit
<1>4. occupant[m][k] = None /\ m # None /\ s # None
  BY <1>2, RoomsAssumption DEF Civil, Manners, OpenIsEmpty
<1>5. (TableIsExact /\ PlayersAreConnected /\ OpenIsEmpty /\ HostIsNamed)'
  BY <1>3 DEF Civil, Manners, TableIsExact, PlayersAreConnected, OpenIsEmpty, HostIsNamed,
     Registered
<1>6. \A r \in Sessions, n \in Matches :
        (\E j \in Slots : occupant[n][j] = r) => \E j \in Slots : occupant'[n][j] = r
  BY <1>3, <1>4, RoomsAssumption
<1>7. MatchMeansSeat'
  <2> SUFFICES ASSUME NEW r \in Sessions, matchOf'[r] # None
               PROVE  \E j \in Slots : occupant'[matchOf'[r]][j] = r
    BY DEF MatchMeansSeat, Seated, SeatsOf
  <2>1. CASE r = s
    BY <2>1, <1>3
  <2>2. CASE r # s
    BY <2>2, <1>3, <1>6, PlayerSeated
  <2> QED
    BY <2>1, <2>2
<1>8. HostIsSeated'
  <2>1. ASSUME NEW n \in Matches, Registered(n)'
        PROVE  HostOf(n)' \in online' /\ \E j \in Slots : occupant'[n][j] = HostOf(n)'
    <3>1. Registered(n) /\ HostOf(n)' = HostOf(n)
      BY <1>3, <2>1 DEF Registered, HostOf
    <3> QED
      BY <3>1, <1>3, <1>6, HostFound
  <2>2. ASSUME NEW n \in Matches, NEW j \in Slots, occupant'[n][j] # None
        PROVE  Registered(n)'
    <3>1. n = m \/ occupant[n][j] # None
      BY <2>2, <1>3
    <3> QED
      BY <3>1, <1>3 DEF Civil, Manners, HostIsSeated, Registered
  <2> QED
    BY <2>1, <2>2 DEF HostIsSeated, SeatsOf
<1>9. NobodyDisplaced
  BY <1>3, <1>4 DEF NobodyDisplaced
<1> QED
  BY <1>5, <1>7, <1>8, <1>9 DEF Manners

\* MatchCreate by a connected player in no match: it always gets in.
LEMMA MannersCreate ==
    ASSUME Civil, NEW s \in Sessions, s \in online, matchOf[s] = None,
           NEW m \in Matches, CreateMatch(s, m)
    PROVE  Manners' /\ NobodyDisplaced
<1> DEFINE i0 == First(FreeIds)
<1>1. i0 \in MatchIds /\ registry[i0] = None
  <2>1. FreeIds \subseteq Nat /\ FreeIds # {}
    BY RoomsAssumption DEF FreeIds, CreateMatch
  <2> QED
    BY <2>1, FirstIsElement DEF FreeIds
<1>2. byId[UserOf[s]] = s /\ UserOf[s] \in Users /\ s # None /\ m # None
  BY RoomsAssumption DEF Civil, Manners, TableIsExact
<1>3. /\ occupant' = [occupant EXCEPT ![m] = [k \in Slots |-> IF k = 0 THEN s ELSE None]]
      /\ status' = [status EXCEPT ![m] = [k \in Slots |-> IF k = 0 THEN "taken" ELSE "open"]]
      /\ matchOf' = [matchOf EXCEPT ![s] = m]
  BY <1>2 DEF CreateMatch
<1>4. \A n \in Matches, j \in Slots :
        /\ occupant'[n][j] = IF n = m THEN IF j = 0 THEN s ELSE None ELSE occupant[n][j]
        /\ status'[n][j] = IF n = m THEN IF j = 0 THEN "taken" ELSE "open" ELSE status[n][j]
  BY <1>3 DEF Civil, Seating, TypeOK
<1>5. /\ UNCHANGED <<online, byId>>
      /\ \A r \in Sessions : matchOf'[r] = IF r = s THEN m ELSE matchOf[r]
      /\ \A n \in Matches : host'[n] = IF n = m THEN UserOf[s] ELSE host[n]
      /\ \A i \in MatchIds : registry'[i] = IF i = i0 THEN m ELSE registry[i]
  BY <1>1, <1>3 DEF CreateMatch, playerVars, Civil, Seating, TypeOK
<1> HIDE DEF i0
<1>6. \A j \in Slots : occupant[m][j] = None
  BY DEF CreateMatch, Unused, Civil, Seating, TypeOK, SeatPointsBack
<1>7. \A n \in Matches : n # m => (Registered(n)' <=> Registered(n))
  BY <1>1, <1>5, RoomsAssumption DEF Registered
<1>8. Registered(m)' /\ ~Registered(m)
  BY <1>1, <1>5 DEF Registered, CreateMatch, Unused
<1>9. (TableIsExact /\ PlayersAreConnected)'
  BY <1>5 DEF Civil, Manners, TableIsExact, PlayersAreConnected
<1>10. OpenIsEmpty'
  BY <1>4 DEF Civil, Manners, OpenIsEmpty
<1>11. HostIsNamed'
  BY <1>2, <1>5, <1>7 DEF Civil, Manners, HostIsNamed
<1>12. MatchMeansSeat'
  <2> SUFFICES ASSUME NEW r \in Sessions, matchOf'[r] # None
               PROVE  \E j \in Slots : occupant'[matchOf'[r]][j] = r
    BY DEF MatchMeansSeat, Seated, SeatsOf
  <2>1. CASE r = s
    BY <2>1, <1>4, <1>5, RoomsAssumption
  <2>2. CASE r # s
    <3>1. matchOf'[r] = matchOf[r] /\ matchOf[r] # m
      BY <2>2, <1>5 DEF CreateMatch, Unused
    <3>2. matchOf[r] \in Matches /\ \E j \in Slots : occupant[matchOf[r]][j] = r
      BY <3>1, PlayerSeated
    <3> QED
      BY <3>1, <3>2, <1>4
  <2> QED
    BY <2>1, <2>2
<1>13. HostIsSeated'
  <2>1. ASSUME NEW n \in Matches, Registered(n)'
        PROVE  HostOf(n)' \in online' /\ \E j \in Slots : occupant'[n][j] = HostOf(n)'
    <3>1. CASE n = m
      <4>1. HostOf(n)' = s
        BY <3>1, <1>2, <1>5 DEF HostOf
      <4> QED
        BY <3>1, <4>1, <1>4, <1>5, RoomsAssumption
    <3>2. CASE n # m
      <4>1. Registered(n) /\ HostOf(n)' = HostOf(n)
        BY <1>5, <1>7, <2>1, <3>2 DEF HostOf
      <4>2. HostOf(n) \in online /\ \E j \in Slots : occupant[n][j] = HostOf(n)
        BY <4>1, HostFound
      <4> QED
        BY <3>2, <4>1, <4>2, <1>4, <1>5
    <3> QED
      BY <3>1, <3>2
  <2>2. ASSUME NEW n \in Matches, NEW j \in Slots, occupant'[n][j] # None
        PROVE  Registered(n)'
    BY <2>2, <1>4, <1>7, <1>8 DEF Civil, Manners, HostIsSeated
  <2> QED
    BY <2>1, <2>2 DEF HostIsSeated, SeatsOf
<1>14. NobodyDisplaced
  BY <1>4, <1>6 DEF NobodyDisplaced
<1> QED
  BY <1>9, <1>10, <1>11, <1>12, <1>13, <1>14 DEF Manners

\* MatchChangeSlot: the slot it takes is open, so empty, and the one it leaves
\* was not open.
LEMMA MannersChangeSlot ==
    ASSUME Civil, NEW s \in Sessions, NEW k \in Slots, MatchChangeSlot(s, k)
    PROVE  Manners' /\ NobodyDisplaced
<1> DEFINE m == matchOf[s]
           k0 == First(SeatsOf(s, m))
<1>1. /\ m \in Matches /\ k0 \in Slots /\ s # None
      /\ \A n \in Matches, j \in Slots : occupant[n][j] = s <=> n = m /\ j = k0
  BY SeatFound, RoomsAssumption DEF MatchChangeSlot, Civil
<1> HIDE DEF k0
<1>2. \A n \in Matches, j \in Slots :
        /\ occupant'[n][j] = IF n = m /\ j = k0 THEN None
                             ELSE IF n = m /\ j = k THEN s ELSE occupant[n][j]
        /\ status'[n][j] = IF n = m /\ j = k0 THEN "open"
                           ELSE IF n = m /\ j = k THEN status[m][k0] ELSE status[n][j]
  BY <1>1 DEF MatchChangeSlot, Civil, Seating, TypeOK, k0
<1>3. UNCHANGED <<online, byId, registry, host, matchOf>>
  BY DEF MatchChangeSlot, playerVars
<1>4. occupant[m][k] = None /\ status[m][k0] # "open" /\ k # k0
  BY <1>1 DEF MatchChangeSlot, Civil, Manners, OpenIsEmpty
<1>5. (TableIsExact /\ PlayersAreConnected /\ HostIsNamed)'
  BY <1>3 DEF Civil, Manners, TableIsExact, PlayersAreConnected, HostIsNamed, Registered
<1>6. OpenIsEmpty'
  BY <1>2, <1>4 DEF Civil, Manners, OpenIsEmpty
<1>7. \A r \in Sessions, n \in Matches :
        (\E j \in Slots : occupant[n][j] = r) => \E j \in Slots : occupant'[n][j] = r
  <2> SUFFICES ASSUME NEW r \in Sessions, NEW n \in Matches, NEW j \in Slots, occupant[n][j] = r
               PROVE  \E i \in Slots : occupant'[n][i] = r
    OBVIOUS
  <2>1. CASE r = s
    BY <2>1, <1>1, <1>2, <1>4
  <2>2. CASE r # s
    BY <2>2, <1>1, <1>2, <1>4, RoomsAssumption
  <2> QED
    BY <2>1, <2>2
<1>8. MatchMeansSeat'
  BY <1>3, <1>7, PlayerSeated DEF MatchMeansSeat, Seated, SeatsOf
<1>9. HostIsSeated'
  <2>1. ASSUME NEW n \in Matches, Registered(n)'
        PROVE  HostOf(n)' \in online' /\ \E j \in Slots : occupant'[n][j] = HostOf(n)'
    <3>1. Registered(n) /\ HostOf(n)' = HostOf(n)
      BY <1>3, <2>1 DEF Registered, HostOf
    <3> QED
      BY <3>1, <1>3, <1>7, HostFound
  <2>2. ASSUME NEW n \in Matches, NEW j \in Slots, occupant'[n][j] # None
        PROVE  Registered(n)'
    <3>1. \E i \in Slots : occupant[n][i] # None
      BY <2>2, <1>1, <1>2
    <3> QED
      BY <3>1, <1>3 DEF Civil, Manners, HostIsSeated, Registered
  <2> QED
    BY <2>1, <2>2 DEF HostIsSeated, SeatsOf
<1>10. NobodyDisplaced
  BY <1>2, <1>4 DEF NobodyDisplaced
<1> QED
  BY <1>5, <1>6, <1>8, <1>9, <1>10 DEF Manners

\* Player.leave_match returns: the host and whoever inherits it are found.  What
\* is left of the room, for MatchPart and for Player.logout.
LEMMA LeaveCompletes ==
    ASSUME Civil, NEW s \in Sessions, LeaveRoom(s)
    PROVE  /\ LeaveReturns(s, matchOf[s])
           /\ \A r \in Sessions : matchOf'[r] = IF r = s THEN None ELSE matchOf[r]
           /\ \A n \in Matches, j \in Slots :
                occupant'[n][j] = IF occupant[n][j] = s THEN None ELSE occupant[n][j]
           /\ \A n \in Matches, j \in Slots : status'[n][j] = "open" => occupant'[n][j] = None
           /\ \A n \in Matches : Registered(n)' =>
                /\ Registered(n)
                /\ host'[n] \in Users
                /\ \E h \in Sessions, j \in Slots :
                     h \in online /\ h # s /\ byId[host'[n]] = h /\ occupant'[n][j] = h
           /\ \A n \in Matches, j \in Slots : occupant'[n][j] # None => Registered(n)'
<1> DEFINE m == matchOf[s]
           k0 == First(SeatsOf(s, m))
           left == {k \in Slots : Vacated(s, m)[k] # None}
           heir == Vacated(s, m)[First(left)]
<1>1. /\ m \in Matches /\ k0 \in Slots /\ s # None /\ m # None
      /\ \A n \in Matches, k \in Slots : occupant[n][k] = s <=> n = m /\ k = k0
  BY SeatFound, RoomsAssumption DEF LeaveRoom, Civil
<1>2. \A k \in Slots : Vacated(s, m)[k] = IF k = k0 THEN None ELSE occupant[m][k]
  BY <1>1 DEF Vacated, k0, Civil, Seating, TypeOK
<1>3. \A n \in Matches, k \in Slots :
        occupant'[n][k] = IF n = m /\ k = k0 THEN None ELSE occupant[n][k]
  <2>1. \A n \in Matches : occupant'[n] = IF n = m THEN Vacated(s, m) ELSE occupant[n]
    BY <1>1 DEF LeaveRoom, Civil, Seating, TypeOK
  <2> QED
    BY <2>1, <1>2
<1>4. \A n \in Matches, k \in Slots : ~(n = m /\ k = k0) => status'[n][k] = status[n][k]
  BY <1>1 DEF LeaveRoom, Civil, Seating, TypeOK, k0
<1> HIDE DEF k0
<1>5. Registered(m) /\ HostOf(m) \in Sessions /\ HostOf(m) # None
  BY <1>1, PlayerSeated, HostFound, RoomsAssumption
<1>6. ~Deserted(s, m) =>
        /\ First(left) \in Slots
        /\ heir \in Sessions /\ heir # s /\ heir # None
        /\ occupant'[m][First(left)] = heir
        /\ heir \in online
        /\ byId[UserOf[heir]] = heir
  <2> SUFFICES ASSUME ~Deserted(s, m)
               PROVE  /\ First(left) \in Slots
                      /\ heir \in Sessions /\ heir # s /\ heir # None
                      /\ occupant'[m][First(left)] = heir
                      /\ heir \in online
                      /\ byId[UserOf[heir]] = heir
    OBVIOUS
  <2>1. left # {} /\ left \subseteq Nat
    BY RoomsAssumption DEF Deserted
  <2>2. First(left) \in left
    <3> HIDE DEF left
    <3> QED
      BY <2>1, FirstIsElement
  <2>3. PICK k \in Slots : k = First(left) /\ Vacated(s, m)[k] # None
    BY <2>2
  <2> HIDE DEF left
  <2>4. k # k0 /\ heir = occupant[m][k] /\ heir # None
    BY <2>3, <1>2
  <2>5. heir \in Sessions /\ heir # s /\ matchOf[heir] = m
    BY <2>4, <1>1 DEF Civil, Seating, TypeOK, SeatPointsBack
  <2>6. heir \in online /\ byId[UserOf[heir]] = heir
    BY <2>5, <1>1 DEF Civil, Manners, PlayersAreConnected, TableIsExact
  <2> QED
    BY <2>3, <2>4, <2>5, <2>6, <1>1, <1>3
<1>7. ~Deserted(s, m) => Heir(s, m) = IF IsHost(s, m) THEN UserOf[heir] ELSE host[m]
  BY DEF Heir
<1> HIDE DEF heir
<1>8. ~ChatFails(s, m) /\ LeaveReturns(s, m)
  <2>1. ~ChatFails(s, m)
    BY <1>1 DEF ChatFails, Civil, Hearing, SeatedHears
  <2> QED
    BY <2>1, <1>5, <1>6, <1>7 DEF LeaveReturns, HostOf
<1>9. \A r \in Sessions : matchOf'[r] = IF r = s THEN None ELSE matchOf[r]
  BY <1>8 DEF LeaveRoom, Civil, Seating, TypeOK
<1>10. \A n \in Matches, j \in Slots :
         occupant'[n][j] = IF occupant[n][j] = s THEN None ELSE occupant[n][j]
  BY <1>1, <1>3
<1>11. \A n \in Matches, j \in Slots : status'[n][j] = "open" => occupant'[n][j] = None
  BY <1>3, <1>4 DEF Civil, Manners, OpenIsEmpty
<1>12. \A n \in Matches : Registered(n)' <=> Registered(n) /\ (n = m => ~Deserted(s, m))
  <2>1. \A i \in MatchIds :
          registry'[i] = IF Deserted(s, m) /\ registry[i] = m THEN None ELSE registry[i]
    BY <1>8 DEF LeaveRoom
  <2> QED
    BY <2>1, RoomsAssumption DEF Registered
<1>13. \A n \in Matches :
         host'[n] = IF n = m /\ ~Deserted(s, m) THEN Heir(s, m) ELSE host[n]
  BY <1>1, <1>8 DEF LeaveRoom, Civil, Seating, TypeOK
<1>14. ASSUME NEW n \in Matches, Registered(n)'
       PROVE  /\ Registered(n)
              /\ host'[n] \in Users
              /\ \E h \in Sessions, j \in Slots :
                   h \in online /\ h # s /\ byId[host'[n]] = h /\ occupant'[n][j] = h
  <2>1. Registered(n) /\ (n = m => ~Deserted(s, m))
    BY <1>12, <1>14
  <2>2. CASE n = m /\ IsHost(s, m)
    <3>1. host'[n] = UserOf[heir]
      BY <2>1, <2>2, <1>7, <1>13
    <3> QED
      BY <2>1, <2>2, <3>1, <1>6, RoomsAssumption
  <2>3. CASE ~(n = m /\ IsHost(s, m))
    <3>1. host'[n] = host[n]
      BY <2>1, <2>3, <1>7, <1>13
    <3>2. /\ HostOf(n) \in Sessions /\ HostOf(n) \in online /\ host[n] \in Users
          /\ byId[host[n]] = HostOf(n) /\ matchOf[HostOf(n)] = n
      BY <2>1, HostFound
    <3>3. PICK j \in Slots : occupant[n][j] = HostOf(n)
      BY <2>1, HostFound
    <3>4. HostOf(n) # s
      BY <3>2, <2>3 DEF IsHost
    <3>5. occupant'[n][j] = HostOf(n)
      BY <3>3, <3>4, <1>10
    <3> QED
      BY <2>1, <3>1, <3>2, <3>4, <3>5
  <2> QED
    BY <2>2, <2>3
<1>15. ASSUME NEW n \in Matches, NEW j \in Slots, occupant'[n][j] # None
       PROVE  Registered(n)'
  <2>1. occupant[n][j] # None /\ ~(n = m /\ j = k0)
    BY <1>3, <1>15
  <2>2. Registered(n)
    BY <2>1 DEF Civil, Manners, HostIsSeated
  <2>3. n = m => ~Deserted(s, m)
    BY <2>1, <1>2 DEF Deserted
  <2> QED
    BY <2>2, <2>3, <1>12
<1> QED
  BY <1>8, <1>9, <1>10, <1>11, <1>14, <1>15

\* MatchPart and Player.logout, by a connected player.
LEMMA MannersLeave ==
    ASSUME Civil, NEW s \in Sessions, s \in online, MatchPart(s) \/ Logout(s)
    PROVE  Manners' /\ NobodyDisplaced
<1>1. s # None /\ UserOf[s] \in Users /\ byId[UserOf[s]] = s
  BY RoomsAssumption DEF Civil, Manners, TableIsExact
<1>2. \/ UNCHANGED <<online, byId>>
      \/ /\ matchOf'[s] = None
         /\ online' = online \ {s}
         /\ \A u \in Users : byId'[u] = IF u = UserOf[s] THEN None ELSE byId[u]
  <2>1. CASE MatchPart(s)
    BY <2>1 DEF MatchPart, playerVars
  <2>2. CASE Logout(s)
    <3>1. matchOf'[s] = None /\ ~LeaveRaises(s)
      <4>1. CASE LeaveRoom(s)
        BY <4>1, LeaveCompletes DEF LeaveRaises
      <4>2. CASE matchOf[s] = None /\ UNCHANGED matchOf
        BY <4>2 DEF Seated, LeaveRaises
      <4> QED
        BY <2>2, <4>1, <4>2 DEF Logout
    <3>2. ~LogoutStops(s)
      <4>1. \A m \in Matches : ~ChatFails(s, m)
        BY DEF ChatFails, Civil, Hearing, SeatedHears
      <4> QED
        BY <3>1, <4>1 DEF LogoutStops
    <3> QED
      BY <2>2, <3>1, <3>2 DEF Logout, LogoutEnds, Civil, Seating, TypeOK
  <2> QED
    BY <2>1, <2>2
<1>3. \/ LeaveRoom(s)
      \/ matchOf[s] = None /\ UNCHANGED <<registry, host, status, occupant, matchOf>>
  BY DEF MatchPart, Logout
<1>4. /\ \A r \in Sessions : matchOf'[r] = IF r = s THEN None ELSE matchOf[r]
      /\ \A n \in Matches, j \in Slots :
           occupant'[n][j] = IF occupant[n][j] = s THEN None ELSE occupant[n][j]
      /\ \A n \in Matches, j \in Slots : status'[n][j] = "open" => occupant'[n][j] = None
      /\ \A n \in Matches : Registered(n)' =>
           /\ Registered(n)
           /\ host'[n] \in Users
           /\ \E h \in Sessions, j \in Slots :
                h \in online /\ h # s /\ byId[host'[n]] = h /\ occupant'[n][j] = h
      /\ \A n \in Matches, j \in Slots : occupant'[n][j] # None => Registered(n)'
  <2>1. CASE LeaveRoom(s)
    BY <2>1, LeaveCompletes
  <2>2. CASE matchOf[s] = None /\ UNCHANGED <<registry, host, status, occupant, matchOf>>
    <3>1. \A n \in Matches, j \in Slots : occupant[n][j] # s
      BY <2>2, Unseated DEF Civil
    <3>2. \A r \in Sessions : matchOf'[r] = IF r = s THEN None ELSE matchOf[r]
      BY <2>2
    <3>3. \A n \in Matches : Registered(n)' <=> Registered(n)
      BY <2>2 DEF Registered
    <3>4. ASSUME NEW n \in Matches, Registered(n)
          PROVE  \E h \in Sessions, j \in Slots :
                   h \in online /\ h # s /\ byId[host'[n]] = h /\ occupant'[n][j] = h
      <4>1. HostOf(n) \in Sessions /\ HostOf(n) \in online /\ byId[host[n]] = HostOf(n)
        BY <3>4, HostFound
      <4>2. PICK j \in Slots : occupant[n][j] = HostOf(n)
        BY <3>4, HostFound
      <4> QED
        BY <2>2, <3>1, <4>1, <4>2
    <3>5. \A n \in Matches : Registered(n) => host'[n] \in Users
      BY <2>2, HostFound
    <3>6. \A n \in Matches, j \in Slots :
            /\ occupant'[n][j] = occupant[n][j] /\ occupant[n][j] # s
            /\ status'[n][j] = "open" => occupant'[n][j] = None
            /\ occupant'[n][j] # None => Registered(n)
      BY <2>2, <3>1 DEF Civil, Manners, OpenIsEmpty, HostIsSeated
    <3> QED
      BY <3>2, <3>3, <3>4, <3>5, <3>6
  <2> QED
    BY <1>3, <2>1, <2>2
<1>5. TableIsExact'
  BY <1>1, <1>2, RoomsAssumption DEF Civil, Manners, TableIsExact
<1>6. PlayersAreConnected'
  BY <1>2, <1>4 DEF Civil, Manners, PlayersAreConnected
<1>7. OpenIsEmpty' /\ HostIsNamed'
  BY <1>4 DEF OpenIsEmpty, HostIsNamed
<1>8. MatchMeansSeat'
  <2> SUFFICES ASSUME NEW r \in Sessions, matchOf'[r] # None
               PROVE  \E j \in Slots : occupant'[matchOf'[r]][j] = r
    BY DEF MatchMeansSeat, Seated, SeatsOf
  <2>1. r # s /\ matchOf'[r] = matchOf[r]
    BY <1>4
  <2>2. matchOf[r] \in Matches /\ \E j \in Slots : occupant[matchOf[r]][j] = r
    BY <2>1, PlayerSeated
  <2> QED
    BY <2>1, <2>2, <1>4
<1>9. HostIsSeated'
  <2>1. ASSUME NEW n \in Matches, Registered(n)'
        PROVE  HostOf(n)' \in online' /\ \E j \in Slots : occupant'[n][j] = HostOf(n)'
    <3>1. PICK h \in Sessions, j \in Slots :
            h \in online /\ h # s /\ byId[host'[n]] = h /\ occupant'[n][j] = h
      BY <2>1, <1>4
    <3>2. host'[n] \in Users /\ h # None
      BY <2>1, <1>4, RoomsAssumption
    <3>3. UserOf[h] = host'[n]
      BY <3>1, <3>2 DEF Civil, FiledByAccount
    <3>4. host'[n] # UserOf[s]
      BY <3>1, <3>2, <3>3, <1>1
    <3>5. byId'[host'[n]] = h /\ h \in online'
      BY <3>1, <3>2, <3>4, <1>2
    <3> QED
      BY <3>1, <3>5 DEF HostOf
  <2>2. \A n \in Matches, j \in Slots : occupant'[n][j] # None => Registered(n)'
    BY <1>4
  <2> QED
    BY <2>1, <2>2 DEF HostIsSeated, SeatsOf
<1>10. NobodyDisplaced
  BY <1>4 DEF NobodyDisplaced
<1> QED
  BY <1>5, <1>6, <1>7, <1>8, <1>9, <1>10 DEF Manners

\* The handlers that only rewrite statuses.  A slot that a kicked player has not
\* left yet is locked, and a patient client does not unlock it.
LEMMA MannersSlots ==
    ASSUME Civil, NEW s \in Sessions,
           \/ \E k \in Slots : Patient(s, {k}) /\ MatchLock(s, k)
           \/ Patient(s, Slots) /\ MpUnlock(s)
           \/ MpLock(s)
           \/ Start(s)
           \/ ReportStatus(s)
    PROVE  Manners' /\ NobodyDisplaced
<1> DEFINE m == matchOf[s]
<1>1. m \in Matches /\ m # None
  <2>1. m # None
    BY DEF MatchLock, MpUnlock, MpLock, SetAllSlots, MayCommand, Start, ReportStatus, Seated
  <2> QED
    BY <2>1, PlayerSeated
<1>2. UNCHANGED <<playerVars, registry, host, occupant, matchOf>>
  BY DEF MatchLock, MpUnlock, MpLock, SetAllSlots, Start, ReportStatus
<1>3. \A n \in Matches, j \in Slots : status'[n][j] = "open" => occupant[n][j] = None
  <2>1. CASE \E k \in Slots : Patient(s, {k}) /\ MatchLock(s, k)
    <3>1. PICK k \in Slots : Patient(s, {k}) /\ MatchLock(s, k)
      BY <2>1
    <3>2. status[m][k] = "locked" => occupant[m][k] = None
      BY <3>1, <1>1 DEF Patient, Kicked
    <3>3. PICK v \in {"open", "locked"} :
            /\ status' = [status EXCEPT ![m][k] = v]
            /\ v = "open" => status[m][k] = "locked"
      BY <3>1 DEF MatchLock
    <3> HIDE DEF m
    <3>4. \A n \in Matches, j \in Slots :
            status'[n][j] = IF n = m /\ j = k THEN v ELSE status[n][j]
      BY <3>3, <1>1 DEF Civil, Seating, TypeOK
    <3> QED
      BY <3>2, <3>3, <3>4 DEF Civil, Manners, OpenIsEmpty
  <2>2. CASE Patient(s, Slots) /\ MpUnlock(s)
    <3>1. \A j \in Slots : status[m][j] = "locked" => occupant[m][j] = None
      BY <2>2, <1>1 DEF Patient, Kicked
    <3>2. status' = [status EXCEPT ![m] =
             [j \in Slots |-> IF status[m][j] = "locked" THEN "open" ELSE status[m][j]]]
      BY <2>2 DEF MpUnlock, SetAllSlots
    <3> HIDE DEF m
    <3>3. \A n \in Matches, j \in Slots :
            status'[n][j] = IF n = m /\ status[m][j] = "locked" THEN "open" ELSE status[n][j]
      BY <3>2, <1>1 DEF Civil, Seating, TypeOK
    <3> QED
      BY <3>1, <3>3 DEF Civil, Manners, OpenIsEmpty
  <2>3. CASE MpLock(s)
    <3>1. status' = [status EXCEPT ![m] =
             [j \in Slots |-> IF status[m][j] = "open" THEN "locked" ELSE status[m][j]]]
      BY <2>3 DEF MpLock, SetAllSlots
    <3> HIDE DEF m
    <3>2. \A n \in Matches, j \in Slots :
            status'[n][j] = IF n = m /\ status[m][j] = "open" THEN "locked" ELSE status[n][j]
      BY <3>1, <1>1 DEF Civil, Seating, TypeOK
    <3> QED
      BY <3>2 DEF Civil, Manners, OpenIsEmpty
  <2>4. CASE Start(s)
    <3>1. status' = [status EXCEPT ![m] =
             [j \in Slots |-> IF occupant[m][j] # None THEN "taken" ELSE status[m][j]]]
      BY <2>4 DEF Start
    <3> HIDE DEF m
    <3>2. \A n \in Matches, j \in Slots :
            status'[n][j] = IF n = m /\ occupant[m][j] # None THEN "taken" ELSE status[n][j]
      BY <3>1, <1>1 DEF Civil, Seating, TypeOK
    <3> QED
      BY <3>2 DEF Civil, Manners, OpenIsEmpty
  <2>5. CASE ReportStatus(s)
    <3> DEFINE k0 == First(SeatsOf(s, m))
    <3>1. status' = [status EXCEPT ![m][k0] = "taken"]
      BY <2>5 DEF ReportStatus
    <3> HIDE DEF m, k0
    <3>2. \A n \in Matches, j \in Slots : status'[n][j] \in {"taken", status[n][j]}
      BY <3>1, <1>1 DEF Civil, Seating, TypeOK
    <3> QED
      BY <3>2 DEF Civil, Manners, OpenIsEmpty
  <2> QED
    BY <2>1, <2>2, <2>3, <2>4, <2>5
<1> QED
  BY <1>2, <1>3, MannersStatus

\* MatchTransferHost, !mp host, !mp addref and !mp rmref.
LEMMA MannersOffice ==
    ASSUME Civil, NEW s \in Sessions,
           \/ \E k \in Slots : MatchTransferHost(s, k)
           \/ \E u \in Users : MpHost(s, u) \/ MpAddRef(s, u) \/ MpRmRef(s, u)
    PROVE  Manners' /\ NobodyDisplaced
<1>1. CASE \E k \in Slots : MatchTransferHost(s, k)
  <2>1. PICK k \in Slots : MatchTransferHost(s, k)
    BY <1>1
  <2>2. matchOf[s] \in Matches
    BY <2>1 DEF MatchTransferHost, Civil, Seating, TypeOK
  <2>3. occupant[matchOf[s]][k] \in Sessions
    BY <2>1, <2>2 DEF MatchTransferHost, Civil, Seating, TypeOK
  <2> QED
    BY <2>1, <2>2, <2>3, MannersAppoint DEF MatchTransferHost
<1>2. CASE \E u \in Users : MpHost(s, u)
  <2>1. PICK u \in Users : MpHost(s, u)
    BY <1>2
  <2>2. matchOf[s] \in Matches
    BY <2>1, CommandIsLocal DEF MpHost, Civil
  <2>3. byId[u] \in Sessions /\ UserOf[byId[u]] = u
    BY <2>1 DEF MpHost, Plays, Civil, Seating, TypeOK, FiledByAccount
  <2>4. \E k \in Slots : occupant[matchOf[s]][k] = byId[u]
    BY <2>1 DEF MpHost, Plays, SeatsOf
  <2> QED
    BY <2>1, <2>2, <2>3, <2>4, MannersAppoint DEF MpHost
<1>3. CASE \E u \in Users : MpAddRef(s, u) \/ MpRmRef(s, u)
  <2>1. UNCHANGED <<playerVars, registry, host, status, occupant, matchOf>>
    BY <1>3 DEF MpAddRef, MpRmRef, ChangeReferees
  <2>2. Manners'
    BY <2>1 DEF Civil, Manners, TableIsExact, PlayersAreConnected, OpenIsEmpty, HostIsNamed,
       MatchMeansSeat, HostIsSeated, Registered, Seated, SeatsOf, HostOf, playerVars
  <2>3. NobodyDisplaced
    BY <2>1 DEF NobodyDisplaced
  <2> QED
    BY <2>2, <2>3
<1> QED
  BY <1>1, <1>2, <1>3

\* MatchJoin, and !mp force, which makes a player that the table finds join the
\* match the command is typed in.
LEMMA MannersEnter ==
    ASSUME Civil, NEW s \in Sessions, s \in online,
           \/ \E i \in MatchIds : MatchJoin(s, i)
           \/ \E u \in Users : MpForce(s, u)
    PROVE  Manners' /\ NobodyDisplaced
<1>1. CASE \E i \in MatchIds : MatchJoin(s, i)
  <2>1. PICK i \in MatchIds : MatchJoin(s, i)
    BY <1>1
  <2>2. registry[i] \in Matches /\ Registered(registry[i])
    BY <2>1 DEF MatchJoin, Registered, Civil, Seating, TypeOK
  <2> QED
    BY <2>1, <2>2, MannersJoin DEF MatchJoin
<1>2. CASE \E u \in Users : MpForce(s, u)
  <2>1. PICK u \in Users : MpForce(s, u)
    BY <1>2
  <2>2. matchOf[s] \in Matches /\ Registered(matchOf[s])
    BY <2>1, PlayerSeated DEF MpForce, MayCommand
  <2>3. byId[u] \in Sessions /\ UserOf[byId[u]] = u
    BY <2>1 DEF MpForce, Civil, Seating, TypeOK, FiledByAccount
  <2>4. byId[u] \in online
    BY <2>3 DEF Civil, Manners, TableIsExact
  <2> QED
    BY <2>1, <2>2, <2>3, <2>4, MannersJoin DEF MpForce
<1> QED
  BY <1>1, <1>2

\* A tournament client enters or leaves a chat.
LEMMA MannersFollow ==
    ASSUME Civil, NEW s \in Sessions, Follow(s)
    PROVE  Manners' /\ NobodyDisplaced
<1>1. UNCHANGED <<playerVars, registry, host, status, occupant, matchOf>>
  BY DEF Follow, TourneyJoin, TourneyLeave, EnterChat, QuitChat
<1>2. Manners'
  BY <1>1 DEF Civil, Manners, TableIsExact, PlayersAreConnected, OpenIsEmpty, HostIsNamed,
     MatchMeansSeat, HostIsSeated, Registered, Seated, SeatsOf, HostOf, playerVars
<1>3. NobodyDisplaced
  BY <1>1 DEF NobodyDisplaced
<1> QED
  BY <1>2, <1>3

LEMMA MannersStep == Civil /\ [CivilNext]_vars => Manners' /\ NobodyDisplaced
<1> SUFFICES ASSUME Civil, [CivilNext]_vars PROVE Manners' /\ NobodyDisplaced
  OBVIOUS
<1>1. CASE UNCHANGED vars
  <2>1. Manners'
    BY <1>1 DEF vars, Civil, Manners, TableIsExact, PlayersAreConnected, OpenIsEmpty, HostIsNamed,
       MatchMeansSeat, HostIsSeated, Registered, Seated, SeatsOf, HostOf
  <2>2. NobodyDisplaced
    BY <1>1 DEF vars, NobodyDisplaced
  <2> QED
    BY <2>1, <2>2
<1>2. CASE CivilNext
  <2>1. PICK s \in Sessions :
          \/ byId[UserOf[s]] = None /\ Login(s)
          \/ /\ s \in online
             /\ \/ Logout(s)
                \/ \E m \in Matches : matchOf[s] = None /\ CreateMatch(s, m)
                \/ \E i \in MatchIds : matchOf[s] = None /\ MatchJoin(s, i)
                \/ \E k \in Slots : Patient(s, {k}) /\ MatchLock(s, k)
                \/ Patient(s, Slots) /\ MpUnlock(s)
                \/ InRoom(s)
                \/ Follow(s)
    BY <1>2 DEF CivilNext
  <2>2. CASE s \in online /\ InRoom(s)
    BY <2>2, MannersLeave, MannersSlots, MannersOffice, MannersEnter, MannersChangeSlot DEF InRoom
  <2> QED
    BY <2>1, <2>2, MannersLogin, MannersLeave, MannersCreate, MannersEnter, MannersSlots,
       MannersFollow
<1> QED
  BY <1>1, <1>2

-----------------------------------------------------------------------------
(* The chat is the room's *)

\* The chat of a listed match is listed, for its host sits in the match and hears.
LEMMA ListedMatchHasChat ==
    ASSUME Civil, NEW m \in Matches, Registered(m)
    PROVE  m \in listed
<1>1. PICK k \in Slots : occupant[m][k] = HostOf(m)
  BY HostFound
<1>2. HostOf(m) \in Sessions
  BY HostFound
<1>3. occupant[m][k] # None
  BY <1>1, <1>2, RoomsAssumption
<1> QED
  BY <1>3 DEF Civil, Hearing, SeatedHears

\* A step that touches no chat, no match pointer and disconnects nobody, and
\* gives a slot of a match only to somebody who has one there.
LEMMA HearingKept ==
    ASSUME Civil, UNCHANGED <<chat, listed, tourney, stuck, matchOf>>, online \subseteq online',
           \A m \in Matches, k \in Slots :
             occupant'[m][k] # None => \E j \in Slots : occupant[m][j] = occupant'[m][k]
    PROVE  Hearing'
<1>1. SeatedHears'
  BY DEF Civil, Hearing, SeatedHears
<1>2. FollowersDoNotPlay'
  BY DEF Civil, Hearing, FollowersDoNotPlay
<1>3. ListenersAreConnected'
  BY DEF Civil, Hearing, ListenersAreConnected
<1> QED
  BY <1>1, <1>2, <1>3 DEF Hearing

\* Player.join_match by a connected player.
LEMMA HearingJoin ==
    ASSUME Civil, NEW s \in Sessions, s \in online,
           NEW m \in Matches, Registered(m), JoinMatch(s, m)
    PROVE  Hearing'
<1>1. PICK k : Sit(s, m, k)
  BY DEF JoinMatch
<1>2. /\ \A n \in Matches : chat'[n] = IF n = m THEN chat[n] \cup {s} ELSE chat[n]
      /\ \A r \in Sessions : matchOf'[r] = IF r = s THEN m ELSE matchOf[r]
      /\ \A n \in Matches, j \in Slots : occupant'[n][j] \in {occupant[n][j], s}
      /\ \A n \in Matches, j \in Slots : n # m => occupant'[n][j] = occupant[n][j]
      /\ UNCHANGED <<listed, tourney, stuck, online>>
  BY <1>1 DEF Sit, JoinMatch, playerVars, Civil, Seating, TypeOK
<1>3. matchOf[s] = None /\ UserOf[s] \notin tourney[m] /\ m \in listed
  BY ListedMatchHasChat DEF JoinMatch
<1>4. SeatedHears'
  <2>1. ASSUME NEW n \in Matches, NEW j \in Slots, occupant'[n][j] # None
        PROVE  occupant'[n][j] \in chat'[n]
    BY <1>2, <2>1 DEF Civil, Hearing, SeatedHears
  <2>2. ASSUME NEW n \in Matches, NEW r \in chat'[n]
        PROVE  matchOf'[r] = n \/ UserOf[r] \in tourney'[n]
    <3>1. CASE r \in chat[n]
      <4>1. r \in Sessions /\ n # None /\ (matchOf[r] = n \/ UserOf[r] \in tourney[n])
        BY <3>1, RoomsAssumption DEF Civil, Hearing, SeatedHears, Seating, TypeOK
      <4> QED
        BY <4>1, <1>2, <1>3
    <3>2. CASE n = m /\ r = s
      BY <3>2, <1>2
    <3> QED
      BY <2>2, <3>1, <3>2, <1>2
  <2>3. \A n \in Matches : chat'[n] # {} => n \in listed'
    BY <1>2, <1>3 DEF Civil, Hearing, SeatedHears
  <2> QED
    BY <2>1, <2>2, <2>3, <1>2 DEF Civil, Hearing, SeatedHears
<1>5. FollowersDoNotPlay'
  BY <1>2, <1>3 DEF Civil, Hearing, FollowersDoNotPlay
<1>6. ListenersAreConnected'
  BY <1>2 DEF Civil, Hearing, ListenersAreConnected
<1> QED
  BY <1>4, <1>5, <1>6 DEF Hearing

\* MatchCreate by a connected player in no match.
LEMMA HearingCreate ==
    ASSUME Civil, NEW s \in Sessions, s \in online, matchOf[s] = None,
           NEW m \in Matches, CreateMatch(s, m)
    PROVE  Hearing'
<1>1. byId[UserOf[s]] = s /\ s # None /\ m # None
  BY RoomsAssumption DEF Civil, Manners, TableIsExact
<1>2. /\ chat' = [chat EXCEPT ![m] = {s}]
      /\ occupant' = [occupant EXCEPT ![m] = [k \in Slots |-> IF k = 0 THEN s ELSE None]]
      /\ matchOf' = [matchOf EXCEPT ![s] = m]
      /\ listed' = listed \cup {m}
      /\ tourney' = [tourney EXCEPT ![m] = {}]
      /\ UNCHANGED <<stuck, online>>
  BY <1>1 DEF CreateMatch, playerVars
<1>3. /\ \A n \in Matches : chat'[n] = IF n = m THEN {s} ELSE chat[n]
      /\ \A n \in Matches : tourney'[n] = IF n = m THEN {} ELSE tourney[n]
      /\ \A r \in Sessions : matchOf'[r] = IF r = s THEN m ELSE matchOf[r]
      /\ \A n \in Matches, j \in Slots : n # m => occupant'[n][j] = occupant[n][j]
      /\ \A j \in Slots : occupant'[m][j] \in {None, s}
  BY <1>2 DEF Civil, Seating, TypeOK
<1>4. SeatedHears'
  <2>1. ASSUME NEW n \in Matches, NEW j \in Slots, occupant'[n][j] # None
        PROVE  occupant'[n][j] \in chat'[n]
    BY <1>3, <2>1 DEF Civil, Hearing, SeatedHears
  <2>2. ASSUME NEW n \in Matches, NEW r \in chat'[n]
        PROVE  matchOf'[r] = n \/ UserOf[r] \in tourney'[n]
    <3>1. CASE n = m
      BY <3>1, <2>2, <1>3
    <3>2. CASE n # m
      <4>1. r \in Sessions /\ n # None /\ (matchOf[r] = n \/ UserOf[r] \in tourney[n])
        BY <2>2, <3>2, <1>3, RoomsAssumption DEF Civil, Hearing, SeatedHears, Seating, TypeOK
      <4> QED
        BY <4>1, <3>2, <1>3
    <3> QED
      BY <3>1, <3>2
  <2>3. \A n \in Matches : chat'[n] # {} => n \in listed'
    BY <1>2, <1>3 DEF Civil, Hearing, SeatedHears
  <2> QED
    BY <2>1, <2>2, <2>3, <1>2 DEF Civil, Hearing, SeatedHears
<1>5. FollowersDoNotPlay'
  BY <1>3 DEF Civil, Hearing, FollowersDoNotPlay
<1>6. ListenersAreConnected'
  BY <1>2, <1>3 DEF Civil, Hearing, ListenersAreConnected
<1> QED
  BY <1>4, <1>5, <1>6 DEF Hearing

\* MatchPart and Player.logout by a connected player: no chat it leaves raises.
LEMMA HearingLeave ==
    ASSUME Civil, NEW s \in Sessions, s \in online, MatchPart(s) \/ Logout(s)
    PROVE  Hearing'
<1>1. /\ \A r \in Sessions : matchOf'[r] = IF r = s THEN None ELSE matchOf[r]
      /\ \A n \in Matches, j \in Slots :
           occupant'[n][j] = IF occupant[n][j] = s THEN None ELSE occupant[n][j]
      /\ tourney' = tourney
  <2>1. CASE LeaveRoom(s)
    BY <2>1, LeaveCompletes DEF LeaveRoom
  <2>2. CASE matchOf[s] = None /\ UNCHANGED <<tourney, occupant, matchOf>>
    BY <2>2, Unseated DEF Civil
  <2> QED
    BY <2>1, <2>2 DEF MatchPart, Logout
<1>2. \A m \in Matches : ~ChatFails(s, m)
  BY DEF ChatFails, Civil, Hearing, SeatedHears
<1>3. PICK M :
        /\ LeaveChats(s, M)
        /\ M \subseteq Matches
        /\ matchOf[s] \in Matches => matchOf[s] \in M
        /\ online' = online \/ (M = Matches /\ online' = online \ {s})
  <2>1. CASE MatchPart(s)
    <3>1. matchOf[s] \in Matches
      BY <2>1, SeatFound DEF MatchPart, LeaveRoom, Civil
    <3> QED
      BY <2>1, <3>1 DEF MatchPart, playerVars
  <2>2. CASE Logout(s)
    <3>1. ~LeaveRaises(s)
      <4>1. CASE LeaveRoom(s)
        BY <4>1, LeaveCompletes DEF LeaveRaises
      <4>2. CASE matchOf[s] = None
        BY <4>2 DEF Seated, LeaveRaises
      <4> QED
        BY <2>2, <4>1, <4>2 DEF Logout
    <3>2. LogoutEnds(s)
      BY <2>2, <3>1, <1>2 DEF Logout, LogoutStops
    <3> QED
      BY <3>2 DEF LogoutEnds
  <2> QED
    BY <2>1, <2>2
<1>4. /\ \A n \in Matches : chat'[n] = IF n \in M THEN chat[n] \ {s} ELSE chat[n]
      /\ \A n \in Matches : n \in listed /\ chat'[n] # {} => n \in listed'
      /\ stuck' = {}
  <2>1. \A n \in Matches : chat'[n] = IF n \in M THEN chat[n] \ {s} ELSE chat[n]
    BY <1>3 DEF LeaveChats
  <2>2. \A n \in Matches : n \in listed /\ chat'[n] # {} => n \in listed'
    <3>1. listed' = listed \ {n \in M : chat[n] = {s}}
      BY <1>3 DEF LeaveChats
    <3> QED
      BY <2>1, <3>1
  <2>3. \A n \in M : ~ChatFails(s, n)
    BY <1>2, <1>3
  <2> QED
    BY <2>1, <2>2, <2>3, <1>3 DEF LeaveChats, Civil, Hearing, SeatedHears
<1>5. SeatedHears'
  <2>1. ASSUME NEW n \in Matches, NEW j \in Slots, occupant'[n][j] # None
        PROVE  occupant'[n][j] \in chat'[n]
    BY <1>1, <1>4, <2>1 DEF Civil, Hearing, SeatedHears
  <2>2. ASSUME NEW n \in Matches, NEW r \in chat'[n]
        PROVE  matchOf'[r] = n \/ UserOf[r] \in tourney'[n]
    <3>1. r \in Sessions /\ r \in chat[n] /\ (matchOf[r] = n \/ UserOf[r] \in tourney[n])
      BY <2>2, <1>4 DEF Civil, Hearing, SeatedHears, Seating, TypeOK
    <3>2. r = s => matchOf[s] # n
      BY <2>2, <1>3, <1>4
    <3> QED
      BY <3>1, <3>2, <1>1
  <2>3. \A n \in Matches : chat'[n] # {} => n \in listed'
    BY <1>4 DEF Civil, Hearing, SeatedHears
  <2> QED
    BY <2>1, <2>2, <2>3, <1>4 DEF SeatedHears
<1>6. FollowersDoNotPlay'
  BY <1>1 DEF Civil, Hearing, FollowersDoNotPlay
<1>7. ListenersAreConnected'
  BY <1>3, <1>4 DEF Civil, Hearing, ListenersAreConnected
<1> QED
  BY <1>5, <1>6, <1>7 DEF Hearing

\* A tournament client enters or leaves a chat.  The account is taken out of the
\* followers with the one object of it that can be in the chat.
LEMMA HearingFollow ==
    ASSUME Civil, NEW s \in Sessions, s \in online, Follow(s)
    PROVE  Hearing'
<1>1. PICK m \in Matches : Registered(m) /\ (TourneyJoin(s, m) \/ TourneyLeave(s, m))
  <2>1. PICK i \in MatchIds :
          registry[i] # None /\ (TourneyJoin(s, registry[i]) \/ TourneyLeave(s, registry[i]))
    BY DEF Follow
  <2> QED
    BY <2>1 DEF Registered, Civil, Seating, TypeOK
<1>2. UNCHANGED <<online, occupant, matchOf>>
  BY <1>1 DEF TourneyJoin, TourneyLeave, EnterChat, QuitChat, playerVars
<1>3. CASE TourneyJoin(s, m)
  <2>1. /\ \A n \in Matches : chat'[n] = IF n = m THEN chat[n] \cup {s} ELSE chat[n]
        /\ \A n \in Matches : tourney'[n] = IF n = m THEN tourney[n] \cup {UserOf[s]} ELSE tourney[n]
        /\ UNCHANGED <<listed, stuck>>
        /\ m \in listed
    BY <1>1, <1>3, ListedMatchHasChat DEF TourneyJoin, EnterChat, Civil, Seating, TypeOK
  <2>2. SeatedHears'
    BY <1>2, <2>1 DEF Civil, Hearing, SeatedHears
  <2>3. FollowersDoNotPlay'
    BY <1>2, <1>3, <2>1 DEF TourneyJoin, Civil, Hearing, FollowersDoNotPlay
  <2>4. ListenersAreConnected'
    BY <1>2, <2>1 DEF Civil, Hearing, ListenersAreConnected
  <2> QED
    BY <2>2, <2>3, <2>4 DEF Hearing
<1>4. CASE TourneyLeave(s, m)
  <2>1. ~ChatFails(s, m) /\ UserOf[s] \in tourney[m]
    BY <1>4 DEF TourneyLeave, ChatFails, Civil, Hearing, SeatedHears
  <2>2. /\ \A n \in Matches : chat'[n] = IF n = m THEN chat[n] \ {s} ELSE chat[n]
        /\ \A n \in Matches : tourney'[n] = IF n = m THEN tourney[n] \ {UserOf[s]} ELSE tourney[n]
        /\ \A n \in Matches : n \in listed /\ chat'[n] # {} => n \in listed'
        /\ stuck' = {}
    <3>1. \A n \in Matches : tourney'[n] = IF n = m THEN tourney[n] \ {UserOf[s]} ELSE tourney[n]
      BY <1>4, <2>1 DEF TourneyLeave, Civil, Seating, TypeOK
    <3>2. CASE QuitChat(s, m)
      <4>1. /\ chat' = [n \in Matches |-> IF n \in {m} THEN chat[n] \ {s} ELSE chat[n]]
            /\ listed' = listed \ {n \in {m} : chat[n] = {s}}
            /\ stuck' = stuck
        BY <3>2, <2>1 DEF QuitChat, LeaveChats
      <4> QED
        BY <3>1, <4>1 DEF Civil, Hearing, SeatedHears
    <3>3. CASE s \notin chat[m] /\ UNCHANGED <<chat, listed, stuck>>
      BY <3>1, <3>3 DEF Civil, Hearing, SeatedHears
    <3> QED
      BY <1>4, <3>2, <3>3 DEF TourneyLeave
  <2>3. \A k \in Slots : occupant[m][k] # s
    BY <2>1, RoomsAssumption DEF Civil, Hearing, FollowersDoNotPlay
  <2>4. \A r \in chat[m] : r # s => UserOf[r] # UserOf[s]
    <3>1. \A r \in chat[m] : r \in Sessions /\ byId[UserOf[r]] = r
      BY DEF Civil, Hearing, ListenersAreConnected, Manners, TableIsExact, Seating, TypeOK
    <3>2. byId[UserOf[s]] = s
      BY DEF Civil, Manners, TableIsExact
    <3> QED
      BY <3>1, <3>2
  <2>5. SeatedHears'
    BY <1>2, <2>2, <2>3, <2>4 DEF Civil, Hearing, SeatedHears
  <2>6. FollowersDoNotPlay'
    BY <1>2, <2>2 DEF Civil, Hearing, FollowersDoNotPlay
  <2>7. ListenersAreConnected'
    BY <1>2, <2>2 DEF Civil, Hearing, ListenersAreConnected
  <2> QED
    BY <2>5, <2>6, <2>7 DEF Hearing
<1> QED
  BY <1>1, <1>3, <1>4

\* The other handlers leave the chats alone.
LEMMA HearingRest ==
    ASSUME Civil, NEW s \in Sessions,
           \/ Login(s)
           \/ \E k \in Slots : MatchLock(s, k) \/ MatchChangeSlot(s, k) \/ MatchTransferHost(s, k)
           \/ MpUnlock(s) \/ MpLock(s) \/ Start(s) \/ ReportStatus(s)
           \/ \E u \in Users : MpHost(s, u) \/ MpAddRef(s, u) \/ MpRmRef(s, u)
    PROVE  Hearing'
<1>1. CASE \E k \in Slots : MatchChangeSlot(s, k)
  <2>1. PICK k \in Slots : MatchChangeSlot(s, k)
    BY <1>1
  <2> DEFINE m == matchOf[s]
             k0 == First(SeatsOf(s, m))
  <2>2. m \in Matches /\ k0 \in Slots /\ occupant[m][k0] = s
    BY <2>1, SeatFound DEF MatchChangeSlot, Civil
  <2> HIDE DEF k0
  <2>3. \A n \in Matches, j \in Slots :
          occupant'[n][j] = IF n = m /\ j = k0 THEN None
                            ELSE IF n = m /\ j = k THEN s ELSE occupant[n][j]
    BY <2>1, <2>2 DEF MatchChangeSlot, Civil, Seating, TypeOK, k0
  <2>4. UNCHANGED <<chat, listed, tourney, stuck, matchOf, online>>
    BY <2>1 DEF MatchChangeSlot, playerVars, chatVars
  <2> HIDE DEF m
  <2> QED
    BY <2>2, <2>3, <2>4, HearingKept
<1>2. CASE Login(s)
  <2>1. UNCHANGED <<chat, listed, tourney, stuck, matchOf, occupant>> /\ online \subseteq online'
    BY <1>2 DEF Login, roomVars, chatVars
  <2> QED
    BY <2>1, HearingKept
<1>3. CASE \/ \E k \in Slots : MatchLock(s, k) \/ MatchTransferHost(s, k)
           \/ MpUnlock(s) \/ MpLock(s) \/ Start(s) \/ ReportStatus(s)
           \/ \E u \in Users : MpHost(s, u) \/ MpAddRef(s, u) \/ MpRmRef(s, u)
  <2>1. UNCHANGED <<chat, listed, tourney, stuck, matchOf, occupant, online>>
    BY <1>3 DEF MatchLock, MatchTransferHost, MpUnlock, MpLock, SetAllSlots, Start, ReportStatus,
       MpHost, MpAddRef, MpRmRef, Appoint, ChangeReferees, playerVars, chatVars
  <2> QED
    BY <2>1, HearingKept
<1> QED
  BY <1>1, <1>2, <1>3

LEMMA HearingStep == Civil /\ [CivilNext]_vars => Hearing'
<1> SUFFICES ASSUME Civil, [CivilNext]_vars PROVE Hearing'
  OBVIOUS
<1>1. CASE UNCHANGED vars
  BY <1>1, HearingKept DEF vars
<1>2. ASSUME NEW s \in Sessions, s \in online, NEW i \in MatchIds, MatchJoin(s, i)
      PROVE  Hearing'
  <2>1. registry[i] \in Matches /\ Registered(registry[i])
    BY <1>2 DEF MatchJoin, Registered, Civil, Seating, TypeOK
  <2> QED
    BY <1>2, <2>1, HearingJoin DEF MatchJoin
<1>3. ASSUME NEW s \in Sessions, s \in online, NEW u \in Users, MpForce(s, u)
      PROVE  Hearing'
  <2>1. matchOf[s] \in Matches /\ Registered(matchOf[s])
    BY <1>3, PlayerSeated DEF MpForce, MayCommand
  <2>2. byId[u] \in Sessions /\ UserOf[byId[u]] = u
    BY <1>3 DEF MpForce, Civil, Seating, TypeOK, FiledByAccount
  <2>3. byId[u] \in online
    BY <2>2 DEF Civil, Manners, TableIsExact
  <2> QED
    BY <1>3, <2>1, <2>2, <2>3, HearingJoin DEF MpForce
<1>4. ASSUME NEW s \in Sessions, s \in online, InRoom(s)
      PROVE  Hearing'
  BY <1>3, <1>4, HearingLeave, HearingRest DEF InRoom
<1> QED
  BY <1>1, <1>2, <1>4, HearingLeave, HearingCreate, HearingFollow, HearingRest DEF CivilNext

LEMMA CivilInvariant == CivilSpec => []Civil
<1>1. Init => Civil
  <2>1. Init => Hearing
    BY DEF Init, Hearing, SeatedHears, FollowersDoNotPlay, ListenersAreConnected
  <2> QED
    BY <2>1, SeatingInit, MannersInit DEF Civil, Init, FiledByAccount
<1>2. Civil /\ [CivilNext]_vars => Civil'
  <2> SUFFICES ASSUME Civil, [CivilNext]_vars PROVE Civil'
    OBVIOUS
  <2>1. [Next]_vars
    BY CivilIsAllowed
  <2>2. Seating' /\ FiledByAccount'
    BY <2>1, SeatingStep, FiledStep DEF Civil
  <2> QED
    BY <2>2, MannersStep, HearingStep DEF Civil
<1> QED
  BY <1>1, <1>2, PTL DEF CivilSpec

\* With clients that behave as the game's does, a player that points at a match
\* has a slot in it: the handlers' assertions hold, leave_match and logout end.
THEOREM PlayersHaveSeats == CivilSpec => []MatchMeansSeat
<1>1. Civil => MatchMeansSeat
  BY DEF Civil, Manners
<1> QED
  BY <1>1, CivilInvariant, PTL

\* The slot get_free returns has no player in it.
THEOREM FreeSlotsAreUnoccupied == CivilSpec => []FreeSlotIsUnoccupied
<1>1. Civil => FreeSlotIsUnoccupied
  <2> SUFFICES ASSUME Civil, NEW m \in Matches, OpenSlots(m) # {}
               PROVE  occupant[m][First(OpenSlots(m))] = None
    BY DEF FreeSlotIsUnoccupied
  <2>1. OpenSlots(m) \subseteq Nat
    BY RoomsAssumption DEF OpenSlots
  <2>2. First(OpenSlots(m)) \in OpenSlots(m)
    BY <2>1, FirstIsElement
  <2> QED
    BY <2>2 DEF OpenSlots, Civil, Manners, OpenIsEmpty
<1> QED
  BY <1>1, CivilInvariant, PTL

\* A listed match has its host connected and in one of its slots, and a match
\* with a player in it is listed.
THEOREM HostsAreSeated == CivilSpec => []HostIsSeated
<1>1. Civil => HostIsSeated
  BY DEF Civil, Manners
<1> QED
  BY <1>1, CivilInvariant, PTL

\* The chat of a match reaches everybody in its slots, nobody who left, and is
\* in the list of channels as long as it has members.
THEOREM SeatedPlayersHear == CivilSpec => []SeatedHears
<1>1. Civil => SeatedHears
  BY DEF Civil, Hearing
<1> QED
  BY <1>1, CivilInvariant, PTL

\* No step puts a player into a slot that another one has.
THEOREM NobodyIsDisplaced == CivilSpec => NoTakeover
<1>1. Civil /\ [CivilNext]_vars => NobodyDisplaced
  BY MannersStep
<1> QED
  BY <1>1, CivilInvariant, PTL DEF CivilSpec, NoTakeover, NobodyDisplaced
=============================================================================
