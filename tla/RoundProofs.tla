---------------------------- MODULE RoundProofs -----------------------------
(***************************************************************************)
(* Proofs about Round for every number of players and slots: for clients   *)
(* that send anything (Spec), the progress flag and the contract; for the  *)
(* game's own clients (CivilSpec), the flags of the slots and the timer.   *)
(***************************************************************************)
EXTENDS Round, WellFoundedInduction, TLAPS

\* First picks an element of a non-empty set of indices.
LEMMA FirstIsElement ==
    ASSUME NEW K, K \subseteq Nat, K # {}
    PROVE  First(K) \in K
<1> DEFINE R == OpToRel(<, Nat)
<1>1. IsWellFoundedOn(R, Nat)
  BY NatLessThanWellFounded
<1>2. PICK x \in K : \A y \in K : ~ (<<y, x>> \in R)
  <2> HIDE DEF R
  <2> QED BY <1>1, WFMin
<1>3. \A y \in K : ~(y < x)
  BY <1>2 DEF OpToRel
<1>4. \A y \in K : x <= y
  BY <1>3
<1> QED
  BY <1>4 DEF First

-----------------------------------------------------------------------------
(* Clients that send anything *)

OneSeat == \A j, k \in Slots : occupant[j] # None /\ occupant[j] = occupant[k] => j = k
SeatedInside == \A k \in Slots : occupant[k] # None => occupant[k] \in inside
PlayingHasPlayer == \A k \in InPlay : occupant[k] # None

IInv ==
    /\ TypeOK
    /\ OneSeat
    /\ SeatedInside
    /\ PlayingHasPlayer
    /\ PlayingInProgress

\* get_slot finds the player's one slot.
LEMMA SeatFound ==
    ASSUME IInv, NEW p \in Players, Seated(p)
    PROVE  /\ SeatOf(p) \in Slots
           /\ \A k \in Slots : occupant[k] = p <=> k = SeatOf(p)
<1>1. SeatsOf(p) \subseteq Nat /\ SeatsOf(p) # {}
  BY RoundAssumption DEF SeatsOf, Seated
<1>2. SeatOf(p) \in SeatsOf(p)
  BY <1>1, FirstIsElement DEF SeatOf
<1> QED
  BY <1>2, RoundAssumption DEF SeatsOf, IInv, OneSeat

LEMMA OpenSlotFound ==
    ASSUME OpenSlots # {}
    PROVE  First(OpenSlots) \in Slots /\ status[First(OpenSlots)] = "open"
<1>1. OpenSlots \subseteq Nat
  BY RoundAssumption DEF OpenSlots
<1>2. First(OpenSlots) \in OpenSlots
  BY <1>1, FirstIsElement
<1> QED
  BY <1>2 DEF OpenSlots

LEMMA InitIInv == Init => IInv
  BY RoundAssumption DEF Init, IInv, TypeOK, OneSeat, SeatedInside, PlayingHasPlayer,
     PlayingInProgress, InPlay, NoFlags, Status, Waiting

\* A step that leaves the seats alone.
LEMMA StatusStep ==
    ASSUME IInv, TypeOK', UNCHANGED <<inside, occupant>>,
           \A k \in InPlay' : occupant[k] # None,
           InPlay' # {} => in_progress'
    PROVE  IInv'
  BY DEF IInv, OneSeat, SeatedInside, PlayingHasPlayer, PlayingInProgress

LEMMA CreateStep ==
    ASSUME IInv, NEW p \in Players, Create(p)
    PROVE  IInv'
<1>1. TypeOK'
  BY DEF Create, TypeOK, NoFlags, Status, Waiting
<1> QED
  BY <1>1, RoundAssumption DEF Create, IInv, OneSeat, SeatedInside, PlayingHasPlayer,
     PlayingInProgress, InPlay

LEMMA JoinStep ==
    ASSUME IInv, NEW p \in Players, Join(p)
    PROVE  IInv'
<1> DEFINE k == First(OpenSlots)
<1>1. k \in Slots
  BY OpenSlotFound DEF Join
<1> HIDE DEF k
<1>2. /\ inside' = inside \cup {p}
      /\ occupant' = [occupant EXCEPT ![k] = p]
      /\ status' = [status EXCEPT ![k] = "not_ready"]
      /\ UNCHANGED <<loaded, skipped, in_progress, starting, history>>
  BY DEF Join, k
<1>3. TypeOK'
  BY <1>1, <1>2 DEF IInv, TypeOK, Status, Waiting, history
<1>4. \A j \in Slots : occupant[j] # p
  BY RoundAssumption DEF Join, IInv, SeatedInside
<1>5. OneSeat' /\ SeatedInside'
  BY <1>1, <1>2, <1>4 DEF IInv, TypeOK, OneSeat, SeatedInside
<1>6. \A j \in InPlay' : j \in InPlay /\ occupant'[j] = occupant[j]
  BY <1>1, <1>2 DEF InPlay, IInv, TypeOK
<1>7. PlayingHasPlayer' /\ PlayingInProgress'
  BY <1>2, <1>6 DEF IInv, PlayingHasPlayer, PlayingInProgress
<1> QED
  BY <1>3, <1>5, <1>7 DEF IInv

LEMMA DepartureType ==
    ASSUME NoteDeparture
    PROVE  stranded' \in BOOLEAN
  BY Zenon DEF NoteDeparture

LEMMA LeaveStep ==
    ASSUME IInv, NEW p \in Players, Leave(p)
    PROVE  /\ IInv'
           /\ InPlay' = InPlay \ {SeatOf(p)}
<1> DEFINE k == SeatOf(p)
<1>1. k \in Slots /\ \A j \in Slots : occupant[j] = p <=> j = k
  BY SeatFound DEF Leave
<1> HIDE DEF k
<1>2. /\ inside' = inside \ {p}
      /\ occupant' = [occupant EXCEPT ![k] = None]
      /\ status' = [status EXCEPT ![k] = IF @ = "locked" THEN "locked" ELSE "open"]
      /\ loaded' = [loaded EXCEPT ![k] = FALSE]
      /\ skipped' = [skipped EXCEPT ![k] = FALSE]
      /\ UNCHANGED <<in_progress, told, reports>>
      /\ starting' \in {None, starting}
      /\ NoteDeparture
  BY DEF Leave, k
<1>3. TypeOK'
  BY <1>1, <1>2, DepartureType DEF IInv, TypeOK, Status, Waiting
<1>4. OneSeat' /\ SeatedInside'
  BY <1>1, <1>2 DEF IInv, TypeOK, OneSeat, SeatedInside
<1>5. InPlay' = InPlay \ {k}
  BY <1>1, <1>2 DEF InPlay, IInv, TypeOK
<1>6. PlayingHasPlayer' /\ PlayingInProgress'
  BY <1>1, <1>2, <1>5 DEF IInv, TypeOK, PlayingHasPlayer, PlayingInProgress, InPlay
<1> QED
  BY <1>3, <1>4, <1>5, <1>6 DEF IInv, k

LEMMA ChangeSlotStep ==
    ASSUME IInv, NEW p \in Players, NEW k \in Slots, MatchChangeSlot(p, k)
    PROVE  /\ IInv'
           /\ \A q \in Players : (\E j \in InPlay' : occupant'[j] = q)
                                   <=> (\E j \in InPlay : occupant[j] = q)
<1> DEFINE old == SeatOf(p)
<1>1. old \in Slots /\ \A j \in Slots : occupant[j] = p <=> j = old
  BY SeatFound DEF MatchChangeSlot
<1> HIDE DEF old
<1>2. /\ occupant' = [[occupant EXCEPT ![k] = p] EXCEPT ![old] = None]
      /\ status' = [[status EXCEPT ![k] = status[old]] EXCEPT ![old] = "open"]
      /\ loaded' = [loaded EXCEPT ![old] = FALSE]
      /\ skipped' = [skipped EXCEPT ![old] = FALSE]
      /\ UNCHANGED <<inside, in_progress, starting, history>>
      /\ status[k] = "open"
  BY DEF MatchChangeSlot, old
<1>3. TypeOK'
  BY <1>1, <1>2 DEF IInv, TypeOK, Status, Waiting, history
<1>4. OneSeat' /\ SeatedInside'
  BY <1>1, <1>2 DEF IInv, TypeOK, OneSeat, SeatedInside
<1>5. InPlay' = IF old \in InPlay THEN (InPlay \ {old}) \cup {k} ELSE InPlay
  BY <1>1, <1>2 DEF InPlay, IInv, TypeOK
<1>6. k \notin InPlay
  BY <1>2 DEF InPlay
<1>7. \A j \in Slots : occupant'[j] = IF j = old THEN None ELSE IF j = k THEN p ELSE occupant[j]
  BY <1>1, <1>2 DEF IInv, TypeOK
<1>8. PlayingHasPlayer' /\ PlayingInProgress'
  <2>1. InPlay \subseteq Slots /\ p # None
    BY RoundAssumption DEF InPlay
  <2> QED
    BY <2>1, <1>2, <1>5, <1>6, <1>7 DEF IInv, PlayingHasPlayer, PlayingInProgress
<1>9. ASSUME NEW q \in Players
      PROVE  (\E j \in InPlay' : occupant'[j] = q) <=> (\E j \in InPlay : occupant[j] = q)
  <2>1. InPlay \subseteq Slots /\ q # None
    BY RoundAssumption DEF InPlay
  <2>2. CASE old \in InPlay
    BY <2>1, <2>2, <1>1, <1>5, <1>6, <1>7
  <2>3. CASE old \notin InPlay
    BY <2>1, <2>3, <1>5, <1>6, <1>7
  <2> QED
    BY <2>2, <2>3
<1> QED
  BY <1>3, <1>4, <1>8, <1>9 DEF IInv

-----------------------------------------------------------------------------
(* Steps that leave the seats alone *)

\* The state the contract speaks about.
Playing == {p \in Players : \E k \in InPlay : occupant[k] = p}

LEMMA PlayersInPlay ==
    ASSUME IInv
    PROVE  \A k \in InPlay : k \in Slots /\ occupant[k] \in Players
  BY DEF IInv, TypeOK, PlayingHasPlayer, InPlay

\* MatchReady and the like: the player withdraws, if it was in play.
LEMMA SetStatusStep ==
    ASSUME IInv, NEW p \in Players, NEW new \in Waiting, SetStatus(p, new)
    PROVE  IInv' /\ InPlay' = InPlay \ {SeatOf(p)}
<1> DEFINE k == SeatOf(p)
<1>1. k \in Slots
  BY SeatFound DEF SetStatus
<1> HIDE DEF k
<1>2. /\ status' = [status EXCEPT ![k] = new]
      /\ UNCHANGED <<inside, occupant, loaded, skipped, in_progress, starting, history>>
  BY DEF SetStatus, k
<1>3. InPlay' = InPlay \ {k}
  BY <1>1, <1>2 DEF InPlay, IInv, TypeOK, Waiting
<1>4. TypeOK'
  BY <1>1, <1>2 DEF IInv, TypeOK, Status, history
<1> QED
  BY <1>2, <1>3, <1>4, StatusStep DEF k, IInv, PlayingHasPlayer, PlayingInProgress

LEMMA LockStep ==
    ASSUME IInv, NEW p \in Players, NEW k \in Slots, MatchLock(p, k)
    PROVE  IInv' /\ InPlay' = InPlay \ {k}
<1>1. PICK v \in {"open", "locked"} :
        /\ status' = [status EXCEPT ![k] = v]
        /\ UNCHANGED <<inside, occupant, loaded, skipped, in_progress, starting, told, reports>>
        /\ NoteDeparture
  BY DEF MatchLock
<1>2. InPlay' = InPlay \ {k}
  BY <1>1 DEF InPlay, IInv, TypeOK
<1>3. TypeOK'
  BY <1>1, DepartureType DEF IInv, TypeOK, Status, Waiting
<1> QED
  BY <1>1, <1>2, <1>3, StatusStep DEF IInv, PlayingHasPlayer, PlayingInProgress

LEMMA ClearMapStep ==
    ASSUME IInv, NEW p \in Players, ClearMap(p)
    PROVE  IInv' /\ InPlay' = InPlay
<1>1. InPlay' = InPlay
  BY DEF ClearMap, Unreadied, InPlay
<1>2. TypeOK'
  BY DEF ClearMap, Unreadied, IInv, TypeOK, Status, Waiting, history
<1> QED
  BY <1>1, <1>2, StatusStep DEF ClearMap, IInv, PlayingHasPlayer, PlayingInProgress

LEMMA StartStep ==
    ASSUME IInv, Start, starting' \in Players \cup {None}
    PROVE  IInv'
<1>1. TypeOK'
  BY DEF Start, IInv, TypeOK, Status, Waiting
<1>2. \A k \in InPlay' : occupant[k] # None
  BY DEF Start, InPlay, IInv, PlayingHasPlayer
<1> QED
  BY <1>1, <1>2, StatusStep DEF Start

\* Packets and commands that touch neither seats nor statuses.
LEMMA QuietStep ==
    ASSUME IInv, UNCHANGED <<seatVars, in_progress>>, TypeOK'
    PROVE  IInv' /\ InPlay' = InPlay
  BY DEF IInv, OneSeat, SeatedInside, PlayingHasPlayer, PlayingInProgress, InPlay, seatVars

LEMMA ReportStep ==
    ASSUME IInv, NEW p \in Players, MatchLoadComplete(p) \/ MatchSkipRequest(p)
    PROVE  IInv' /\ InPlay' = InPlay
<1>1. SeatOf(p) \in Slots
  BY SeatFound DEF MatchLoadComplete, MatchSkipRequest
<1>2. CASE MatchLoadComplete(p)
  <2>1. TypeOK'
    BY <1>1, <1>2 DEF MatchLoadComplete, IInv, TypeOK, seatVars
  <2> QED
    BY <1>2, <2>1, QuietStep DEF MatchLoadComplete, seatVars
<1>3. CASE MatchSkipRequest(p)
  <2>1. TypeOK'
    BY <1>1, <1>3 DEF MatchSkipRequest, IInv, TypeOK, seatVars
  <2> QED
    BY <1>3, <2>1, QuietStep DEF MatchSkipRequest, seatVars
<1> QED
  BY <1>2, <1>3

LEMMA TimerStep ==
    ASSUME IInv, NEW p \in Players, StartTimer(p) \/ CancelTimer(p)
    PROVE  IInv' /\ InPlay' = InPlay
<1>1. TypeOK'
  BY DEF StartTimer, CancelTimer, IInv, TypeOK, seatVars, history
<1> QED
  BY <1>1, QuietStep DEF StartTimer, CancelTimer, seatVars

\* MatchComplete: the progress flag is dropped with the last slot in play.
LEMMA CompleteStep ==
    ASSUME IInv, NEW p \in Players, MatchComplete(p)
    PROVE  /\ IInv'
           /\ InPlay' = InPlay \ {SeatOf(p)}
           /\ in_progress' = (in_progress /\ InPlay' # {})
<1> DEFINE k == SeatOf(p)
           after == [status EXCEPT ![k] = "complete"]
<1>1. k \in Slots /\ occupant[k] # None
  BY SeatFound, RoundAssumption DEF MatchComplete
<1>2. UNCHANGED <<inside, occupant, starting, history>>
  BY DEF MatchComplete
<1> HIDE DEF k
<1>3. \A j \in Slots : after[j] = IF j = k THEN "complete" ELSE status[j]
  BY <1>1 DEF IInv, TypeOK
<1>4. CASE /\ \E j \in Slots : after[j] = "playing"
           /\ status' = after
           /\ UNCHANGED <<loaded, skipped, in_progress>>
  <2>1. InPlay' = InPlay \ {k} /\ InPlay' # {}
    BY <1>3, <1>4 DEF InPlay
  <2>2. TypeOK'
    BY <1>1, <1>2, <1>4 DEF IInv, TypeOK, Status, Waiting, history
  <2>3. in_progress' = TRUE /\ in_progress = TRUE
    BY <1>4, <2>1 DEF IInv, TypeOK, PlayingInProgress
  <2> QED
    BY <1>2, <2>1, <2>2, <2>3, StatusStep DEF k, IInv, PlayingHasPlayer
<1>5. CASE /\ \A j \in Slots : after[j] # "playing"
           /\ status' = Unreadied("complete", after)
           /\ loaded' = NoFlags
           /\ skipped' = NoFlags
           /\ in_progress' = FALSE
  <2>1. InPlay' = {} /\ InPlay \ {k} = {}
    BY <1>3, <1>5 DEF InPlay, Unreadied
  <2>2. TypeOK'
    <3>1. after \in [Slots -> Status]
      BY <1>1 DEF IInv, TypeOK, Status
    <3> HIDE DEF after
    <3>2. status' \in [Slots -> Status]
      BY <1>5, <3>1 DEF Unreadied, Status, Waiting
    <3> QED
      BY <1>2, <1>5, <3>2 DEF IInv, TypeOK, NoFlags, history
  <2> QED
    BY <1>2, <1>5, <2>1, <2>2, StatusStep DEF k
<1> QED
  BY <1>4, <1>5 DEF MatchComplete, k

LEMMA AbortStep ==
    ASSUME IInv, NEW p \in Players, MpAbort(p)
    PROVE  IInv' /\ InPlay' = {}
<1>1. InPlay' = {}
  BY DEF MpAbort, Unreadied, InPlay
<1>2. TypeOK'
  BY DEF MpAbort, Unreadied, IInv, TypeOK, Status, Waiting, NoFlags, history
<1> QED
  BY <1>1, <1>2, StatusStep DEF MpAbort

-----------------------------------------------------------------------------
(* Every step keeps the invariant, and is a step of the contract *)

C == <<in_progress, Playing>>

\* Removing a player's slot from play removes the player from Playing.
LEMMA OutOfPlay ==
    ASSUME IInv, NEW p \in Players, Seated(p),
           InPlay' = InPlay \ {SeatOf(p)},
           \A k \in Slots : k # SeatOf(p) => occupant'[k] = occupant[k]
    PROVE  Playing' = Playing \ {p}
<1>1. SeatOf(p) \in Slots /\ \A k \in Slots : occupant[k] = p <=> k = SeatOf(p)
  BY SeatFound
<1>2. \A k \in InPlay : k \in Slots
  BY PlayersInPlay
<1>3. \A q \in Players : q \in Playing' <=> \E k \in InPlay' : occupant'[k] = q
  BY DEF Playing
<1>4. \A q \in Players : q \in Playing <=> \E k \in InPlay : occupant[k] = q
  BY DEF Playing
<1>5. \A q \in Players : q \in Playing' <=> q \in Playing /\ q # p
  BY <1>1, <1>2, <1>3, <1>4
<1> QED
  BY <1>5 DEF Playing

LEMMA SamePlay ==
    ASSUME InPlay' = InPlay, \A k \in InPlay : occupant'[k] = occupant[k]
    PROVE  Playing' = Playing
  BY DEF Playing

\* Somebody is in play where a slot is.
LEMMA PlayingNotEmpty == IInv => (Playing # {} <=> InPlay # {})
  BY PlayersInPlay DEF Playing

\* What a step may do, in the contract's words.
ContractStep ==
    \/ in_progress' = TRUE /\ Playing' \in SUBSET Players
    \/ \E p \in Players :
         /\ Playing' = Playing \ {p}
         /\ \/ in_progress' = in_progress
            \/ in_progress' = (in_progress /\ Playing' # {})
    \/ in_progress /\ in_progress' = FALSE /\ Playing' = {}
    \/ Playing = {} /\ in_progress' = FALSE /\ Playing' = Playing
    \/ in_progress' = in_progress /\ Playing' = Playing

LEMMA PlayerStep ==
    ASSUME IInv, NEW p \in Players,
           \/ Create(p) \/ Join(p) \/ Leave(p)
           \/ \E k \in Slots : MatchChangeSlot(p, k) \/ MatchLock(p, k)
           \/ \E new \in Waiting : SetStatus(p, new)
           \/ ClearMap(p)
           \/ StartNow(p) \/ StartReady(p) \/ StartTimer(p) \/ CancelTimer(p)
           \/ MatchLoadComplete(p) \/ MatchSkipRequest(p) \/ MatchComplete(p) \/ MpAbort(p)
    PROVE  IInv' /\ ContractStep
<1>1. CASE Create(p)
  <2>1. InPlay = {} /\ InPlay' = {}
    BY <1>1 DEF Create, InPlay, IInv, PlayingHasPlayer, SeatedInside
  <2> QED
    BY <1>1, <2>1, CreateStep DEF ContractStep, Playing, Create
<1>2. CASE Join(p)
  <2> DEFINE k == First(OpenSlots)
  <2>1. k \in Slots /\ status[k] = "open"
    BY <1>2, OpenSlotFound DEF Join
  <2> HIDE DEF k
  <2>2. /\ occupant' = [occupant EXCEPT ![k] = p]
        /\ status' = [status EXCEPT ![k] = "not_ready"]
        /\ in_progress' = in_progress
    BY <1>2 DEF Join, k
  <2>3. InPlay' = InPlay /\ \A j \in InPlay : occupant'[j] = occupant[j]
    BY <2>1, <2>2 DEF InPlay, IInv, TypeOK
  <2> QED
    BY <1>2, <2>2, <2>3, JoinStep, SamePlay DEF ContractStep
<1>3. CASE Leave(p)
  <2>1. Seated(p) /\ in_progress' = in_progress
        /\ \A k \in Slots : k # SeatOf(p) => occupant'[k] = occupant[k]
    BY <1>3 DEF Leave, IInv, TypeOK
  <2> QED
    BY <1>3, <2>1, LeaveStep, OutOfPlay DEF ContractStep
<1>4. ASSUME NEW k \in Slots, MatchChangeSlot(p, k) PROVE IInv' /\ ContractStep
  <2>1. Playing' = Playing
    BY <1>4, ChangeSlotStep DEF Playing
  <2> QED
    BY <1>4, <2>1, ChangeSlotStep DEF ContractStep, MatchChangeSlot
<1>5. ASSUME NEW k \in Slots, MatchLock(p, k) PROVE IInv' /\ ContractStep
  <2>1. IInv' /\ InPlay' = InPlay \ {k} /\ occupant' = occupant /\ in_progress' = in_progress
    BY <1>5, LockStep DEF MatchLock
  <2>2. CASE occupant[k] \in Players
    <3> DEFINE q == occupant[k]
    <3>1. Seated(q)
      BY <2>2 DEF Seated, SeatsOf
    <3>2. SeatOf(q) = k
      BY <2>2, <3>1, SeatFound
    <3>3. Playing' = Playing \ {q}
      BY <2>1, <2>2, <3>1, <3>2, OutOfPlay
    <3> QED
      BY <2>1, <2>2, <3>3 DEF ContractStep
  <2>3. CASE occupant[k] \notin Players
    <3>1. k \notin InPlay
      BY <2>3, PlayersInPlay
    <3>2. InPlay' = InPlay
      BY <2>1, <3>1
    <3> QED
      BY <2>1, <3>2, SamePlay DEF ContractStep
  <2> QED
    BY <2>2, <2>3
<1>6. ASSUME NEW new \in Waiting, SetStatus(p, new) PROVE IInv' /\ ContractStep
  <2>1. Seated(p) /\ occupant' = occupant /\ in_progress' = in_progress
    BY <1>6 DEF SetStatus
  <2> QED
    BY <1>6, <2>1, SetStatusStep, OutOfPlay DEF ContractStep
<1>7. CASE ClearMap(p)
  BY <1>7, ClearMapStep, SamePlay DEF ContractStep, ClearMap
<1>8. CASE StartNow(p) \/ StartReady(p)
  <2>1. Start /\ starting' = starting
    BY <1>8 DEF StartNow, StartReady
  <2>2. IInv'
    BY <2>1, StartStep DEF IInv, TypeOK
  <2> QED
    BY <2>1, <2>2 DEF ContractStep, Start, Playing
<1>9. CASE StartTimer(p) \/ CancelTimer(p)
  BY <1>9, TimerStep, SamePlay DEF ContractStep, StartTimer, CancelTimer, seatVars
<1>10. CASE MatchLoadComplete(p) \/ MatchSkipRequest(p)
  BY <1>10, ReportStep, SamePlay DEF ContractStep, MatchLoadComplete, MatchSkipRequest, seatVars
<1>11. CASE MatchComplete(p)
  <2>1. Seated(p) /\ occupant' = occupant
    BY <1>11 DEF MatchComplete
  <2>2. IInv' /\ Playing' = Playing \ {p} /\ in_progress' = (in_progress /\ InPlay' # {})
    BY <1>11, <2>1, CompleteStep, OutOfPlay
  <2>3. Playing' # {} <=> InPlay' # {}
    <3>1. \A k \in InPlay' : occupant'[k] \in Players
      BY <2>2 DEF IInv, TypeOK, PlayingHasPlayer, InPlay
    <3> QED
      BY <3>1 DEF Playing
  <2> QED
    BY <2>2, <2>3 DEF ContractStep
<1>12. CASE MpAbort(p)
  <2>1. IInv' /\ InPlay' = {} /\ in_progress /\ in_progress' = FALSE
    BY <1>12, AbortStep DEF MpAbort
  <2> QED
    BY <2>1 DEF ContractStep, Playing
<1> QED
  BY <1>1, <1>2, <1>3, <1>4, <1>5, <1>6, <1>7, <1>8, <1>9, <1>10, <1>11, <1>12

LEMMA EveryStep == IInv /\ [Next]_vars => IInv' /\ ContractStep
<1> SUFFICES ASSUME IInv, [Next]_vars PROVE IInv' /\ ContractStep
  OBVIOUS
<1>1. CASE TimerFires
  <2>1. CASE Seated(starting) /\ Start /\ starting' = None
    BY <2>1, StartStep DEF ContractStep, Start, Playing
  <2>2. CASE starting' = None /\ UNCHANGED <<seatVars, loaded, skipped, in_progress, history>>
    <3>1. TypeOK'
      BY <2>2 DEF IInv, TypeOK, seatVars, history
    <3> QED
      BY <2>2, <3>1, QuietStep, SamePlay DEF ContractStep, seatVars
  <2> QED
    BY <1>1, <2>1, <2>2 DEF TimerFires
<1>2. CASE UNCHANGED vars
  BY <1>2 DEF vars, IInv, TypeOK, OneSeat, SeatedInside, PlayingHasPlayer, PlayingInProgress,
     InPlay, ContractStep, Playing
<1> QED
  BY <1>1, <1>2, PlayerStep DEF Next

LEMMA Invariant == Spec => []IInv
<1>1. IInv /\ [Next]_vars => IInv'
  BY EveryStep
<1> QED
  BY InitIInv, <1>1, PTL DEF Spec

\* Every attribute always holds a value of its kind.
THEOREM TypeCorrect == Spec => []TypeOK
<1>1. IInv => TypeOK
  BY DEF IInv
<1> QED
  BY <1>1, Invariant, PTL

\* Whatever the clients send, a match with a slot in play is marked as running.
THEOREM RunningWhilePlayed == Spec => []PlayingInProgress
<1>1. IInv => PlayingInProgress
  BY DEF IInv
<1> QED
  BY <1>1, Invariant, PTL

\* The handlers implement the contract of a round: only a start puts players in
\* play, and only the last one to finish, or an abort, ends it.
THEOREM RoundKeepsContract == Spec => ImplementsContract
<1>1. Init => Contract!Init
  BY DEF Init, Contract!Init, InPlay
<1>2. IInv /\ [Next]_vars =>
        [Contract!Next]_<<in_progress, {p \in Players : \E k \in InPlay : occupant[k] = p}>>
  <2> SUFFICES ASSUME IInv, [Next]_vars
               PROVE [Contract!Next]_<<in_progress, {p \in Players : \E k \in InPlay : occupant[k] = p}>>
    OBVIOUS
  <2>1. ContractStep
    BY EveryStep
  <2> QED
    BY <2>1 DEF ContractStep, Playing, Contract!Next, Contract!Begin, Contract!Finish,
       Contract!Drop, Contract!Abort, Contract!Renew
<1> QED
  BY <1>1, <1>2, Invariant, PTL DEF Spec, ImplementsContract, Contract!Spec

-----------------------------------------------------------------------------
(* The game's own clients *)

InsideSeated == \A p \in inside : \E k \in Slots : occupant[k] = p
OpenIsVacant == \A k \in OpenSlots : occupant[k] = None

Tidy ==
    /\ InsideSeated
    /\ OpenIsVacant
    /\ FlagsInRound
    /\ TimerNeedsPlayers

LEMMA CivilIsNext == CivilNext => Next
  BY DEF CivilNext, Next, Loads, Skips, Finishes

\* A step that keeps the seats, opens no slot that is occupied and sets no flag.
LEMMA TidyStatusStep ==
    ASSUME Tidy, UNCHANGED <<inside, occupant, loaded, skipped>>,
           \A k \in Slots : status'[k] = "open" => status[k] = "open" \/ occupant[k] = None,
           in_progress => in_progress',
           starting' \in {None, starting}
    PROVE  Tidy'
  BY DEF Tidy, InsideSeated, OpenIsVacant, OpenSlots, FlagsInRound, TimerNeedsPlayers, Empty

LEMMA TidyJoin ==
    ASSUME IInv, Tidy, NEW p \in Players, Join(p)
    PROVE  Tidy'
<1> DEFINE k == First(OpenSlots)
<1>1. k \in Slots /\ status[k] = "open" /\ occupant[k] = None
  BY OpenSlotFound DEF Join, Tidy, OpenIsVacant, OpenSlots
<1> HIDE DEF k
<1>2. /\ inside' = inside \cup {p}
      /\ UNCHANGED <<loaded, skipped, in_progress, starting>>
      /\ \A j \in Slots : /\ occupant'[j] = IF j = k THEN p ELSE occupant[j]
                          /\ status'[j] = IF j = k THEN "not_ready" ELSE status[j]
  BY <1>1 DEF Join, k, IInv, TypeOK
<1>3. p # None /\ \A q \in inside : q # None
  BY RoundAssumption DEF IInv, TypeOK
<1>4. InsideSeated'
  <2>1. ASSUME NEW q \in inside' PROVE \E j \in Slots : occupant'[j] = q
    <3>1. CASE q = p
      BY <3>1, <1>1, <1>2
    <3>2. CASE q \in inside
      <4>1. PICK j \in Slots : occupant[j] = q
        BY <3>2 DEF Tidy, InsideSeated
      <4>2. j # k
        BY <4>1, <3>2, <1>1, <1>3
      <4> QED
        BY <4>1, <4>2, <1>2
    <3> QED
      BY <2>1, <3>1, <3>2, <1>2
  <2> QED
    BY <2>1 DEF InsideSeated
<1>5. OpenIsVacant'
  BY <1>2 DEF Tidy, OpenIsVacant, OpenSlots
<1>6. FlagsInRound' /\ TimerNeedsPlayers'
  BY <1>1, <1>2, <1>3 DEF Tidy, FlagsInRound, TimerNeedsPlayers, Empty
<1> QED
  BY <1>4, <1>5, <1>6 DEF Tidy

LEMMA TidyLeave ==
    ASSUME IInv, Tidy, NEW p \in Players, Leave(p)
    PROVE  Tidy'
<1> DEFINE k == SeatOf(p)
<1>1. k \in Slots /\ \A j \in Slots : occupant[j] = p <=> j = k
  BY SeatFound DEF Leave
<1> HIDE DEF k
<1>2. /\ inside' = inside \ {p}
      /\ in_progress' = in_progress
      /\ starting' = IF \A j \in Slots \ {k} : occupant[j] = None THEN None ELSE starting
      /\ \A j \in Slots :
           /\ occupant'[j] = IF j = k THEN None ELSE occupant[j]
           /\ j # k => /\ status'[j] = status[j]
                       /\ loaded'[j] = loaded[j]
                       /\ skipped'[j] = skipped[j]
           /\ j = k => ~loaded'[j] /\ ~skipped'[j]
  BY <1>1 DEF Leave, k, IInv, TypeOK
<1>3. InsideSeated'
  BY <1>1, <1>2 DEF Tidy, InsideSeated
<1>4. OpenIsVacant'
  BY <1>2 DEF Tidy, OpenIsVacant, OpenSlots
<1>5. FlagsInRound'
  BY <1>2 DEF Tidy, FlagsInRound
<1>6. TimerNeedsPlayers'
  BY <1>2 DEF Tidy, TimerNeedsPlayers, Empty
<1> QED
  BY <1>3, <1>4, <1>5, <1>6 DEF Tidy

LEMMA TidyChangeSlot ==
    ASSUME IInv, Tidy, NEW p \in Players, NEW k \in Slots, MatchChangeSlot(p, k)
    PROVE  Tidy'
<1> DEFINE old == SeatOf(p)
<1>1. old \in Slots /\ p # None /\ \A j \in Slots : occupant[j] = p <=> j = old
  BY SeatFound, RoundAssumption DEF MatchChangeSlot
<1>2. occupant[k] = None
  BY DEF MatchChangeSlot, Tidy, OpenIsVacant, OpenSlots
<1>3. status[old] # "open"
  BY <1>1 DEF Tidy, OpenIsVacant, OpenSlots
<1> HIDE DEF old
<1>4. /\ UNCHANGED <<inside, in_progress, starting>>
      /\ \A j \in Slots :
           /\ occupant'[j] = IF j = old THEN None ELSE IF j = k THEN p ELSE occupant[j]
           /\ status'[j] = IF j = old THEN "open" ELSE IF j = k THEN status[old] ELSE status[j]
           /\ j # old => loaded'[j] = loaded[j] /\ skipped'[j] = skipped[j]
           /\ j = old => ~loaded'[j] /\ ~skipped'[j]
  BY <1>1 DEF MatchChangeSlot, old, IInv, TypeOK
<1>5. k # old
  BY <1>1, <1>2
<1>6. InsideSeated'
  <2>1. ASSUME NEW q \in inside' PROVE \E j \in Slots : occupant'[j] = q
    <3>1. CASE q = p
      BY <3>1, <1>4, <1>5
    <3>2. CASE q # p
      <4>1. PICK j \in Slots : occupant[j] = q
        BY <2>1, <1>4 DEF Tidy, InsideSeated
      <4>2. q # None
        BY <2>1, <1>4, RoundAssumption DEF IInv, TypeOK
      <4> QED
        BY <3>2, <4>1, <4>2, <1>1, <1>2, <1>4
    <3> QED
      BY <3>1, <3>2
  <2> QED
    BY <2>1 DEF InsideSeated
<1>7. OpenIsVacant'
  BY <1>3, <1>4 DEF Tidy, OpenIsVacant, OpenSlots
<1>8. FlagsInRound' /\ TimerNeedsPlayers'
  BY <1>1, <1>2, <1>4, <1>5 DEF Tidy, FlagsInRound, TimerNeedsPlayers, Empty
<1> QED
  BY <1>6, <1>7, <1>8 DEF Tidy

\* A client that loads or skips is in play, so a round is going on.
LEMMA TidyReport ==
    ASSUME IInv, Tidy, NEW p \in Players, Loads(p) \/ Skips(p)
    PROVE  Tidy'
<1> DEFINE k == SeatOf(p)
<1>1. k \in Slots /\ occupant[k] # None /\ k \in InPlay
  BY SeatFound, RoundAssumption DEF Loads, Skips, Plays, InPlay
<1>2. in_progress
  BY <1>1 DEF IInv, PlayingInProgress
<1> HIDE DEF k
<1>3. /\ UNCHANGED <<inside, occupant, status, in_progress, starting>>
      /\ \A j \in Slots : j # k => loaded'[j] = loaded[j] /\ skipped'[j] = skipped[j]
  BY DEF Loads, Skips, MatchLoadComplete, MatchSkipRequest, seatVars, IInv, TypeOK, k
<1> QED
  BY <1>1, <1>2, <1>3 DEF Tidy, InsideSeated, OpenIsVacant, OpenSlots, FlagsInRound,
     TimerNeedsPlayers, Empty

LEMMA TidyEnd ==
    ASSUME IInv, Tidy, NEW p \in Players, MatchComplete(p) \/ MpAbort(p)
    PROVE  Tidy'
<1>1. /\ UNCHANGED <<inside, occupant, starting>>
      /\ \/ UNCHANGED <<loaded, skipped, in_progress>>
         \/ loaded' = NoFlags /\ skipped' = NoFlags
  BY DEF MatchComplete, MpAbort
<1>2. \A k \in Slots : status'[k] = "open" => status[k] = "open"
  <2>1. CASE MatchComplete(p)
    <3>1. SeatOf(p) \in Slots
      BY <2>1, SeatFound DEF MatchComplete
    <3>2. [status EXCEPT ![SeatOf(p)] = "complete"] \in [Slots -> Status]
      BY <3>1 DEF IInv, TypeOK, Status
    <3> QED
      BY <2>1, <3>1, <3>2 DEF MatchComplete, Unreadied, IInv, TypeOK
  <2>2. CASE MpAbort(p)
    BY <2>2 DEF MpAbort, Unreadied
  <2> QED
    BY <2>1, <2>2
<1> QED
  BY <1>1, <1>2 DEF Tidy, InsideSeated, OpenIsVacant, OpenSlots, FlagsInRound,
     TimerNeedsPlayers, Empty, NoFlags

LEMMA TidyStep == IInv /\ Tidy /\ [CivilNext]_vars => Tidy'
<1> SUFFICES ASSUME IInv, Tidy, [CivilNext]_vars PROVE Tidy'
  OBVIOUS
<1>1. ASSUME NEW p \in Players, Create(p) PROVE Tidy'
  BY <1>1, RoundAssumption DEF Create, Tidy, InsideSeated, OpenIsVacant, OpenSlots, FlagsInRound,
     TimerNeedsPlayers, NoFlags
<1>2. ASSUME NEW p \in Players, NEW k \in Slots,
             ~(status[k] = "locked" /\ occupant[k] # None), MatchLock(p, k)
      PROVE  Tidy'
  BY <1>2, TidyStatusStep DEF MatchLock, IInv, TypeOK
<1>3. ASSUME NEW p \in Players, NEW new \in Waiting, SetStatus(p, new) PROVE Tidy'
  <2>1. SeatOf(p) \in Slots
    BY <1>3, SeatFound DEF SetStatus
  <2> QED
    BY <1>3, <2>1, TidyStatusStep DEF SetStatus, IInv, TypeOK, Waiting
<1>4. ASSUME NEW p \in Players, ClearMap(p) PROVE Tidy'
  BY <1>4, TidyStatusStep DEF ClearMap, Unreadied
<1>5. ASSUME Start, starting' \in {None, starting} PROVE Tidy'
  BY <1>5, TidyStatusStep DEF Start
<1>6. ASSUME NEW p \in Players, StartNow(p) \/ StartReady(p) PROVE Tidy'
  BY <1>5, <1>6 DEF StartNow, StartReady
<1>7. ASSUME NEW p \in Players, StartTimer(p) PROVE Tidy'
  <2>1. \E k \in Slots : occupant[k] = p
    BY <1>7 DEF StartTimer, Tidy, InsideSeated
  <2>2. ~Empty'
    BY <1>7, <2>1, RoundAssumption DEF StartTimer, Empty, seatVars
  <2> QED
    BY <1>7, <2>2 DEF StartTimer, seatVars, Tidy, InsideSeated, OpenIsVacant, OpenSlots,
       FlagsInRound, TimerNeedsPlayers
<1>8. ASSUME NEW p \in Players, CancelTimer(p) PROVE Tidy'
  BY <1>8, TidyStatusStep DEF CancelTimer, seatVars
<1>9. ASSUME TimerFires PROVE Tidy'
  <2>1. CASE starting' = None /\ UNCHANGED <<seatVars, loaded, skipped, in_progress, history>>
    BY <2>1, TidyStatusStep DEF seatVars
  <2> QED
    BY <1>9, <1>5, <2>1 DEF TimerFires
<1>10. CASE UNCHANGED vars
  BY <1>10, TidyStatusStep DEF vars
<1>11. ASSUME NEW p \in Players, Finishes(p) \/ MpAbort(p) PROVE Tidy'
  BY <1>11, TidyEnd DEF Finishes
<1> QED
  BY <1>1, <1>2, <1>3, <1>4, <1>6, <1>7, <1>8, <1>9, <1>10, <1>11, TidyJoin, TidyLeave,
     TidyChangeSlot, TidyReport DEF CivilNext

LEMMA CivilInvariant == CivilSpec => [](IInv /\ Tidy)
<1>1. Init => Tidy
  BY RoundAssumption DEF Init, Tidy, InsideSeated, OpenIsVacant, OpenSlots, FlagsInRound,
     TimerNeedsPlayers, NoFlags
<1>2. IInv /\ Tidy /\ [CivilNext]_vars => (IInv /\ Tidy)'
  BY EveryStep, TidyStep, CivilIsNext
<1> QED
  BY InitIInv, <1>1, <1>2, PTL DEF CivilSpec

\* With the game's own clients the loaded and skipped flags are clean before
\* every round that starts from the lobby, although Match.start resets none.
THEOREM FlagsStayInRound == CivilSpec => []FlagsInRound
<1>1. Tidy => FlagsInRound
  BY DEF Tidy
<1> QED
  BY <1>1, CivilInvariant, PTL

\* With the game's own clients no timer is pending for a match without players.
THEOREM TimersNeedPlayers == CivilSpec => []TimerNeedsPlayers
<1>1. Tidy => TimerNeedsPlayers
  BY DEF Tidy
<1> QED
  BY <1>1, CivilInvariant, PTL
=============================================================================
