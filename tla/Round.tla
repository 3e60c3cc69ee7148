------------------------------- MODULE Round --------------------------------
(***************************************************************************)
(* A round of one match, from the start over "everybody has loaded" to the *)
(* end: the full slot statuses, the loaded and skipped flags, the progress *)
(* flag and the delayed start of !mp start N.                              *)
(*                                                                         *)
(* Who may be host or referee is the subject of Rooms: here whoever is in  *)
(* the match may be either.  A join by the host's own account and a host   *)
(* that is gone are Rooms', too.  Every handler runs to its end without    *)
(* awaiting; the delayed start is a timer of the event loop and may fire   *)
(* between any two of them.                                                *)
(***************************************************************************)
EXTENDS Naturals

CONSTANTS Players, Slots, None

ASSUME RoundAssumption ==
    /\ Slots \subseteq Nat
    /\ 0 \in Slots
    /\ None \notin Players

VARIABLES
    inside,      \* the players whose Player.match is this match
    occupant,    \* Slot.player
    status,      \* Slot.status
    loaded,      \* Slot.loaded
    skipped,     \* Slot.skipped
    in_progress, \* Match.in_progress
    starting,    \* Match.starting: None, or who typed !mp start N
    told,        \* history: the match-wide packets sent since the last start
    reports,     \* history: what each player has reported since the last start
    stranded     \* history: a departure from play left a round nobody can move on

seatVars == <<inside, occupant, status>>
history == <<told, reports, stranded>>
vars == <<inside, occupant, status, loaded, skipped, in_progress, starting, told, reports,
          stranded>>

Waiting == {"not_ready", "ready", "no_map"}
Status == Waiting \cup {"open", "locked", "playing", "complete"}

First(K) == CHOOSE k \in K : \A j \in K : k <= j
SeatsOf(p) == {k \in Slots : occupant[k] = p}
SeatOf(p) == First(SeatsOf(p))
Seated(p) == SeatsOf(p) # {}
OpenSlots == {k \in Slots : status[k] = "open"}
InPlay == {k \in Slots : status[k] = "playing"}
Empty == \A k \in Slots : occupant[k] = None
NoFlags == [k \in Slots |-> FALSE]

Init ==
    /\ inside = {}
    /\ occupant = [k \in Slots |-> None]
    /\ status = [k \in Slots |-> "open"]
    /\ loaded = NoFlags
    /\ skipped = NoFlags
    /\ in_progress = FALSE
    /\ starting = None
    /\ told = {}
    /\ reports = [p \in Players |-> {}]
    /\ stranded = FALSE

\* The handlers look whether a round can go on only when a slot in play loads,
\* skips or completes.  When the one that was waited for departs instead, no
\* packet is left that would make them look.
NobodyToWaitFor == InPlay = {} \/ ("begin" \notin told /\ \A k \in InPlay : loaded[k])
NoteDeparture ==
    stranded' = (stranded \/ (InPlay' # InPlay /\ NobodyToWaitFor'))

-----------------------------------------------------------------------------
(* Slots *)

\* A new Match object, joined by its creator.
Create(p) ==
    /\ inside = {}
    /\ inside' = {p}
    /\ occupant' = [k \in Slots |-> IF k = 0 THEN p ELSE None]
    /\ status' = [k \in Slots |-> IF k = 0 THEN "not_ready" ELSE "open"]
    /\ loaded' = NoFlags
    /\ skipped' = NoFlags
    /\ in_progress' = FALSE
    /\ starting' = None
    /\ told' = {}
    /\ reports' = [q \in Players |-> {}]
    /\ stranded' = FALSE

\* Player.join_match takes the first open slot and does not touch its flags.
Join(p) ==
    /\ p \notin inside
    /\ ~Empty
    /\ OpenSlots # {}
    /\ inside' = inside \cup {p}
    /\ occupant' = [occupant EXCEPT ![First(OpenSlots)] = p]
    /\ status' = [status EXCEPT ![First(OpenSlots)] = "not_ready"]
    /\ UNCHANGED <<loaded, skipped, in_progress, starting, history>>

\* Mutant: the timer is not cancelled.
LeaveKeepingTimer(p) ==
    LET k == SeatOf(p) IN
    /\ Seated(p)
    /\ inside' = inside \ {p}
    /\ occupant' = [occupant EXCEPT ![k] = None]
    /\ status' = [status EXCEPT ![k] = IF @ = "locked" THEN "locked" ELSE "open"]
    /\ loaded' = [loaded EXCEPT ![k] = FALSE]
    /\ skipped' = [skipped EXCEPT ![k] = FALSE]
    /\ UNCHANGED <<starting, in_progress, told, reports>>
    /\ NoteDeparture

\* Player.leave_match: the slot is reset, and the last one out cancels the
\* timer.  A round in progress is not looked at.
Leave(p) ==
    LET k == SeatOf(p) IN
    /\ Seated(p)
    /\ inside' = inside \ {p}
    /\ occupant' = [occupant EXCEPT ![k] = None]
    /\ status' = [status EXCEPT ![k] = IF @ = "locked" THEN "locked" ELSE "open"]
    /\ loaded' = [loaded EXCEPT ![k] = FALSE]
    /\ skipped' = [skipped EXCEPT ![k] = FALSE]
    /\ starting' = IF \A j \in Slots \ {k} : occupant[j] = None THEN None ELSE starting
    /\ UNCHANGED <<in_progress, told, reports>>
    /\ NoteDeparture

\* copy_from takes the player and the status along, not the flags.
MatchChangeSlot(p, k) ==
    LET old == SeatOf(p) IN
    /\ Seated(p)
    /\ status[k] = "open"
    /\ occupant' = [[occupant EXCEPT ![k] = p] EXCEPT ![old] = None]
    /\ status' = [[status EXCEPT ![k] = status[old]] EXCEPT ![old] = "open"]
    /\ loaded' = [loaded EXCEPT ![old] = FALSE]
    /\ skipped' = [skipped EXCEPT ![old] = FALSE]
    /\ UNCHANGED <<inside, in_progress, starting, history>>

\* MatchReady, MatchNotReady, MatchHasBeatmap and MatchNoBeatmap, in whatever
\* state the player's slot is.
SetStatus(p, new) ==
    /\ Seated(p)
    /\ status' = [status EXCEPT ![SeatOf(p)] = new]
    /\ UNCHANGED <<inside, occupant, loaded, skipped, in_progress, starting, history>>

\* MatchLock, by the host p.  A slot that is being played in is locked as well.
MatchLock(p, k) ==
    /\ p \in inside
    /\ \/ status[k] = "locked" /\ status' = [status EXCEPT ![k] = "open"]
       \/ /\ status[k] # "locked"
          /\ occupant[k] # p
          /\ status' = [status EXCEPT ![k] = "locked"]
    /\ UNCHANGED <<inside, occupant, loaded, skipped, in_progress, starting, told, reports>>
    /\ NoteDeparture

\* unready_players, called when the host is about to change the map.
Unreadied(expected, before) ==
    [k \in Slots |-> IF before[k] = expected THEN "not_ready" ELSE before[k]]

ClearMap(p) ==
    /\ p \in inside
    /\ status' = Unreadied("ready", status)
    /\ UNCHANGED <<inside, occupant, loaded, skipped, in_progress, starting, history>>

-----------------------------------------------------------------------------
(* Starting *)

\* Match.start puts everybody in play who has the map, ready or not.  The
\* flags are as the last round left them.
Start ==
    /\ status' = [k \in Slots |->
                    IF occupant[k] # None /\ status[k] # "no_map" THEN "playing" ELSE status[k]]
    /\ in_progress' = TRUE
    /\ told' = {}
    /\ reports' = [p \in Players |-> {}]
    /\ stranded' = (InPlay' = {})
    /\ UNCHANGED <<inside, occupant, loaded, skipped>>

\* The host's MatchStart and !mp start force ask nothing ...
StartNow(p) ==
    /\ p \in inside
    /\ Start
    /\ UNCHANGED starting

\* ... and !mp start asks that no timer runs and nobody is not ready.
StartReady(p) ==
    /\ p \in inside
    /\ starting = None
    /\ \A k \in Slots : status[k] # "not_ready"
    /\ Start
    /\ UNCHANGED starting

\* !mp start N
StartTimer(p) ==
    /\ p \in inside
    /\ starting = None
    /\ starting' = p
    /\ UNCHANGED <<seatVars, loaded, skipped, in_progress, history>>

\* !mp start cancel
CancelTimer(p) ==
    /\ p \in inside
    /\ starting # None
    /\ starting' = None
    /\ UNCHANGED <<seatVars, loaded, skipped, in_progress, history>>

\* The timer fires: the match starts if who typed the command is still seated.
TimerFires ==
    /\ starting # None
    /\ starting' = None
    /\ \/ Seated(starting) /\ Start
       \/ ~Seated(starting) /\ UNCHANGED <<seatVars, loaded, skipped, in_progress, history>>

-----------------------------------------------------------------------------
(* In play *)

\* Mutant: everybody with a slot is waited for, in play or not.
LoadCompleteWaitsForAll(p) ==
    /\ Seated(p)
    /\ loaded' = [loaded EXCEPT ![SeatOf(p)] = TRUE]
    /\ reports' = [reports EXCEPT ![p] = @ \cup {"loaded"}]
    /\ told' = IF \A k \in Slots : occupant[k] # None => loaded'[k]
                 THEN told \cup {"begin"} ELSE told
    /\ UNCHANGED <<seatVars, skipped, in_progress, starting, stranded>>

\* MatchLoadComplete: when no slot in play is unloaded, all are told to begin.
MatchLoadComplete(p) ==
    /\ Seated(p)
    /\ loaded' = [loaded EXCEPT ![SeatOf(p)] = TRUE]
    /\ reports' = [reports EXCEPT ![p] = @ \cup {"loaded"}]
    /\ told' = IF \A k \in InPlay : loaded'[k] THEN told \cup {"begin"} ELSE told
    /\ UNCHANGED <<seatVars, skipped, in_progress, starting, stranded>>

\* MatchSkipRequest: the same for the introduction of the song.
MatchSkipRequest(p) ==
    /\ Seated(p)
    /\ skipped' = [skipped EXCEPT ![SeatOf(p)] = TRUE]
    /\ reports' = [reports EXCEPT ![p] = @ \cup {"skipped"}]
    /\ told' = IF \A k \in InPlay : skipped'[k] THEN told \cup {"skip"} ELSE told
    /\ UNCHANGED <<seatVars, loaded, in_progress, starting, stranded>>

\* Mutant: the first to finish ends the round.
CompleteEndsRound(p) ==
    LET after == [status EXCEPT ![SeatOf(p)] = "complete"] IN
    /\ Seated(p)
    /\ status' = Unreadied("complete", after)
    /\ loaded' = NoFlags
    /\ skipped' = NoFlags
    /\ in_progress' = FALSE
    /\ UNCHANGED <<inside, occupant, starting, history>>

\* Mutant: everybody with a slot has to complete, in play or not.
CompleteWaitsForAll(p) ==
    LET after == [status EXCEPT ![SeatOf(p)] = "complete"]
        missing == {k \in Slots : occupant[k] # None /\ after[k] # "complete"}
    IN
    /\ Seated(p)
    /\ \/ /\ missing # {}
          /\ status' = after
          /\ UNCHANGED <<loaded, skipped, in_progress>>
       \/ /\ missing = {}
          /\ status' = Unreadied("complete", after)
          /\ loaded' = NoFlags
          /\ skipped' = NoFlags
          /\ in_progress' = FALSE
    /\ UNCHANGED <<inside, occupant, starting, history>>

\* MatchComplete: the round ends with the last one to finish.
MatchComplete(p) ==
    LET after == [status EXCEPT ![SeatOf(p)] = "complete"] IN
    /\ Seated(p)
    /\ \/ /\ \E k \in Slots : after[k] = "playing"
          /\ status' = after
          /\ UNCHANGED <<loaded, skipped, in_progress>>
       \/ /\ \A k \in Slots : after[k] # "playing"
          /\ status' = Unreadied("complete", after)
          /\ loaded' = NoFlags
          /\ skipped' = NoFlags
          /\ in_progress' = FALSE
    /\ UNCHANGED <<inside, occupant, starting, history>>

\* Mutant: the flags are not reset.
AbortKeepingFlags(p) ==
    /\ p \in inside
    /\ in_progress
    /\ status' = Unreadied("playing", status)
    /\ in_progress' = FALSE
    /\ UNCHANGED <<inside, occupant, loaded, skipped, starting, history>>

\* Mutant: the players stay in play.
AbortKeepingPlayers(p) ==
    /\ p \in inside
    /\ in_progress
    /\ loaded' = NoFlags
    /\ skipped' = NoFlags
    /\ in_progress' = FALSE
    /\ UNCHANGED <<inside, occupant, status, starting, history>>

\* !mp abort leaves the slots that have completed as they are.
MpAbort(p) ==
    /\ p \in inside
    /\ in_progress
    /\ status' = Unreadied("playing", status)
    /\ loaded' = NoFlags
    /\ skipped' = NoFlags
    /\ in_progress' = FALSE
    /\ UNCHANGED <<inside, occupant, starting, history>>

-----------------------------------------------------------------------------
(* Clients that send anything at any time *)

Next ==
    \/ \E p \in Players :
         \/ Create(p) \/ Join(p) \/ Leave(p)
         \/ \E k \in Slots : MatchChangeSlot(p, k) \/ MatchLock(p, k)
         \/ \E new \in Waiting : SetStatus(p, new)
         \/ ClearMap(p)
         \/ StartNow(p) \/ StartReady(p) \/ StartTimer(p) \/ CancelTimer(p)
         \/ MatchLoadComplete(p) \/ MatchSkipRequest(p) \/ MatchComplete(p) \/ MpAbort(p)
    \/ TimerFires

Spec == Init /\ [][Next]_vars

-----------------------------------------------------------------------------
(* Clients as the game's own: one that plays loads once, then waits for the *)
(* signal to begin, may ask once to skip, finishes, and does nothing else   *)
(* but leave; the slot of a kicked player is not unlocked before it left;   *)
(* nobody starts a round over that is going on, unless it is stranded.      *)

Plays(p) == Seated(p) /\ status[SeatOf(p)] = "playing"

Loads(p) == Plays(p) /\ "loaded" \notin reports[p] /\ MatchLoadComplete(p)
Skips(p) ==
    Plays(p) /\ "begin" \in told /\ "skipped" \notin reports[p] /\ MatchSkipRequest(p)
Finishes(p) == Plays(p) /\ "begin" \in told /\ MatchComplete(p)

CivilNext ==
    \/ \E p \in Players :
         \/ Create(p) \/ Join(p) \/ Leave(p)
         \/ \E k \in Slots :
              \/ ~Plays(p) /\ MatchChangeSlot(p, k)
              \/ ~(status[k] = "locked" /\ occupant[k] # None) /\ MatchLock(p, k)
         \/ \E new \in Waiting : ~Plays(p) /\ SetStatus(p, new)
         \/ ClearMap(p)
         \/ /\ ~in_progress \/ stranded
            /\ StartNow(p) \/ StartReady(p) \/ StartTimer(p)
         \/ CancelTimer(p)
         \/ Loads(p) \/ Skips(p) \/ Finishes(p) \/ MpAbort(p)
    \/ TimerFires

CivilSpec == Init /\ [][CivilNext]_vars

\* A client that plays loads and finishes, if it stays.  This is an assumption
\* on the game's client; of the server only its event loop is relied on.
FairSpec ==
    CivilSpec /\ \A p \in Players : WF_vars(Loads(p)) /\ WF_vars(Finishes(p))

-----------------------------------------------------------------------------
(* Properties *)

\* The variables hold what the Python attributes can hold.
TypeOK ==
    /\ inside \in SUBSET Players
    /\ occupant \in [Slots -> Players \cup {None}]
    /\ status \in [Slots -> Status]
    /\ loaded \in [Slots -> BOOLEAN]
    /\ skipped \in [Slots -> BOOLEAN]
    /\ in_progress \in BOOLEAN
    /\ starting \in Players \cup {None}
    /\ told \in SUBSET {"begin", "skip"}
    /\ reports \in [Players -> SUBSET {"loaded", "skipped"}]
    /\ stranded \in BOOLEAN

\* While a slot is in play the match says so: the flag the lobby is shown and
\* !mp abort asks for is never dropped under a player that has not finished.
PlayingInProgress == InPlay # {} => in_progress

\* No flag of a round outlives the round, and none is on an empty slot.
FlagsInRound ==
    \A k \in Slots : loaded[k] \/ skipped[k] => in_progress /\ occupant[k] # None

\* A delayed start is pending only for a match with players in it: a match that
\* has been removed from the list is never started.
TimerNeedsPlayers == starting # None => ~Empty

\* Slots, locks and flags apart, a round keeps its contract.
Contract == INSTANCE RoundContract WITH
    running <- in_progress,
    playing <- {p \in Players : \E k \in InPlay : occupant[k] = p}

ImplementsContract == Contract!Spec

\* If the players in play load and finish, everybody is told to begin: the last
\* one to load is noticed, whoever else sits in the match.  The exception is a
\* round stranded by a departure, which the server never notices.
RoundBegins == in_progress ~> ("begin" \in told \/ ~in_progress \/ stranded)

\* Likewise the last one to finish is noticed, and the round ends.
RoundEnds == in_progress ~> (~in_progress \/ stranded)

\* "check if all players are loaded, if so, tell all players to begin"
\* (MatchLoadComplete): whoever is in play then has loaded since the start.
BeginTogether ==
    [][\A k \in Slots :
         "begin" \in told' \ told /\ status[k] = "playing" =>
           "loaded" \in reports'[occupant[k]]]_vars
=============================================================================
