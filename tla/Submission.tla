----------------------------- MODULE Submission -----------------------------
(***************************************************************************)
(* Score submission: requests of game clients that are handled at once, a  *)
(* lock for each play (the score's checksum), a judgement by the player's  *)
(* previous best, and a database transaction next to counters in memory.   *)
(*                                                                         *)
(* The service awaits each database call, so other requests run between    *)
(* any two of its steps; an action ends where the service awaits.  A step  *)
(* may raise: before the transaction nothing has to be undone, in it the   *)
(* database rolls back and the counters in memory are set back to the      *)
(* snapshot taken before it.  The server may restart: the locks and the    *)
(* counters in memory are lost, the latter are read again from the tables. *)
(*                                                                         *)
(* The database is not part of the repository.  Of InnoDB the module uses  *)
(* that a transaction's writes show when it commits, and which statements  *)
(* wait for which: MarkWaits, InsertWaits and StatsRowTaken below.         *)
(*                                                                         *)
(* Maps are ranked and players are not restricted; the counters            *)
(* are the play count and the ranked score of a player in one game mode,   *)
(* and the play count of a map.                                            *)
(***************************************************************************)
EXTENDS Integers, FiniteSets

CONSTANTS Players, Maps,
          Plays,     \* plays, told apart by the checksum of the score
          Requests,  \* requests; several may submit the same play
          PlayOf, PlayerOf, MapOf,
          Passed,    \* the plays that did not fail
          Pp,        \* by which the best score of a player on a map is chosen
          Points,    \* what the best scores add up to the ranked score
          None

Statuses == {"best", "submitted", "failed"}
Verdicts == [status : Statuses, prev : Requests \cup {None}]
Counters == [plays : Int, rscore : Int]
Snapshots == [stats : Counters, plays : Int]

ASSUME SubmissionAssumption ==
    /\ PlayOf \in [Requests -> Plays]
    /\ PlayerOf \in [Plays -> Players]
    /\ MapOf \in [Plays -> Maps]
    /\ Passed \subseteq Plays
    /\ Pp \in [Plays -> Nat]
    /\ Points \in [Plays -> Nat]
    /\ IsFiniteSet(Requests)
    /\ Players \cap Maps = {}
    /\ None \notin Requests \cup Statuses
    /\ None \notin Verdicts \cup Snapshots

VARIABLES
    pc,         \* where the handling of a request is
    lock,       \* who holds the lock of a play
    judged,     \* Score.status and Score.prev_best of a request's score
    saved,      \* the snapshot taken before the transaction
    draft,      \* the counters a transaction will have written
    row,        \* the committed rows: the status of the row a request inserted
    stats,      \* Player.stats
    statsRow,   \* the stats table
    plays,      \* Beatmap.plays
    playsRow,   \* the maps table
    overlapped  \* history: players and maps with two submissions at once

memory == <<stats, plays>>
tables == <<row, statsRow, playsRow>>
vars == <<pc, lock, judged, saved, draft, row, stats, statsRow, plays, playsRow, overlapped>>

Player(r) == PlayerOf[PlayOf[r]]
Map(r) == MapOf[PlayOf[r]]

\* The score of r and that of q compete for the best of a player on a map.
Rivals(r) == {q \in Requests \ {r} : Player(q) = Player(r) /\ Map(q) = Map(r)}
BestRow(r) == {q \in Rivals(r) : row[q] = "best"}

InTransaction == {"begun", "marked", "inserted", "updated"}
Holding == {"checking", "judging", "judged"} \cup InTransaction
Ended == {"done", "duplicate", "failed"}
Handled == {r \in Requests : pc[r] \in Holding}

Init ==
    /\ pc = [r \in Requests |-> "new"]
    /\ lock = [c \in Plays |-> None]
    /\ judged = [r \in Requests |-> None]
    /\ saved = [r \in Requests |-> None]
    /\ draft = [r \in Requests |-> None]
    /\ row = [r \in Requests |-> None]
    /\ stats = [p \in Players |-> [plays |-> 0, rscore |-> 0]]
    /\ statsRow = stats
    /\ plays = [m \in Maps |-> 0]
    /\ playsRow = plays
    /\ overlapped = {}

Move(r, from, to) ==
    /\ pc[r] = from
    /\ pc' = [pc EXCEPT ![r] = to]

-----------------------------------------------------------------------------
(* Before the transaction *)

\* The request has been authenticated and waits for the lock of its play.
Arrive(r) ==
    /\ Move(r, "new", "waiting")
    /\ UNCHANGED <<lock, judged, saved, draft, tables, memory, overlapped>>

\* Mutant: the lock is taken whoever holds it.
AcquireAnyway(r) ==
    /\ Move(r, "waiting", "checking")
    /\ lock' = [lock EXCEPT ![PlayOf[r]] = r]
    /\ overlapped' = overlapped
         \cup {Player(q) : q \in {h \in Handled : Player(h) = Player(r)}}
         \cup {Map(q) : q \in {h \in Handled : Map(h) = Map(r)}}
    /\ UNCHANGED <<judged, saved, draft, tables, memory>>

Acquire(r) ==
    /\ Move(r, "waiting", "checking")
    /\ lock[PlayOf[r]] = None
    /\ lock' = [lock EXCEPT ![PlayOf[r]] = r]
    /\ overlapped' = overlapped
         \cup {Player(q) : q \in {h \in Handled : Player(h) = Player(r)}}
         \cup {Map(q) : q \in {h \in Handled : Map(h) = Map(r)}}
    /\ UNCHANGED <<judged, saved, draft, tables, memory>>

\* Mutant: the lock is not given back when the request ends in an error.
LeaveLocked(r, how) ==
    /\ pc' = [pc EXCEPT ![r] = how]
    /\ lock' = IF how = "failed" THEN lock ELSE [lock EXCEPT ![PlayOf[r]] = None]
    /\ judged' = [judged EXCEPT ![r] = None]
    /\ saved' = [saved EXCEPT ![r] = None]
    /\ draft' = [draft EXCEPT ![r] = None]
    /\ UNCHANGED overlapped

\* The end of the "async with": the lock is given back, whatever the outcome.
Leave(r, how) ==
    /\ pc' = [pc EXCEPT ![r] = how]
    /\ lock' = [lock EXCEPT ![PlayOf[r]] = None]
    /\ judged' = [judged EXCEPT ![r] = None]
    /\ saved' = [saved EXCEPT ![r] = None]
    /\ draft' = [draft EXCEPT ![r] = None]
    /\ UNCHANGED overlapped

\* score_submission_is_duplicate
Submitted(c) == \E q \in Requests : row[q] # None /\ PlayOf[q] = c

CheckDuplicate(r) ==
    \/ /\ Submitted(PlayOf[r])
       /\ pc[r] = "checking"
       /\ Leave(r, "duplicate")
       /\ UNCHANGED <<tables, memory>>
    \/ /\ ~Submitted(PlayOf[r])
       /\ Move(r, "checking", "judging")
       /\ UNCHANGED <<lock, judged, saved, draft, tables, memory, overlapped>>

\* Mutant: a passed score is always the best.
LatestIsBest(r) ==
    IF PlayOf[r] \notin Passed THEN [status |-> "failed", prev |-> None]
    ELSE IF BestRow(r) = {} THEN [status |-> "best", prev |-> None]
    ELSE [status |-> "best", prev |-> CHOOSE q \in BestRow(r) : TRUE]

\* Score.calculate_status
Verdict(r) ==
    IF PlayOf[r] \notin Passed THEN [status |-> "failed", prev |-> None]
    ELSE IF BestRow(r) = {} THEN [status |-> "best", prev |-> None]
    ELSE LET prev == CHOOSE q \in BestRow(r) : TRUE IN
         [status |-> IF Pp[PlayOf[r]] > Pp[PlayOf[prev]] THEN "best" ELSE "submitted",
          prev |-> prev]

Judge(r) ==
    /\ Move(r, "judging", "judged")
    /\ judged' = [judged EXCEPT ![r] = Verdict(r)]
    /\ UNCHANGED <<lock, saved, draft, tables, memory, overlapped>>

\* The map's file is missing, the replay cannot be read, the database is down:
\* an exception before the transaction.
Raise(r) ==
    /\ pc[r] \in {"checking", "judging", "judged"}
    /\ Leave(r, "failed")
    /\ UNCHANGED <<tables, memory>>

-----------------------------------------------------------------------------
(* The transaction *)

IsBest(r) == judged[r] # None /\ judged[r].status = "best"

\* Demoting locks the row of the previous best, or, if there is none, the gap
\* in the index where it would be; gap locks do not exclude each other.
MarkWaits(r) ==
    \E q \in Rivals(r) :
      IsBest(q) /\ (pc[q] \in {"inserted", "updated"} \/ (pc[q] = "marked" /\ BestRow(r) # {}))

\* A best row is not inserted into a gap that somebody else has locked.
InsertWaits(r) == \E q \in Rivals(r) : pc[q] = "marked" /\ IsBest(q)

\* The row of the player's stats is locked from its update to the commit.
StatsRowTaken(r) == \E q \in Requests : q # r /\ pc[q] = "updated" /\ Player(q) = Player(r)

\* capture_score_submission_state, and the start of the transaction.
Begin(r) ==
    /\ Move(r, "judged", "begun")
    /\ saved' = [saved EXCEPT ![r] = [stats |-> stats[Player(r)], plays |-> plays[Map(r)]]]
    /\ UNCHANGED <<lock, judged, draft, tables, memory, overlapped>>

\* mark_previous_best_scores_submitted, for a best score only.  The rows it
\* demotes are given their status when the transaction commits: until then no
\* rival can commit a best row.
MarkPrevious(r) ==
    /\ Move(r, "begun", "marked")
    /\ IsBest(r)
    /\ ~MarkWaits(r)
    /\ UNCHANGED <<lock, judged, saved, draft, tables, memory, overlapped>>

\* ranked_score_delta, which apply_ranked_score_stats adds for a best score.
Gain(r) ==
    IF ~IsBest(r) THEN 0
    ELSE Points[PlayOf[r]]
           - (IF judged[r].prev = None THEN 0 ELSE Points[PlayOf[judged[r].prev]])

\* The row is inserted, then the player's counters in memory are changed, and
\* their new values are what the statement that follows will write.
Insert(r) ==
    LET p == Player(r)
        new == [plays |-> stats[p].plays + 1, rscore |-> stats[p].rscore + Gain(r)]
    IN
    /\ pc[r] = IF IsBest(r) THEN "marked" ELSE "begun"
    /\ IsBest(r) => ~InsertWaits(r)
    /\ pc' = [pc EXCEPT ![r] = "inserted"]
    /\ stats' = [stats EXCEPT ![p] = new]
    /\ draft' = [draft EXCEPT ![r] = [stats |-> new, plays |-> 0]]
    /\ UNCHANGED <<lock, judged, saved, plays, tables, overlapped>>

\* The stats row is updated, then the map's counter in memory is changed.
UpdateStats(r) ==
    /\ Move(r, "inserted", "updated")
    /\ ~StatsRowTaken(r)
    /\ plays' = [plays EXCEPT ![Map(r)] = @ + 1]
    /\ draft' = [draft EXCEPT ![r].plays = plays[Map(r)] + 1]
    /\ UNCHANGED <<lock, judged, saved, stats, tables, overlapped>>

\* Mutant: the best row of a player on the map is left as it is.
DemoteNobody(r) == row

Demoted(r) == [q \in Requests |-> IF IsBest(r) /\ q \in BestRow(r) THEN "submitted" ELSE row[q]]

\* The map's row is updated and the transaction commits; the lock is released.
Commit(r) ==
    /\ pc[r] = "updated"
    /\ row' = [Demoted(r) EXCEPT ![r] = judged[r].status]
    /\ statsRow' = [statsRow EXCEPT ![Player(r)] = draft[r].stats]
    /\ playsRow' = [playsRow EXCEPT ![Map(r)] = draft[r].plays]
    /\ Leave(r, "done")
    /\ UNCHANGED memory

\* Mutant: the counters in memory are not set back.
RollBackTablesOnly(r) ==
    /\ pc[r] \in InTransaction
    /\ Leave(r, "failed")
    /\ UNCHANGED <<tables, memory>>

\* A statement fails, or the database breaks a deadlock of two transactions:
\* restore_score_submission_state.
RollBack(r) ==
    /\ pc[r] \in InTransaction
    /\ stats' = [stats EXCEPT ![Player(r)] = saved[r].stats]
    /\ plays' = [plays EXCEPT ![Map(r)] = saved[r].plays]
    /\ Leave(r, "failed")
    /\ UNCHANGED tables

\* Two transactions that wait for each other's gap: one is rolled back.
Deadlocked(r) ==
    /\ pc[r] = "marked" /\ InsertWaits(r)
    /\ RollBack(r)

-----------------------------------------------------------------------------
\* The server stops and starts again.  Open transactions are rolled back.
Restart ==
    /\ pc' = [r \in Requests |-> IF pc[r] \in Holding \cup {"waiting"} THEN "failed" ELSE pc[r]]
    /\ lock' = [c \in Plays |-> None]
    /\ judged' = [r \in Requests |-> None]
    /\ saved' = [r \in Requests |-> None]
    /\ draft' = [r \in Requests |-> None]
    /\ stats' = statsRow
    /\ plays' = playsRow
    /\ UNCHANGED <<tables, overlapped>>

\* What the handling of a request does if no statement fails.
Proceed(r) ==
    \/ Acquire(r) \/ CheckDuplicate(r) \/ Judge(r)
    \/ Begin(r) \/ MarkPrevious(r) \/ Insert(r) \/ UpdateStats(r) \/ Commit(r)
    \/ Deadlocked(r)

Next ==
    \/ \E r \in Requests : Arrive(r) \/ Proceed(r) \/ Raise(r) \/ RollBack(r)
    \/ Restart

Spec == Init /\ [][Next]_vars

\* The event loop resumes a request when the lock is given to it or the database
\* answers; asyncio's lock is given to the waiting requests in turn.
FairSpec == Spec /\ \A r \in Requests : WF_vars(Proceed(r))

-----------------------------------------------------------------------------
(* Properties *)

\* The variables hold what the attributes and tables can hold.
TypeOK ==
    /\ pc \in [Requests -> {"new", "waiting"} \cup Holding \cup Ended]
    /\ lock \in [Plays -> Requests \cup {None}]
    /\ judged \in [Requests -> Verdicts \cup {None}]
    /\ saved \in [Requests -> Snapshots \cup {None}]
    /\ draft \in [Requests -> Snapshots \cup {None}]
    /\ row \in [Requests -> Statuses \cup {None}]
    /\ stats \in [Players -> Counters]
    /\ statsRow \in [Players -> Counters]
    /\ plays \in [Maps -> Int]
    /\ playsRow \in [Maps -> Int]
    /\ overlapped \in SUBSET (Players \cup Maps)

\* A play is in the table once, however often it is submitted, at once or after
\* an error or a restart: the index on the checksum is not unique, so all rests
\* on the lock and on the look at the table under it.
OneRowPerPlay ==
    \A q, r \in Requests : row[q] # None /\ row[r] # None /\ PlayOf[q] = PlayOf[r] => q = r

\* A player has exactly one best row on a map it has passed, although the rows
\* were judged by what the table held some awaits earlier.
OneBest ==
    \A r \in Requests :
      row[r] \in {"best", "submitted"} =>
        Cardinality({q \in Rivals(r) \cup {r} : row[q] = "best"}) = 1

\* For a player whose submissions never overlapped the best row has the most pp.
SerialBestIsHighest ==
    \A r \in Requests :
      row[r] = "best" /\ Player(r) \notin overlapped =>
        \A q \in Rivals(r) : row[q] = "submitted" => Pp[PlayOf[q]] <= Pp[PlayOf[r]]

\* The counters of players and maps whose submissions never overlapped are,
\* between submissions, what the rows add up to, in memory and in the tables:
\* no failure and no restart makes a play count twice or not at all.
RowsOf(p) == {r \in Requests : row[r] # None /\ Player(r) = p}
RowsOn(m) == {r \in Requests : row[r] # None /\ Map(r) = m}

\* The sum of the points of some requests, as the number of points they have.
PointsOf(r) == {r} \X (1 .. Points[PlayOf[r]])
Worth(S) == Cardinality(UNION {PointsOf(r) : r \in S})
Ranked(p) == Worth({r \in RowsOf(p) : row[r] = "best"})

SerialCountersExact ==
    /\ \A p \in Players \ overlapped :
         (\A r \in Handled : Player(r) # p) =>
           /\ statsRow[p] = [plays |-> Cardinality(RowsOf(p)), rscore |-> Ranked(p)]
           /\ stats[p] = statsRow[p]
    /\ \A m \in Maps \ overlapped :
         (\A r \in Handled : Map(r) # m) =>
           /\ playsRow[m] = Cardinality(RowsOn(m))
           /\ plays[m] = playsRow[m]

\* A request is answered: no lock is kept by one that failed, and two
\* transactions that wait for each other do not wait forever.
RequestsEnd == \A r \in Requests : pc[r] = "waiting" ~> pc[r] \in Ended

\* "this score is our best score. update any preexisting personal best records
\* with SubmissionStatus.SUBMITTED." (persist_submitted_score): what is demoted
\* is not better than the row that is made the best.
BestIsBest ==
    [][\A q, r \in Requests :
         row[q] = "best" /\ row'[q] = "submitted" /\ q \in Rivals(r)
           /\ row[r] = None /\ row'[r] = "best" =>
             Pp[PlayOf[q]] < Pp[PlayOf[r]]]_vars
=============================================================================
