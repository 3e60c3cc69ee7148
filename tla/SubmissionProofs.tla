-------------------------- MODULE SubmissionProofs --------------------------
(***************************************************************************)
(* Proofs about Submission for every number of players, maps, plays and    *)
(* requests: a play has one row, a player one best row on a map, and what  *)
(* a transaction demotes is what it found when it demoted it (IInv, which  *)
(* holds whatever overlaps); and the verdicts and the counters of players  *)
(* and maps whose submissions never overlapped are right (Serial).         *)
(***************************************************************************)
EXTENDS Submission, FiniteSetTheorems, TLAPS

\* A request that is handled holds the lock of its play.
HoldsLock == \A r \in Requests : pc[r] \in Holding => lock[PlayOf[r]] = r

\* Rows are the work of requests that are done.
RowsAreDone == \A r \in Requests : row[r] # None => pc[r] = "done"

\* The answer of the table that a play is new stays true under the lock.
Fresh ==
    \A q, r \in Requests :
      pc[r] \in {"judging", "judged"} \cup InTransaction /\ PlayOf[q] = PlayOf[r] => row[q] = None

\* What a request has computed by the time it needs it.
Prepared ==
    \A r \in Requests :
      /\ pc[r] \in {"judged"} \cup InTransaction <=> judged[r] # None
      /\ pc[r] \in InTransaction => saved[r] # None
      /\ pc[r] \in {"inserted", "updated"} => draft[r] # None

OneBestRow ==
    \A q, r \in Requests : row[q] = "best" /\ row[r] = "best" => q \notin Rivals(r)

\* Where a score is submitted, or judged not to be the best, there is a best.
BehindABest ==
    \A r \in Requests :
      row[r] = "submitted" \/ (judged[r] # None /\ judged[r].status = "submitted") =>
        \E q \in Rivals(r) : row[q] = "best"

IInv ==
    /\ TypeOK
    /\ HoldsLock
    /\ RowsAreDone
    /\ Fresh
    /\ Prepared
    /\ OneRowPerPlay
    /\ OneBestRow
    /\ BehindABest

LEMMA RivalsSymmetric ==
    ASSUME NEW q \in Requests, NEW r \in Requests
    PROVE  q \in Rivals(r) <=> r \in Rivals(q)
  BY DEF Rivals

\* Who shares a rival is the same request or a rival.
LEMMA RivalsTransitive ==
    ASSUME NEW p \in Requests, NEW q \in Rivals(p), NEW r \in Rivals(q)
    PROVE  r = p \/ r \in Rivals(p)
  BY DEF Rivals

LEMMA InitIInv == Init => IInv
<1> SUFFICES ASSUME Init PROVE IInv
  OBVIOUS
<1>1. TypeOK
  BY DEF Init, TypeOK, Counters, Holding
<1>2. None \notin Statuses
  BY SubmissionAssumption
<1> QED
  BY <1>1, <1>2 DEF Statuses, Init, IInv, HoldsLock, RowsAreDone, Fresh, Prepared,
     InTransaction, Holding, OneRowPerPlay, OneBestRow, BehindABest

-----------------------------------------------------------------------------
(* The steps before the transaction *)

LEMMA ArriveStep ==
    ASSUME IInv, NEW r \in Requests, Arrive(r)
    PROVE  IInv'
<1> USE DEF Arrive, Move, tables, memory
<1>1. TypeOK'
  BY DEF IInv, TypeOK
<1>2. \A q \in Requests : pc'[q] = IF q = r THEN "waiting" ELSE pc[q]
  BY DEF IInv, TypeOK
<1>3. HoldsLock' /\ RowsAreDone' /\ Fresh' /\ Prepared'
  BY <1>2 DEF IInv, HoldsLock, RowsAreDone, Fresh, Prepared, Holding, InTransaction
<1> QED
  BY <1>1, <1>3 DEF IInv, OneRowPerPlay, OneBestRow, BehindABest

LEMMA AcquireStep ==
    ASSUME IInv, NEW r \in Requests, Acquire(r)
    PROVE  IInv'
<1> USE DEF Acquire, Move, tables, memory
<1>1. PlayOf[r] \in Plays /\ Player(r) \in Players /\ Map(r) \in Maps
  BY SubmissionAssumption DEF Player, Map
<1>2. overlapped' \subseteq Players \cup Maps
  <2>1. \A q \in Handled : Player(q) \in Players /\ Map(q) \in Maps
    BY SubmissionAssumption DEF Handled, Player, Map
  <2>2. overlapped \subseteq Players \cup Maps
    BY DEF IInv, TypeOK
  <2> QED
    BY <2>1, <2>2
<1>3. TypeOK'
  BY <1>1, <1>2 DEF IInv, TypeOK, Holding
<1>4. \A q \in Requests : pc'[q] = IF q = r THEN "checking" ELSE pc[q]
  BY DEF IInv, TypeOK
<1>5. \A q \in Requests : pc[q] \in Holding => PlayOf[q] # PlayOf[r]
  BY SubmissionAssumption DEF IInv, HoldsLock
<1>6. HoldsLock'
  BY <1>1, <1>4, <1>5, SubmissionAssumption DEF IInv, TypeOK, HoldsLock, Holding
<1>7. RowsAreDone' /\ Fresh' /\ Prepared'
  BY <1>4 DEF IInv, RowsAreDone, Fresh, Prepared, InTransaction
<1> QED
  BY <1>3, <1>6, <1>7 DEF IInv, OneRowPerPlay, OneBestRow, BehindABest

\* A request leaves and no row changes.
LEMMA LeaveStep ==
    ASSUME IInv, NEW r \in Requests, NEW how \in {"duplicate", "failed"}, Leave(r, how),
           pc[r] \in Holding, UNCHANGED row,
           stats' \in [Players -> Counters], plays' \in [Maps -> Int],
           UNCHANGED <<statsRow, playsRow>>
    PROVE  IInv'
<1> USE DEF Leave
<1>1. PlayOf[r] \in Plays
  BY SubmissionAssumption
<1>2. TypeOK'
  BY <1>1 DEF IInv, TypeOK, Ended
<1>3. \A q \in Requests : /\ pc'[q] = IF q = r THEN how ELSE pc[q]
                          /\ judged'[q] = IF q = r THEN None ELSE judged[q]
                          /\ saved'[q] = IF q = r THEN None ELSE saved[q]
                          /\ draft'[q] = IF q = r THEN None ELSE draft[q]
  BY DEF IInv, TypeOK
<1>4. \A q \in Requests : q # r /\ pc[q] \in Holding => PlayOf[q] # PlayOf[r]
  BY DEF IInv, HoldsLock
<1>5. HoldsLock'
  BY <1>1, <1>3, <1>4, SubmissionAssumption DEF IInv, TypeOK, HoldsLock, Holding, InTransaction
<1>6. RowsAreDone' /\ Fresh'
  BY <1>3 DEF IInv, RowsAreDone, Fresh, Holding, InTransaction
<1>7. Prepared'
  BY <1>3 DEF IInv, Prepared, InTransaction
<1>8. OneRowPerPlay' /\ OneBestRow'
  BY DEF IInv, OneRowPerPlay, OneBestRow
<1>9. BehindABest'
  BY <1>3 DEF IInv, BehindABest
<1> QED
  BY <1>2, <1>5, <1>6, <1>7, <1>8, <1>9 DEF IInv

LEMMA CheckDuplicateStep ==
    ASSUME IInv, NEW r \in Requests, CheckDuplicate(r)
    PROVE  IInv'
<1>1. CASE Submitted(PlayOf[r])
  <2>1. pc[r] \in Holding /\ Leave(r, "duplicate") /\ UNCHANGED <<tables, memory>>
    BY <1>1 DEF CheckDuplicate, Holding
  <2> QED
    BY <2>1, LeaveStep DEF tables, memory, IInv, TypeOK
<1>2. CASE ~Submitted(PlayOf[r])
  <2>1. /\ Move(r, "checking", "judging")
        /\ UNCHANGED <<lock, judged, saved, draft, tables, memory, overlapped>>
    BY <1>2 DEF CheckDuplicate
  <2>2. \A q \in Requests : pc'[q] = IF q = r THEN "judging" ELSE pc[q]
    BY <2>1 DEF Move, IInv, TypeOK
  <2>3. TypeOK'
    BY <2>1 DEF Move, tables, memory, IInv, TypeOK, Holding
  <2>4. HoldsLock' /\ RowsAreDone' /\ Prepared'
    BY <2>1, <2>2 DEF Move, tables, IInv, HoldsLock, RowsAreDone, Prepared, Holding, InTransaction
  <2>5. Fresh'
    BY <1>2, <2>1, <2>2 DEF tables, IInv, Fresh, Submitted
  <2> QED
    BY <2>1, <2>3, <2>4, <2>5 DEF tables, IInv, OneRowPerPlay, OneBestRow, BehindABest
<1> QED
  BY <1>1, <1>2

\* What calculate_status gives, and what it says of the table.
LEMMA VerdictType ==
    ASSUME NEW r \in Requests
    PROVE  /\ Verdict(r) \in Verdicts
           /\ Verdict(r).status = "submitted" => BestRow(r) # {}
<1>1. CASE PlayOf[r] \notin Passed
  BY <1>1 DEF Verdict, Verdicts, Statuses
<1>2. CASE PlayOf[r] \in Passed /\ BestRow(r) = {}
  BY <1>2 DEF Verdict, Verdicts, Statuses
<1>3. CASE PlayOf[r] \in Passed /\ BestRow(r) # {}
  <2> DEFINE prev == CHOOSE q \in BestRow(r) : TRUE
  <2>1. prev \in Requests
    BY <1>3 DEF BestRow, Rivals
  <2> QED
    BY <1>3, <2>1 DEF Verdict, Verdicts, Statuses
<1> QED
  BY <1>1, <1>2, <1>3

LEMMA JudgeStep ==
    ASSUME IInv, NEW r \in Requests, Judge(r)
    PROVE  IInv'
<1> USE DEF Judge, Move, tables, memory
<1>1. \A q \in Requests : /\ pc'[q] = IF q = r THEN "judged" ELSE pc[q]
                          /\ judged'[q] = IF q = r THEN Verdict(r) ELSE judged[q]
  BY DEF IInv, TypeOK
<1>2. TypeOK'
  BY VerdictType DEF IInv, TypeOK, Holding
<1>3. HoldsLock' /\ RowsAreDone' /\ Fresh'
  BY <1>1 DEF IInv, HoldsLock, RowsAreDone, Fresh, Holding, InTransaction
<1>4. Verdict(r) # None
  BY VerdictType, SubmissionAssumption
<1>5. Prepared'
  BY <1>1, <1>4 DEF IInv, Prepared, InTransaction
<1>6. BehindABest'
  BY <1>1, VerdictType DEF IInv, BehindABest, BestRow
<1> QED
  BY <1>2, <1>3, <1>5, <1>6 DEF IInv, OneRowPerPlay, OneBestRow

\* An exception before the transaction, or a failed transaction.
LEMMA RaiseStep ==
    ASSUME IInv, NEW r \in Requests, Raise(r)
    PROVE  IInv'
  BY LeaveStep DEF Raise, tables, memory, Holding, IInv, TypeOK

-----------------------------------------------------------------------------
(* The transaction *)

LEMMA BeginStep ==
    ASSUME IInv, NEW r \in Requests, Begin(r)
    PROVE  IInv'
<1> USE DEF Begin, Move, tables, memory
<1> DEFINE snapshot == [stats |-> stats[Player(r)], plays |-> plays[Map(r)]]
<1>1. snapshot \in Snapshots
  BY SubmissionAssumption DEF IInv, TypeOK, Player, Map, Snapshots
<1>2. snapshot # None
  BY <1>1, SubmissionAssumption
<1>3. \A q \in Requests : /\ pc'[q] = IF q = r THEN "begun" ELSE pc[q]
                          /\ saved'[q] = IF q = r THEN snapshot ELSE saved[q]
  BY DEF IInv, TypeOK
<1>4. TypeOK'
  BY <1>1 DEF IInv, TypeOK, Holding, InTransaction
<1> HIDE DEF snapshot
<1>5. HoldsLock' /\ RowsAreDone' /\ Fresh' /\ Prepared'
  BY <1>2, <1>3 DEF IInv, HoldsLock, RowsAreDone, Fresh, Prepared, Holding, InTransaction
<1> QED
  BY <1>4, <1>5 DEF IInv, OneRowPerPlay, OneBestRow, BehindABest

LEMMA MarkPreviousStep ==
    ASSUME IInv, NEW r \in Requests, MarkPrevious(r)
    PROVE  IInv'
<1> USE DEF MarkPrevious, Move, tables, memory
<1>1. \A q \in Requests : pc'[q] = IF q = r THEN "marked" ELSE pc[q]
  BY DEF IInv, TypeOK
<1>2. TypeOK'
  BY DEF IInv, TypeOK, Holding, InTransaction
<1>3. HoldsLock' /\ RowsAreDone' /\ Fresh' /\ Prepared'
  BY <1>1 DEF IInv, HoldsLock, RowsAreDone, Fresh, Prepared, Holding, InTransaction
<1> QED
  BY <1>2, <1>3 DEF IInv, OneRowPerPlay, OneBestRow, BehindABest

LEMMA GainType ==
    ASSUME TypeOK, NEW r \in Requests
    PROVE  Gain(r) \in Int
<1>1. CASE ~IsBest(r)
  BY <1>1 DEF Gain
<1>2. CASE IsBest(r)
  <2>1. judged[r] \in Verdicts
    BY <1>2 DEF TypeOK, IsBest
  <2>2. judged[r].prev \in Requests \cup {None}
    BY <2>1 DEF Verdicts
  <2> QED
    BY <1>2, <2>2, SubmissionAssumption DEF Gain
<1> QED
  BY <1>1, <1>2

LEMMA InsertStep ==
    ASSUME IInv, NEW r \in Requests, Insert(r)
    PROVE  IInv'
<1> DEFINE p == Player(r)
           new == [plays |-> stats[p].plays + 1, rscore |-> stats[p].rscore + Gain(r)]
           written == [stats |-> new, plays |-> 0]
<1>1. pc[r] \in {"begun", "marked"} /\ pc' = [pc EXCEPT ![r] = "inserted"]
  BY DEF Insert
<1>2. /\ stats' = [stats EXCEPT ![p] = new]
      /\ draft' = [draft EXCEPT ![r] = written]
      /\ UNCHANGED <<lock, judged, saved, plays, tables, overlapped>>
  BY DEF Insert
<1>3. p \in Players
  BY SubmissionAssumption DEF Player
<1>4. new \in Counters
  BY <1>3, GainType DEF IInv, TypeOK, Counters
<1>5. written \in Snapshots
  BY <1>4 DEF Snapshots
<1>6. written # None
  BY <1>5, SubmissionAssumption
<1> HIDE DEF new, written, p
<1>7. TypeOK'
  BY <1>1, <1>2, <1>3, <1>4, <1>5 DEF tables, IInv, TypeOK, Holding, InTransaction
<1>8. \A q \in Requests : /\ pc'[q] = IF q = r THEN "inserted" ELSE pc[q]
                          /\ draft'[q] = IF q = r THEN written ELSE draft[q]
  BY <1>1, <1>2 DEF IInv, TypeOK
<1>9. HoldsLock' /\ RowsAreDone' /\ Fresh' /\ Prepared'
  BY <1>1, <1>2, <1>6, <1>8
  DEF tables, IInv, HoldsLock, RowsAreDone, Fresh, Prepared, Holding, InTransaction
<1> QED
  BY <1>2, <1>7, <1>9 DEF tables, IInv, OneRowPerPlay, OneBestRow, BehindABest

LEMMA UpdateStatsStep ==
    ASSUME IInv, NEW r \in Requests, UpdateStats(r)
    PROVE  IInv'
<1> DEFINE written == [draft[r] EXCEPT !.plays = plays[Map(r)] + 1]
<1>1. pc[r] = "inserted" /\ pc' = [pc EXCEPT ![r] = "updated"]
  BY DEF UpdateStats, Move
<1>2. /\ plays' = [plays EXCEPT ![Map(r)] = @ + 1]
      /\ draft' = [draft EXCEPT ![r] = written]
      /\ UNCHANGED <<lock, judged, saved, stats, tables, overlapped>>
  BY DEF UpdateStats
<1>3. Map(r) \in Maps /\ plays[Map(r)] + 1 \in Int
  BY SubmissionAssumption DEF Map, IInv, TypeOK
<1>4. draft[r] \in Snapshots
  BY <1>1 DEF IInv, TypeOK, Prepared
<1>5. written \in Snapshots
  BY <1>3, <1>4 DEF Snapshots
<1>6. written # None
  BY <1>5, SubmissionAssumption
<1> HIDE DEF written
<1>7. TypeOK'
  BY <1>1, <1>2, <1>3, <1>5 DEF tables, IInv, TypeOK, Holding, InTransaction
<1>8. \A q \in Requests : /\ pc'[q] = IF q = r THEN "updated" ELSE pc[q]
                          /\ draft'[q] = IF q = r THEN written ELSE draft[q]
  BY <1>1, <1>2 DEF IInv, TypeOK
<1>9. HoldsLock' /\ RowsAreDone' /\ Fresh' /\ Prepared'
  BY <1>1, <1>2, <1>6, <1>8
  DEF tables, IInv, HoldsLock, RowsAreDone, Fresh, Prepared, Holding, InTransaction
<1> QED
  BY <1>2, <1>7, <1>9 DEF tables, IInv, OneRowPerPlay, OneBestRow, BehindABest

LEMMA RollBackStep ==
    ASSUME IInv, NEW r \in Requests, RollBack(r)
    PROVE  IInv'
<1>1. pc[r] \in InTransaction /\ pc[r] \in Holding
  BY DEF RollBack, Holding
<1>2. saved[r] \in Snapshots
  BY <1>1 DEF IInv, TypeOK, Prepared
<1>3. Player(r) \in Players /\ Map(r) \in Maps
  BY SubmissionAssumption DEF Player, Map
<1>4. stats' \in [Players -> Counters] /\ plays' \in [Maps -> Int]
  BY <1>2, <1>3 DEF RollBack, IInv, TypeOK, Snapshots
<1> QED
  BY <1>1, <1>4, LeaveStep DEF RollBack, tables

\* What a commit does to the rows: the request's own gets its status, and if it
\* is the best, the best rows of its rivals are demoted.
LEMMA CommitRows ==
    ASSUME IInv, NEW r \in Requests, Commit(r)
    PROVE  /\ judged[r] # None /\ judged[r].status \in Statuses
           /\ row[r] = None
           /\ \A q \in Requests :
                row'[q] = IF q = r THEN judged[r].status
                          ELSE IF judged[r].status = "best" /\ q \in Rivals(r) /\ row[q] = "best"
                               THEN "submitted" ELSE row[q]
           /\ row' \in [Requests -> Statuses \cup {None}]
<1>1. judged[r] # None /\ judged[r] \in Verdicts
  BY DEF Commit, IInv, TypeOK, Prepared, InTransaction
<1>2. judged[r].status \in Statuses
  BY <1>1 DEF Verdicts
<1>3. row[r] = None
  BY DEF Commit, IInv, Fresh, InTransaction
<1>4. \A q \in Requests : q \in BestRow(r) <=> q \in Rivals(r) /\ row[q] = "best"
  BY DEF BestRow, Rivals
<1>5. \A q \in Requests :
        Demoted(r)[q] = IF judged[r].status = "best" /\ q \in Rivals(r) /\ row[q] = "best"
                        THEN "submitted" ELSE row[q]
  BY <1>1, <1>4 DEF Demoted, IsBest
<1>6. Demoted(r) \in [Requests -> Statuses \cup {None}]
  BY DEF Demoted, IInv, TypeOK, Statuses
<1>7. row' = [Demoted(r) EXCEPT ![r] = judged[r].status]
  BY DEF Commit
<1> HIDE DEF Demoted
<1> QED
  BY <1>1, <1>2, <1>3, <1>5, <1>6, <1>7

LEMMA CommitStep ==
    ASSUME IInv, NEW r \in Requests, Commit(r)
    PROVE  IInv'
<1> DEFINE s == judged[r].status
<1>1. /\ judged[r] # None /\ s \in Statuses
      /\ row[r] = None
      /\ \A q \in Requests :
           row'[q] = IF q = r THEN s
                     ELSE IF s = "best" /\ q \in Rivals(r) /\ row[q] = "best"
                          THEN "submitted" ELSE row[q]
      /\ row' \in [Requests -> Statuses \cup {None}]
  BY CommitRows
<1>2. PlayOf[r] \in Plays /\ Player(r) \in Players /\ Map(r) \in Maps
  BY SubmissionAssumption DEF Player, Map
<1>3. draft[r] \in Snapshots
  BY DEF Commit, IInv, TypeOK, Prepared
<1>4. statsRow' \in [Players -> Counters] /\ playsRow' \in [Maps -> Int]
  BY <1>2, <1>3 DEF Commit, IInv, TypeOK, Snapshots
<1>5. /\ pc[r] \in InTransaction /\ pc[r] \in Holding
      /\ Leave(r, "done")
      /\ UNCHANGED memory
  BY DEF Commit, InTransaction, Holding
<1>6. TypeOK'
  BY <1>1, <1>2, <1>4, <1>5 DEF Leave, memory, IInv, TypeOK, Ended
<1>7. \A q \in Requests : /\ pc'[q] = IF q = r THEN "done" ELSE pc[q]
                          /\ judged'[q] = IF q = r THEN None ELSE judged[q]
                          /\ saved'[q] = IF q = r THEN None ELSE saved[q]
                          /\ draft'[q] = IF q = r THEN None ELSE draft[q]
  BY <1>5 DEF Leave, IInv, TypeOK
<1>8. \A q \in Requests : q # r /\ pc[q] \in Holding => PlayOf[q] # PlayOf[r]
  BY <1>5 DEF IInv, HoldsLock
<1>9. HoldsLock'
  <2>1. \A q \in Requests : q # r /\ pc[q] \in Holding => lock'[PlayOf[q]] = lock[PlayOf[q]]
    BY <1>2, <1>5, <1>8, SubmissionAssumption DEF Leave, IInv, TypeOK
  <2> QED
    BY <1>7, <2>1 DEF IInv, HoldsLock, Holding, InTransaction
<1> HIDE DEF s
<1>10. \A q \in Requests : q # r => (row'[q] = None <=> row[q] = None)
  BY <1>1, SubmissionAssumption DEF Statuses
<1>11. RowsAreDone'
  BY <1>7, <1>10 DEF IInv, RowsAreDone
<1>12. Fresh'
  <2> SUFFICES ASSUME NEW q \in Requests, NEW x \in Requests,
                      pc'[x] \in {"judging", "judged"} \cup InTransaction, PlayOf[q] = PlayOf[x]
               PROVE  row'[q] = None
    BY DEF Fresh
  <2>1. x # r /\ pc[x] \in {"judging", "judged"} \cup InTransaction
    BY <1>7 DEF InTransaction
  <2>2. q # r
    BY <1>8, <2>1 DEF Holding
  <2> QED
    BY <1>10, <2>1, <2>2 DEF IInv, Fresh
<1>13. Prepared'
  BY <1>7 DEF IInv, Prepared, InTransaction
<1>14. OneRowPerPlay'
  <2>1. \A q \in Requests : PlayOf[q] = PlayOf[r] => row[q] = None
    BY <1>5 DEF IInv, Fresh
  <2> QED
    BY <1>10, <2>1 DEF IInv, OneRowPerPlay
<1>15. \A q \in Requests \ {r} : row'[q] = "best" =>
          row[q] = "best" /\ ~(s = "best" /\ q \in Rivals(r))
  BY <1>1
<1>16. OneBestRow'
  <2> SUFFICES ASSUME NEW p \in Requests, NEW q \in Requests, row'[p] = "best", row'[q] = "best",
                      q \in Rivals(p)
               PROVE  FALSE
    BY RivalsSymmetric DEF OneBestRow
  <2>1. p # q /\ p \in Rivals(q)
    BY RivalsSymmetric DEF Rivals
  <2>2. CASE p = r
    BY <1>1, <1>15, <2>1, <2>2
  <2>3. CASE q = r
    BY <1>1, <1>15, <2>1, <2>3
  <2>4. CASE p # r /\ q # r
    BY <1>15, <2>1, <2>4 DEF IInv, OneBestRow
  <2> QED
    BY <2>2, <2>3, <2>4
<1>17. BehindABest'
  <2> SUFFICES ASSUME NEW x \in Requests,
                      row'[x] = "submitted"
                        \/ (judged'[x] # None /\ judged'[x].status = "submitted")
               PROVE  \E q \in Rivals(x) : row'[q] = "best"
    BY DEF BehindABest
  <2>1. CASE s = "best" /\ x \in Rivals(r)
    BY <1>1, <2>1, RivalsSymmetric DEF Rivals
  <2>2. CASE ~(s = "best" /\ x \in Rivals(r))
    <3>1. row[x] = "submitted" \/ (judged[x] # None /\ judged[x].status = "submitted")
      BY <1>1, <1>7, <2>2 DEF s
    <3>2. ~(x = r /\ s = "best")
      BY <1>1, <1>7
    <3>3. PICK q \in Rivals(x) : row[q] = "best"
      BY <3>1 DEF IInv, BehindABest
    <3>4. q \in Requests /\ q # r
      BY <1>1, <3>3, SubmissionAssumption DEF Rivals, Statuses
    <3>5. ~(s = "best" /\ q \in Rivals(r))
      BY <2>2, <3>2, <3>3, <3>4, RivalsSymmetric, RivalsTransitive
    <3>6. row'[q] = "best"
      BY <1>1, <3>3, <3>4, <3>5
    <3> QED
      BY <3>3, <3>6
  <2> QED
    BY <2>1, <2>2
<1> QED
  BY <1>6, <1>9, <1>11, <1>12, <1>13, <1>14, <1>16, <1>17 DEF IInv

LEMMA RestartStep ==
    ASSUME IInv, Restart
    PROVE  IInv'
<1> USE DEF Restart, tables
<1>1. TypeOK'
  BY DEF IInv, TypeOK, Ended
<1>2. \A q \in Requests : /\ pc'[q] \notin Holding
                          /\ judged'[q] = None
                          /\ pc[q] = "done" => pc'[q] = "done"
  BY DEF Holding, InTransaction
<1>3. HoldsLock' /\ RowsAreDone' /\ Fresh' /\ Prepared'
  BY <1>2 DEF IInv, HoldsLock, RowsAreDone, Fresh, Prepared, Holding, InTransaction
<1> QED
  BY <1>1, <1>2, <1>3 DEF IInv, OneRowPerPlay, OneBestRow, BehindABest

LEMMA StepIInv == IInv /\ [Next]_vars => IInv'
<1> SUFFICES ASSUME IInv, [Next]_vars PROVE IInv'
  OBVIOUS
<1>1. CASE UNCHANGED vars
  BY <1>1 DEF vars, tables, memory, IInv, TypeOK, HoldsLock, RowsAreDone, Fresh, Prepared,
     OneRowPerPlay, OneBestRow, BehindABest
<1>2. ASSUME NEW r \in Requests, Arrive(r) \/ Proceed(r) \/ Raise(r) \/ RollBack(r)
      PROVE  IInv'
  BY <1>2, ArriveStep, AcquireStep, CheckDuplicateStep, JudgeStep, BeginStep, MarkPreviousStep,
     InsertStep, UpdateStatsStep, CommitStep, RaiseStep, RollBackStep DEF Proceed, Deadlocked
<1>3. CASE Restart
  BY <1>3, RestartStep
<1> QED
  BY <1>1, <1>2, <1>3 DEF Next

\* The invariant from which the next three follow: the locks, the index and the
\* steps of a transaction, as submit_score goes through them.
THEOREM Inductive == Spec => []IInv
  BY InitIInv, StepIInv, PTL DEF Spec

-----------------------------------------------------------------------------
(* The properties *)

\* The variables keep their types, for all players, maps, plays and requests.
THEOREM TypeCorrect == Spec => []TypeOK
<1>1. IInv => TypeOK
  BY DEF IInv
<1> QED
  BY <1>1, Inductive, PTL

\* However requests for one play overlap, fail and are sent again, the table has
\* at most one row of it: the lock per checksum does what the index does not.
THEOREM PlaysAreCountedOnce == Spec => []OneRowPerPlay
<1>1. IInv => OneRowPerPlay
  BY DEF IInv
<1> QED
  BY <1>1, Inductive, PTL

\* A player has exactly one best row on a map that has a row it passed: a best
\* score demotes in its own transaction whatever was the best.
THEOREM OneBestEach == Spec => []OneBest
<1>1. ASSUME IInv PROVE OneBest
  <2> SUFFICES ASSUME NEW r \in Requests, row[r] \in {"best", "submitted"}
               PROVE  Cardinality({q \in Rivals(r) \cup {r} : row[q] = "best"}) = 1
    BY DEF OneBest
  <2> DEFINE B == {q \in Rivals(r) \cup {r} : row[q] = "best"}
  <2>1. PICK b \in Requests : b \in B
    BY <1>1 DEF IInv, BehindABest, Rivals
  <2>2. \A c \in B : c = b
    <3> SUFFICES ASSUME NEW c \in B, c # b PROVE FALSE
      OBVIOUS
    <3>1. b \in Requests /\ c \in Requests /\ row[b] = "best" /\ row[c] = "best"
      BY <2>1 DEF Rivals
    <3>2. b \in Rivals(c)
      BY <2>1 DEF Rivals
    <3> QED
      BY <1>1, <3>1, <3>2 DEF IInv, OneBestRow
  <2>3. B = {b}
    BY <2>1, <2>2
  <2> HIDE DEF B
  <2>4. Cardinality(B) = 1
    BY <2>3, FS_Singleton
  <2> QED
    BY <2>4 DEF B
<1> QED
  BY <1>1, Inductive, PTL

-----------------------------------------------------------------------------
(* Demoting at the commit *)

Demoting(r) == IsBest(r) /\ pc[r] \in {"marked", "inserted", "updated"}

\* Once one best score is inserted, no rival is being made the best.
OneMakesBest ==
    \A q, r \in Requests :
      q \in Rivals(r) /\ Demoting(q) /\ Demoting(r) => pc[q] = "marked" /\ pc[r] = "marked"

LEMMA MakesBestStep ==
    ASSUME IInv, OneMakesBest, Next
    PROVE  OneMakesBest'
<1>1. ASSUME NEW x \in Requests, MarkPrevious(x) PROVE OneMakesBest'
  <2>1. \A q \in Requests : pc'[q] = IF q = x THEN "marked" ELSE pc[q]
    BY <1>1 DEF MarkPrevious, Move, IInv, TypeOK
  <2>2. \A q \in Requests : IsBest(q)' <=> IsBest(q)
    BY <1>1 DEF MarkPrevious, IsBest
  <2>3. \A q \in Rivals(x) : IsBest(q) => pc[q] \notin {"inserted", "updated"}
    BY <1>1 DEF MarkPrevious, MarkWaits
  <2> QED
    BY <2>1, <2>2, <2>3, RivalsSymmetric DEF OneMakesBest, Demoting, Rivals
<1>2. ASSUME NEW x \in Requests, Insert(x) PROVE OneMakesBest'
  <2>1. \A q \in Requests : pc'[q] = IF q = x THEN "inserted" ELSE pc[q]
    BY <1>2 DEF Insert, IInv, TypeOK
  <2>2. \A q \in Requests : IsBest(q)' <=> IsBest(q)
    BY <1>2 DEF Insert, IsBest
  <2>3. IsBest(x) => Demoting(x) /\ \A q \in Rivals(x) : ~(pc[q] = "marked" /\ IsBest(q))
    BY <1>2 DEF Insert, InsertWaits, Demoting
  <2> QED
    BY <2>1, <2>2, <2>3, RivalsSymmetric DEF OneMakesBest, Demoting, Rivals
<1>3. ASSUME NEW x \in Requests, UpdateStats(x) PROVE OneMakesBest'
  <2>1. \A q \in Requests : pc'[q] = IF q = x THEN "updated" ELSE pc[q]
    BY <1>3 DEF UpdateStats, Move, IInv, TypeOK
  <2>2. pc[x] = "inserted" /\ \A q \in Requests : IsBest(q)' <=> IsBest(q)
    BY <1>3 DEF UpdateStats, Move, IsBest
  <2> QED
    BY <2>1, <2>2 DEF OneMakesBest, Demoting, Rivals
<1>4. ASSUME NEW x \in Requests,
             Arrive(x) \/ Acquire(x) \/ CheckDuplicate(x) \/ Judge(x) \/ Begin(x)
               \/ Commit(x) \/ Raise(x) \/ RollBack(x)
      PROVE  OneMakesBest'
  <2>1. \A q \in Requests : Demoting(q)' => Demoting(q) /\ pc'[q] = pc[q]
    BY <1>4 DEF Arrive, Acquire, CheckDuplicate, Judge, Begin, Commit, Raise, RollBack, Leave,
       Move, Demoting, IsBest, IInv, TypeOK
  <2> QED
    BY <2>1 DEF OneMakesBest, Rivals
<1>5. CASE Restart
  <2>1. \A q \in Requests : ~Demoting(q)'
    BY <1>5 DEF Restart, Demoting, IsBest
  <2> QED
    BY <2>1 DEF OneMakesBest
<1> QED
  BY <1>1, <1>2, <1>3, <1>4, <1>5 DEF Next, Proceed, Deadlocked

\* What the statement that demotes has found is what there is to demote until
\* its transaction ends: that is why the model may give the demoted rows their
\* status at the commit (mark_previous_best_scores_submitted).
DemotedStay ==
    \A r \in Requests : Demoting(r) /\ Demoting(r)' => BestRow(r)' = BestRow(r)

THEOREM DemotionIsCurrent == Spec => [][DemotedStay]_vars
<1> DEFINE Inv == IInv /\ OneMakesBest
<1>1. Init => Inv
  BY InitIInv, SubmissionAssumption DEF Init, OneMakesBest, Demoting, IsBest
<1>2. Inv /\ [Next]_vars => Inv'
  <2>1. Inv /\ UNCHANGED vars => OneMakesBest'
    BY DEF vars, OneMakesBest, Demoting, IsBest
  <2> QED
    BY <2>1, MakesBestStep, StepIInv
<1>3. Inv /\ [Next]_vars => [DemotedStay]_vars
  <2> SUFFICES ASSUME Inv, Next, NEW r \in Requests, Demoting(r), Demoting(r)'
               PROVE  BestRow(r)' = BestRow(r)
    BY DEF DemotedStay
  <2>1. CASE UNCHANGED row
    BY <2>1 DEF BestRow, Rivals
  <2>2. ASSUME NEW x \in Requests, Commit(x) PROVE BestRow(r)' = BestRow(r)
    <3>1. x # r
      BY <2>2 DEF Demoting, Commit, Leave, IsBest, IInv, TypeOK
    <3>2. ~(x \in Rivals(r) /\ IsBest(x))
      BY <2>2 DEF OneMakesBest, Demoting, Commit
    <3>3. ~(r \in Rivals(x) /\ IsBest(x))
      BY <3>2, RivalsSymmetric
    <3>4. \A q \in Rivals(r) : IsBest(x) => q \notin Rivals(x)
      BY <3>1, <3>2, RivalsSymmetric, RivalsTransitive DEF Rivals
    <3>5. /\ row[x] = None
          /\ judged[x] # None
          /\ \A q \in Requests :
               row'[q] = IF q = x THEN judged[x].status
                         ELSE IF judged[x].status = "best" /\ q \in Rivals(x) /\ row[q] = "best"
                              THEN "submitted" ELSE row[q]
      BY <2>2, CommitRows
    <3>6. \A q \in Rivals(r) : row'[q] = "best" <=> row[q] = "best"
      BY <3>2, <3>4, <3>5, SubmissionAssumption DEF IsBest, Rivals, Statuses
    <3> QED
      BY <3>6 DEF BestRow, Rivals
  <2> QED
    BY <2>1, <2>2 DEF Next, Proceed, Deadlocked, Arrive, Acquire, CheckDuplicate, Judge, Begin,
       MarkPrevious, Insert, UpdateStats, Raise, RollBack, Restart, tables
<1> HIDE DEF Inv
<1> QED
  BY <1>1, <1>2, <1>3, PTL DEF Spec

-----------------------------------------------------------------------------
(* Submissions that do not overlap                                           *)
(*                                                                           *)
(* For a player, or a map, with one submission at a time the awaits do no    *)
(* harm: the verdict is still the table's when the transaction commits, and  *)
(* the counters in memory differ from the tables by what the one open        *)
(* transaction has added, which is what its draft will write.                *)

\* Two submissions at once of a player, or on a map, have been noticed.
Alone ==
    \A q, r \in Requests :
      pc[q] \in Holding /\ pc[r] \in Holding /\ q # r =>
        /\ Player(q) = Player(r) => Player(r) \in overlapped
        /\ Map(q) = Map(r) => Map(r) \in overlapped

\* calculate_status would give the same answer now.
SoundVerdict ==
    \A r \in Requests :
      judged[r] # None /\ Player(r) \notin overlapped => judged[r] = Verdict(r)

\* A request that has changed the counters of its player in memory.
Counted(r) == pc[r] \in {"inserted", "updated"}

RowCount(p) ==
    statsRow[p].plays = Cardinality(RowsOf(p)) /\ statsRow[p].rscore = Ranked(p)

StatsSound ==
    \A p \in Players \ overlapped :
      /\ RowCount(p)
      /\ (\A r \in Requests : Player(r) = p => ~Counted(r)) => stats[p] = statsRow[p]
      /\ \A r \in Requests : Player(r) = p /\ pc[r] \in InTransaction =>
           saved[r].stats = statsRow[p]
      /\ \A r \in Requests : Player(r) = p /\ Counted(r) =>
           /\ stats[p] = [plays |-> statsRow[p].plays + 1,
                          rscore |-> statsRow[p].rscore + Gain(r)]
           /\ draft[r].stats = stats[p]

PlaysSound ==
    \A m \in Maps \ overlapped :
      /\ playsRow[m] = Cardinality(RowsOn(m))
      /\ (\A r \in Requests : Map(r) = m => pc[r] # "updated") => plays[m] = playsRow[m]
      /\ \A r \in Requests : Map(r) = m /\ pc[r] \in InTransaction => saved[r].plays = playsRow[m]
      /\ \A r \in Requests : Map(r) = m /\ pc[r] = "updated" =>
           plays[m] = playsRow[m] + 1 /\ draft[r].plays = plays[m]

Serial ==
    /\ IInv
    /\ Alone
    /\ SoundVerdict
    /\ SerialBestIsHighest
    /\ StatsSound
    /\ PlaysSound

LEMMA SerialInit == Init => Serial
<1> SUFFICES ASSUME Init PROVE Serial
  OBVIOUS
<1>1. Alone /\ SoundVerdict /\ SerialBestIsHighest
  BY SubmissionAssumption DEF Init, Alone, Holding, InTransaction, SoundVerdict,
     SerialBestIsHighest, Statuses
<1>2. ASSUME NEW p \in Players PROVE RowCount(p)
  <2>1. RowsOf(p) = {} /\ {q \in RowsOf(p) : row[q] = "best"} = {}
    BY DEF Init, RowsOf
  <2>2. UNION {PointsOf(r) : r \in {}} = {}
    OBVIOUS
  <2>3. Cardinality({}) = 0
    BY FS_EmptySet
  <2>4. Cardinality(RowsOf(p)) = 0 /\ Ranked(p) = 0
    BY <2>1, <2>2, <2>3 DEF Ranked, Worth
  <2> QED
    BY <2>4 DEF RowCount, Init
<1>3. ASSUME NEW m \in Maps PROVE playsRow[m] = Cardinality(RowsOn(m))
  <2>1. RowsOn(m) = {}
    BY DEF Init, RowsOn
  <2> QED
    BY <2>1, FS_EmptySet DEF Init
<1>4. StatsSound /\ PlaysSound
  BY <1>2, <1>3 DEF Init, StatsSound, PlaysSound, Counted, InTransaction
<1> QED
  BY <1>1, <1>4, InitIInv DEF Serial

\* Where a request is the only one of its player, or of its map.
LEMMA OnlyOne ==
    ASSUME Serial, NEW r \in Requests, pc[r] \in Holding
    PROVE  /\ Player(r) \notin overlapped =>
                \A q \in Requests : Player(q) = Player(r) /\ q # r => pc[q] \notin Holding
           /\ Map(r) \notin overlapped =>
                \A q \in Requests : Map(q) = Map(r) /\ q # r => pc[q] \notin Holding
  BY DEF Serial, Alone

\* Only a request that gets a lock comes to overlap another one.
LEMMA AloneStep == IInv /\ Alone /\ Next => Alone'
<1> SUFFICES ASSUME IInv, Alone, Next PROVE Alone'
  OBVIOUS
<1>1. ASSUME NEW x \in Requests, Acquire(x) PROVE Alone'
  <2>1. \A q \in Requests : pc'[q] = IF q = x THEN "checking" ELSE pc[q]
    BY <1>1 DEF Acquire, Move, IInv, TypeOK
  <2>2. \A q \in Requests : pc[q] \in Holding =>
          /\ Player(q) = Player(x) => Player(x) \in overlapped'
          /\ Map(q) = Map(x) => Map(x) \in overlapped'
    BY <1>1 DEF Acquire, Handled
  <2>3. overlapped \subseteq overlapped'
    BY <1>1 DEF Acquire
  <2> QED
    BY <2>1, <2>2, <2>3 DEF Alone, Player, Map
<1>2. CASE /\ overlapped' = overlapped
           /\ \A q \in Requests : pc'[q] \in Holding => pc[q] \in Holding
  BY <1>2 DEF Alone, Player, Map
<1>3. ASSUME NEW x \in Requests, ~Acquire(x), Arrive(x) \/ Proceed(x) \/ Raise(x) \/ RollBack(x)
      PROVE  /\ overlapped' = overlapped
             /\ \A q \in Requests : pc'[q] \in Holding => pc[q] \in Holding
  <2>1. PICK to : pc' = [pc EXCEPT ![x] = to] /\ (to \in Holding => pc[x] \in Holding)
    BY <1>3 DEF Arrive, Proceed, CheckDuplicate, Judge, Begin, MarkPrevious, Insert, UpdateStats,
       Commit, Deadlocked, Raise, RollBack, Leave, Move, Holding, InTransaction
  <2>2. overlapped' = overlapped
    BY <1>3 DEF Arrive, Proceed, CheckDuplicate, Judge, Begin, MarkPrevious, Insert, UpdateStats,
       Commit, Deadlocked, Raise, RollBack, Leave
  <2> QED
    BY <2>1, <2>2 DEF IInv, TypeOK
<1>4. CASE Restart
  BY <1>2, <1>4 DEF Restart, Holding, InTransaction
<1> QED
  BY <1>1, <1>2, <1>3, <1>4 DEF Next, Proceed

\* The verdict on a score depends on the rows of its player only.
LEMMA VerdictStays ==
    ASSUME NEW r \in Requests,
           \A q \in Requests : Player(q) = Player(r) => row'[q] = row[q]
    PROVE  Verdict(r)' = Verdict(r)
<1>1. BestRow(r)' = BestRow(r)
  BY DEF BestRow, Rivals, Player, Map
<1> QED
  BY <1>1 DEF Verdict

\* The gain of a request depends on its verdict only.
LEMMA GainStays ==
    ASSUME NEW r \in Requests, judged'[r] = judged[r]
    PROVE  Gain(r)' = Gain(r)
  BY DEF Gain, IsBest

\* What the rows add up to depends on the rows of the player, or of the map.
LEMMA CountsStay ==
    /\ \A p \in Players :
         (\A q \in Requests : Player(q) = p => row'[q] = row[q]) =>
           RowsOf(p)' = RowsOf(p) /\ Ranked(p)' = Ranked(p)
    /\ \A m \in Maps :
         (\A q \in Requests : Map(q) = m => (row'[q] = None <=> row[q] = None)) =>
           RowsOn(m)' = RowsOn(m)
<1>1. ASSUME NEW p \in Players, \A q \in Requests : Player(q) = p => row'[q] = row[q]
      PROVE  RowsOf(p)' = RowsOf(p) /\ Ranked(p)' = Ranked(p)
  <2>1. RowsOf(p)' = RowsOf(p)
    BY <1>1 DEF RowsOf, Player
  <2>2. {q \in RowsOf(p) : row[q] = "best"}' = {q \in RowsOf(p) : row[q] = "best"}
    BY <1>1 DEF RowsOf, Player
  <2> QED
    BY <2>1, <2>2 DEF Ranked, Worth, PointsOf
<1>2. ASSUME NEW m \in Maps,
             \A q \in Requests : Map(q) = m => (row'[q] = None <=> row[q] = None)
      PROVE  RowsOn(m)' = RowsOn(m)
  BY <1>2 DEF RowsOn, Map
<1> QED
  BY <1>1, <1>2

\* A step of a request before it changes a counter: it takes or gives back the
\* lock, is judged, takes its snapshot, or demotes.
LEMMA QuietStep ==
    ASSUME Serial, NEW r \in Requests,
           UNCHANGED <<row, statsRow, stats, plays, playsRow>>,
           overlapped \subseteq overlapped',
           \A q \in Requests \ {r} : /\ pc'[q] = pc[q]
                                     /\ judged'[q] = judged[q]
                                     /\ saved'[q] = saved[q]
                                     /\ draft'[q] = draft[q],
           ~Counted(r), ~Counted(r)',
           judged'[r] \in {None, judged[r], Verdict(r)},
           pc'[r] \in InTransaction =>
             \/ pc[r] \in InTransaction /\ saved'[r] = saved[r]
             \/ /\ pc[r] \in Holding
                /\ saved'[r].stats = stats[Player(r)]
                /\ saved'[r].plays = plays[Map(r)]
    PROVE  (SoundVerdict /\ SerialBestIsHighest /\ StatsSound /\ PlaysSound)'
<1>1. SoundVerdict'
  <2>1. \A q \in Requests : Verdict(q)' = Verdict(q)
    BY VerdictStays
  <2> QED
    BY <2>1 DEF SoundVerdict, Serial, Player
<1>2. SerialBestIsHighest'
  BY DEF SerialBestIsHighest, Serial, Rivals, Player, Map
<1>3. StatsSound'
  <2> SUFFICES ASSUME NEW p \in Players, p \notin overlapped
               PROVE  /\ RowCount(p)'
                      /\ (\A q \in Requests : Player(q) = p => ~Counted(q)') =>
                           stats[p] = statsRow[p]
                      /\ \A q \in Requests : Player(q) = p /\ pc'[q] \in InTransaction =>
                           saved'[q].stats = statsRow[p]
                      /\ \A q \in Requests : Player(q) = p /\ Counted(q)' =>
                           /\ stats[p] = [plays |-> statsRow[p].plays + 1,
                                          rscore |-> statsRow[p].rscore + Gain(q)']
                           /\ draft'[q].stats = stats[p]
    BY DEF StatsSound, Player
  <2>1. RowCount(p)'
    BY CountsStay DEF RowCount, Serial, StatsSound
  <2>2. \A q \in Requests : Counted(q)' <=> Counted(q)
    BY DEF Counted
  <2>3. (\A q \in Requests : Player(q) = p => ~Counted(q)') => stats[p] = statsRow[p]
    BY <2>2 DEF Serial, StatsSound
  <2>4. ASSUME NEW q \in Requests, Player(q) = p, pc'[q] \in InTransaction
        PROVE  saved'[q].stats = statsRow[p]
    <3>1. CASE pc[q] \in InTransaction /\ saved'[q] = saved[q]
      BY <2>4, <3>1 DEF Serial, StatsSound
    <3>2. CASE q = r /\ pc[r] \in Holding /\ saved'[r].stats = stats[Player(r)]
      <4>1. \A x \in Requests : Player(x) = p => ~Counted(x)
        BY <2>4, <3>2, OnlyOne DEF Counted, Holding, InTransaction
      <4>2. stats[p] = statsRow[p]
        BY <4>1 DEF Serial, StatsSound
      <4> QED
        BY <2>4, <3>2, <4>2
    <3> QED
      BY <2>4, <3>1, <3>2
  <2>5. ASSUME NEW q \in Requests, Player(q) = p, Counted(q)'
        PROVE  /\ stats[p] = [plays |-> statsRow[p].plays + 1,
                              rscore |-> statsRow[p].rscore + Gain(q)']
               /\ draft'[q].stats = stats[p]
    <3>1. q # r /\ Counted(q)
      BY <2>2, <2>5
    <3>2. Gain(q)' = Gain(q) /\ draft'[q] = draft[q]
      BY <3>1, GainStays
    <3> QED
      BY <2>5, <3>1, <3>2 DEF Serial, StatsSound
  <2> QED
    BY <2>1, <2>3, <2>4, <2>5
<1>4. PlaysSound'
  <2> SUFFICES ASSUME NEW m \in Maps, m \notin overlapped
               PROVE  /\ playsRow[m] = Cardinality(RowsOn(m)')
                      /\ (\A q \in Requests : Map(q) = m => pc'[q] # "updated") =>
                           plays[m] = playsRow[m]
                      /\ \A q \in Requests : Map(q) = m /\ pc'[q] \in InTransaction =>
                           saved'[q].plays = playsRow[m]
                      /\ \A q \in Requests : Map(q) = m /\ pc'[q] = "updated" =>
                           plays[m] = playsRow[m] + 1 /\ draft'[q].plays = plays[m]
    BY DEF PlaysSound, Map
  <2>1. playsRow[m] = Cardinality(RowsOn(m)')
    BY CountsStay DEF Serial, PlaysSound
  <2>2. \A q \in Requests : pc'[q] = "updated" <=> pc[q] = "updated"
    BY DEF Counted
  <2>3. (\A q \in Requests : Map(q) = m => pc'[q] # "updated") => plays[m] = playsRow[m]
    BY <2>2 DEF Serial, PlaysSound
  <2>4. ASSUME NEW q \in Requests, Map(q) = m, pc'[q] \in InTransaction
        PROVE  saved'[q].plays = playsRow[m]
    <3>1. CASE pc[q] \in InTransaction /\ saved'[q] = saved[q]
      BY <2>4, <3>1 DEF Serial, PlaysSound
    <3>2. CASE q = r /\ pc[r] \in Holding /\ saved'[r].plays = plays[Map(r)]
      <4>1. \A x \in Requests : Map(x) = m => pc[x] # "updated"
        BY <2>4, <3>2, OnlyOne DEF Counted, Holding, InTransaction
      <4>2. plays[m] = playsRow[m]
        BY <4>1 DEF Serial, PlaysSound
      <4> QED
        BY <2>4, <3>2, <4>2
    <3> QED
      BY <2>4, <3>1, <3>2
  <2>5. ASSUME NEW q \in Requests, Map(q) = m, pc'[q] = "updated"
        PROVE  plays[m] = playsRow[m] + 1 /\ draft'[q].plays = plays[m]
    <3>1. q # r /\ pc[q] = "updated"
      BY <2>2, <2>5 DEF Counted
    <3> QED
      BY <2>5, <3>1 DEF Serial, PlaysSound
  <2> QED
    BY <2>1, <2>3, <2>4, <2>5
<1> QED
  BY <1>1, <1>2, <1>3, <1>4

LEMMA QuietSteps ==
    ASSUME Serial, NEW r \in Requests,
           \/ Arrive(r) \/ Acquire(r) \/ CheckDuplicate(r) \/ Judge(r)
           \/ Begin(r) \/ MarkPrevious(r) \/ Raise(r)
    PROVE  (SoundVerdict /\ SerialBestIsHighest /\ StatsSound /\ PlaysSound)'
<1> DEFINE Frame == /\ UNCHANGED <<row, statsRow, stats, plays, playsRow>>
                    /\ overlapped \subseteq overlapped'
           Others == \A q \in Requests \ {r} : /\ pc'[q] = pc[q]
                                               /\ judged'[q] = judged[q]
                                               /\ saved'[q] = saved[q]
                                               /\ draft'[q] = draft[q]
<1>1. Frame
  BY DEF Arrive, Acquire, CheckDuplicate, Judge, Begin, MarkPrevious, Raise, Leave, tables, memory
<1>2. Others
  BY DEF Arrive, Acquire, CheckDuplicate, Judge, Begin, MarkPrevious, Raise, Leave, Move,
     Serial, IInv, TypeOK
<1>3. ~Counted(r) /\ ~Counted(r)'
  BY DEF Arrive, Acquire, CheckDuplicate, Judge, Begin, MarkPrevious, Raise, Leave, Move,
     Serial, IInv, TypeOK, Counted
<1>4. judged'[r] \in {None, judged[r], Verdict(r)}
  BY DEF Arrive, Acquire, CheckDuplicate, Judge, Begin, MarkPrevious, Raise, Leave, Move,
     Serial, IInv, TypeOK
<1>5. pc'[r] \in InTransaction =>
        \/ pc[r] \in InTransaction /\ saved'[r] = saved[r]
        \/ /\ pc[r] \in Holding
           /\ saved'[r].stats = stats[Player(r)]
           /\ saved'[r].plays = plays[Map(r)]
  <2>1. CASE Begin(r)
    BY <2>1 DEF Begin, Move, Serial, IInv, TypeOK, Holding
  <2>2. CASE MarkPrevious(r)
    BY <2>2 DEF MarkPrevious, Move, InTransaction
  <2>3. CASE Arrive(r) \/ Acquire(r) \/ CheckDuplicate(r) \/ Judge(r) \/ Raise(r)
    BY <2>3 DEF Arrive, Acquire, CheckDuplicate, Judge, Raise, Leave, Move, InTransaction,
       Serial, IInv, TypeOK
  <2> QED
    BY <2>1, <2>2, <2>3
<1> QED
  BY <1>1, <1>2, <1>3, <1>4, <1>5, QuietStep

-----------------------------------------------------------------------------
(* The steps that change counters *)

LEMMA SerialInsert ==
    ASSUME Serial, NEW r \in Requests, Insert(r)
    PROVE  (SoundVerdict /\ SerialBestIsHighest /\ StatsSound /\ PlaysSound)'
<1> DEFINE p0 == Player(r)
           new == [plays |-> stats[p0].plays + 1, rscore |-> stats[p0].rscore + Gain(r)]
<1>1. /\ pc[r] \in {"begun", "marked"}
      /\ UNCHANGED <<lock, judged, saved, plays, row, statsRow, playsRow, overlapped>>
      /\ p0 \in Players
  BY SubmissionAssumption DEF Insert, tables, Player
<1>2. /\ \A q \in Requests : pc'[q] = IF q = r THEN "inserted" ELSE pc[q]
      /\ \A q \in Requests \ {r} : draft'[q] = draft[q]
      /\ draft'[r].stats = new
      /\ \A p \in Players : stats'[p] = IF p = p0 THEN new ELSE stats[p]
  BY <1>1 DEF Insert, Serial, IInv, TypeOK
<1> HIDE DEF new
<1>3. p0 \notin overlapped =>
        \A q \in Requests : Player(q) = p0 /\ q # r => pc[q] \notin Holding
  BY <1>1, OnlyOne DEF Holding, InTransaction
<1>4. p0 \notin overlapped =>
        new = [plays |-> statsRow[p0].plays + 1, rscore |-> statsRow[p0].rscore + Gain(r)]
  <2>1. p0 \notin overlapped => \A q \in Requests : Player(q) = p0 => ~Counted(q)
    BY <1>1, <1>3 DEF Counted, Holding, InTransaction
  <2>2. p0 \notin overlapped => stats[p0] = statsRow[p0]
    BY <1>1, <2>1 DEF Serial, StatsSound
  <2> QED
    BY <2>2 DEF new
<1>5. SoundVerdict'
  <2>1. \A q \in Requests : Verdict(q)' = Verdict(q)
    BY <1>1, VerdictStays
  <2> QED
    BY <1>1, <2>1 DEF SoundVerdict, Serial, Player
<1>6. SerialBestIsHighest'
  BY <1>1 DEF SerialBestIsHighest, Serial, Rivals, Player, Map
<1>7. StatsSound'
  <2> SUFFICES ASSUME NEW p \in Players, p \notin overlapped
               PROVE  /\ RowCount(p)'
                      /\ (\A q \in Requests : Player(q) = p => ~Counted(q)') =>
                           stats'[p] = statsRow[p]
                      /\ \A q \in Requests : Player(q) = p /\ pc'[q] \in InTransaction =>
                           saved[q].stats = statsRow[p]
                      /\ \A q \in Requests : Player(q) = p /\ Counted(q)' =>
                           /\ stats'[p] = [plays |-> statsRow[p].plays + 1,
                                           rscore |-> statsRow[p].rscore + Gain(q)']
                           /\ draft'[q].stats = stats'[p]
    BY <1>1 DEF StatsSound, Player
  <2>1. RowCount(p)'
    BY <1>1, CountsStay DEF RowCount, Serial, StatsSound
  <2>2. (\A q \in Requests : Player(q) = p => ~Counted(q)') => stats'[p] = statsRow[p]
    BY <1>1, <1>2 DEF Counted, Serial, StatsSound
  <2>3. \A q \in Requests : Player(q) = p /\ pc'[q] \in InTransaction =>
          saved[q].stats = statsRow[p]
    BY <1>1, <1>2 DEF InTransaction, Serial, StatsSound
  <2>4. ASSUME NEW q \in Requests, Player(q) = p, Counted(q)'
        PROVE  /\ stats'[p] = [plays |-> statsRow[p].plays + 1,
                               rscore |-> statsRow[p].rscore + Gain(q)']
               /\ draft'[q].stats = stats'[p]
    <3>1. Gain(q)' = Gain(q)
      BY <1>1, GainStays
    <3>2. CASE q = r
      BY <3>1, <3>2, <1>1, <1>2, <1>4, <2>4
    <3>3. CASE q # r
      <4>1. Counted(q) /\ p # p0
        BY <2>4, <3>3, <1>2, <1>3 DEF Counted, Holding, InTransaction
      <4> QED
        BY <2>4, <3>1, <3>3, <4>1, <1>2 DEF Serial, StatsSound
    <3> QED
      BY <3>2, <3>3
  <2> QED
    BY <2>1, <2>2, <2>3, <2>4
<1>8. PlaysSound'
  <2> SUFFICES ASSUME NEW m \in Maps, m \notin overlapped
               PROVE  /\ playsRow[m] = Cardinality(RowsOn(m)')
                      /\ (\A q \in Requests : Map(q) = m => pc'[q] # "updated") =>
                           plays[m] = playsRow[m]
                      /\ \A q \in Requests : Map(q) = m /\ pc'[q] \in InTransaction =>
                           saved[q].plays = playsRow[m]
                      /\ \A q \in Requests : Map(q) = m /\ pc'[q] = "updated" =>
                           plays[m] = playsRow[m] + 1 /\ draft'[q].plays = plays[m]
    BY <1>1 DEF PlaysSound, Map
  <2>1. playsRow[m] = Cardinality(RowsOn(m)')
    BY <1>1, CountsStay DEF Serial, PlaysSound
  <2>2. \A q \in Requests : pc'[q] = "updated" <=> pc[q] = "updated"
    BY <1>1, <1>2
  <2>3. \A q \in Requests : pc'[q] \in InTransaction => pc[q] \in InTransaction
    BY <1>1, <1>2 DEF InTransaction
  <2>4. \A q \in Requests : pc'[q] = "updated" => q # r
    BY <1>2
  <2> QED
    BY <1>2, <2>1, <2>2, <2>3, <2>4 DEF Serial, PlaysSound
<1> QED
  BY <1>5, <1>6, <1>7, <1>8

LEMMA SerialUpdate ==
    ASSUME Serial, NEW r \in Requests, UpdateStats(r)
    PROVE  (SoundVerdict /\ SerialBestIsHighest /\ StatsSound /\ PlaysSound)'
<1> DEFINE m0 == Map(r)
           written == [draft[r] EXCEPT !.plays = plays[m0] + 1]
<1>1. /\ pc[r] = "inserted"
      /\ UNCHANGED <<lock, judged, saved, stats, row, statsRow, playsRow, overlapped>>
      /\ m0 \in Maps
  BY SubmissionAssumption DEF UpdateStats, Move, tables, Map
<1>2. draft[r] \in Snapshots
  BY <1>1 DEF Serial, IInv, TypeOK, Prepared
<1>3. written.stats = draft[r].stats /\ written.plays = plays[m0] + 1
  BY <1>2 DEF Snapshots
<1>4. draft' = [draft EXCEPT ![r] = written] /\ plays' = [plays EXCEPT ![m0] = plays[m0] + 1]
  BY DEF UpdateStats
<1> HIDE DEF written, m0
<1>5. /\ \A q \in Requests : pc'[q] = IF q = r THEN "updated" ELSE pc[q]
      /\ \A q \in Requests : draft'[q].stats = draft[q].stats
      /\ \A q \in Requests \ {r} : draft'[q] = draft[q]
      /\ draft'[r].plays = plays[m0] + 1
      /\ \A m \in Maps : plays'[m] = IF m = m0 THEN plays[m0] + 1 ELSE plays[m]
  BY <1>1, <1>3, <1>4 DEF UpdateStats, Move, Serial, IInv, TypeOK
<1>6. m0 \notin overlapped =>
        \A q \in Requests : Map(q) = m0 /\ q # r => pc[q] \notin Holding
  BY <1>1, OnlyOne DEF Holding, InTransaction, m0
<1>7. m0 \notin overlapped => plays[m0] = playsRow[m0]
  <2>1. m0 \notin overlapped => \A q \in Requests : Map(q) = m0 => pc[q] # "updated"
    BY <1>1, <1>6 DEF Holding, InTransaction
  <2> QED
    BY <1>1, <2>1 DEF Serial, PlaysSound
<1>8. SoundVerdict'
  <2>1. \A q \in Requests : Verdict(q)' = Verdict(q)
    BY <1>1, VerdictStays
  <2> QED
    BY <1>1, <2>1 DEF SoundVerdict, Serial, Player
<1>9. SerialBestIsHighest'
  BY <1>1 DEF SerialBestIsHighest, Serial, Rivals, Player, Map
<1>10. StatsSound'
  <2>1. \A p \in Players : RowCount(p) => RowCount(p)'
    BY <1>1, CountsStay DEF RowCount
  <2>2. \A q \in Requests : Counted(q)' <=> Counted(q)
    BY <1>1, <1>5 DEF Counted
  <2>3. \A q \in Requests : pc'[q] \in InTransaction => pc[q] \in InTransaction
    BY <1>1, <1>5 DEF InTransaction
  <2>4. \A q \in Requests : Gain(q)' = Gain(q)
    BY <1>1, GainStays
  <2>5. \A q \in Requests : Player(q)' = Player(q)
    BY DEF Player
  <2> QED
    BY <1>1, <1>5, <2>1, <2>2, <2>3, <2>4, <2>5 DEF Serial, StatsSound
<1>11. PlaysSound'
  <2> SUFFICES ASSUME NEW m \in Maps, m \notin overlapped
               PROVE  /\ playsRow[m] = Cardinality(RowsOn(m)')
                      /\ (\A q \in Requests : Map(q) = m => pc'[q] # "updated") =>
                           plays'[m] = playsRow[m]
                      /\ \A q \in Requests : Map(q) = m /\ pc'[q] \in InTransaction =>
                           saved[q].plays = playsRow[m]
                      /\ \A q \in Requests : Map(q) = m /\ pc'[q] = "updated" =>
                           plays'[m] = playsRow[m] + 1 /\ draft'[q].plays = plays'[m]
    BY <1>1 DEF PlaysSound, Map
  <2>1. playsRow[m] = Cardinality(RowsOn(m)')
    BY <1>1, CountsStay DEF Serial, PlaysSound
  <2>2. (\A q \in Requests : Map(q) = m => pc'[q] # "updated") => plays'[m] = playsRow[m]
    <3>1. (\A q \in Requests : Map(q) = m => pc'[q] # "updated") =>
            m # m0 /\ \A q \in Requests : Map(q) = m => pc[q] # "updated"
      BY <1>1, <1>5 DEF m0
    <3> QED
      BY <3>1, <1>5 DEF Serial, PlaysSound
  <2>3. \A q \in Requests : Map(q) = m /\ pc'[q] \in InTransaction =>
          saved[q].plays = playsRow[m]
    BY <1>1, <1>5 DEF InTransaction, Serial, PlaysSound
  <2>4. ASSUME NEW q \in Requests, Map(q) = m, pc'[q] = "updated"
        PROVE  plays'[m] = playsRow[m] + 1 /\ draft'[q].plays = plays'[m]
    <3>1. CASE q = r
      BY <3>1, <2>4, <1>5, <1>7 DEF m0
    <3>2. CASE q # r
      <4>1. pc[q] = "updated" /\ m # m0
        BY <3>2, <2>4, <1>5, <1>6 DEF Holding, InTransaction
      <4> QED
        BY <3>2, <4>1, <2>4, <1>5 DEF Serial, PlaysSound
    <3> QED
      BY <3>1, <3>2
  <2> QED
    BY <2>1, <2>2, <2>3, <2>4
<1> QED
  BY <1>8, <1>9, <1>10, <1>11

\* A failed transaction: the counters are what they were when it began.
LEMMA SerialRollBack ==
    ASSUME Serial, NEW r \in Requests, RollBack(r)
    PROVE  (SoundVerdict /\ SerialBestIsHighest /\ StatsSound /\ PlaysSound)'
<1>1. /\ pc[r] \in InTransaction /\ pc[r] \in Holding
      /\ UNCHANGED <<row, statsRow, playsRow, overlapped>>
      /\ Player(r) \in Players /\ Map(r) \in Maps
  BY SubmissionAssumption DEF RollBack, Leave, tables, Player, Map, Holding
<1>2. /\ \A q \in Requests : pc'[q] = IF q = r THEN "failed" ELSE pc[q]
      /\ \A q \in Requests : judged'[q] = IF q = r THEN None ELSE judged[q]
      /\ \A q \in Requests \ {r} : saved'[q] = saved[q] /\ draft'[q] = draft[q]
      /\ \A p \in Players : stats'[p] = IF p = Player(r) THEN saved[r].stats ELSE stats[p]
      /\ \A m \in Maps : plays'[m] = IF m = Map(r) THEN saved[r].plays ELSE plays[m]
  BY DEF RollBack, Leave, Serial, IInv, TypeOK
<1>3. /\ Player(r) \notin overlapped =>
           \A q \in Requests : Player(q) = Player(r) /\ q # r => pc[q] \notin Holding
      /\ Map(r) \notin overlapped =>
           \A q \in Requests : Map(q) = Map(r) /\ q # r => pc[q] \notin Holding
  BY <1>1, OnlyOne
<1>4. SoundVerdict'
  <2>1. \A q \in Requests : Verdict(q)' = Verdict(q)
    BY <1>1, VerdictStays
  <2> QED
    BY <1>1, <1>2, <2>1 DEF SoundVerdict, Serial, Player
<1>5. SerialBestIsHighest'
  BY <1>1 DEF SerialBestIsHighest, Serial, Rivals, Player, Map
<1>6. StatsSound'
  <2> SUFFICES ASSUME NEW p \in Players, p \notin overlapped
               PROVE  /\ RowCount(p)'
                      /\ (\A q \in Requests : Player(q) = p => ~Counted(q)') =>
                           stats'[p] = statsRow[p]
                      /\ \A q \in Requests : Player(q) = p /\ pc'[q] \in InTransaction =>
                           saved'[q].stats = statsRow[p]
                      /\ \A q \in Requests : Player(q) = p /\ Counted(q)' =>
                           /\ stats'[p] = [plays |-> statsRow[p].plays + 1,
                                           rscore |-> statsRow[p].rscore + Gain(q)']
                           /\ draft'[q].stats = stats'[p]
    BY <1>1 DEF StatsSound, Player
  <2>1. RowCount(p)'
    BY <1>1, CountsStay DEF RowCount, Serial, StatsSound
  <2>2. \A q \in Requests : pc'[q] \in InTransaction => q # r /\ pc'[q] = pc[q]
    BY <1>2 DEF InTransaction
  <2>3. \A q \in Requests : q # r => (Counted(q)' <=> Counted(q))
    BY <1>2 DEF Counted
  <2>4. \A q \in Requests : q # r => Gain(q)' = Gain(q)
    BY <1>2, GainStays
  <2>5. CASE p = Player(r)
    <3>1. stats'[p] = statsRow[p]
      BY <1>1, <1>2, <2>5 DEF Serial, StatsSound
    <3>2. \A q \in Requests : Player(q) = p => pc'[q] \notin InTransaction
      BY <1>2, <1>3, <2>2, <2>5 DEF Holding
    <3> QED
      BY <2>1, <3>1, <3>2 DEF Counted, InTransaction
  <2>6. CASE p # Player(r)
    <3>1. stats'[p] = stats[p] /\ \A q \in Requests : Player(q) = p => q # r
      BY <1>2, <2>6
    <3> QED
      BY <1>2, <2>1, <2>2, <2>3, <2>4, <3>1 DEF Serial, StatsSound
  <2> QED
    BY <2>5, <2>6
<1>7. PlaysSound'
  <2> SUFFICES ASSUME NEW m \in Maps, m \notin overlapped
               PROVE  /\ playsRow[m] = Cardinality(RowsOn(m)')
                      /\ (\A q \in Requests : Map(q) = m => pc'[q] # "updated") =>
                           plays'[m] = playsRow[m]
                      /\ \A q \in Requests : Map(q) = m /\ pc'[q] \in InTransaction =>
                           saved'[q].plays = playsRow[m]
                      /\ \A q \in Requests : Map(q) = m /\ pc'[q] = "updated" =>
                           plays'[m] = playsRow[m] + 1 /\ draft'[q].plays = plays'[m]
    BY <1>1 DEF PlaysSound, Map
  <2>1. playsRow[m] = Cardinality(RowsOn(m)')
    BY <1>1, CountsStay DEF Serial, PlaysSound
  <2>2. \A q \in Requests : pc'[q] \in InTransaction => q # r /\ pc'[q] = pc[q]
    BY <1>2 DEF InTransaction
  <2>3. CASE m = Map(r)
    <3>1. plays'[m] = playsRow[m]
      BY <1>1, <1>2, <2>3 DEF Serial, PlaysSound
    <3>2. \A q \in Requests : Map(q) = m => pc'[q] \notin InTransaction
      BY <1>2, <1>3, <2>2, <2>3 DEF Holding
    <3> QED
      BY <2>1, <3>1, <3>2 DEF InTransaction
  <2>4. CASE m # Map(r)
    <3>1. plays'[m] = plays[m] /\ \A q \in Requests : Map(q) = m => q # r
      BY <1>2, <2>4
    <3> QED
      BY <1>2, <2>1, <2>2, <3>1 DEF Serial, PlaysSound
  <2> QED
    BY <2>3, <2>4
<1> QED
  BY <1>4, <1>5, <1>6, <1>7

\* The counters in memory are read again from the tables.
LEMMA SerialRestart ==
    ASSUME Serial, Restart
    PROVE  (SoundVerdict /\ SerialBestIsHighest /\ StatsSound /\ PlaysSound)'
<1>1. /\ UNCHANGED <<row, statsRow, playsRow, overlapped>>
      /\ stats' = statsRow /\ plays' = playsRow
      /\ \A q \in Requests : pc'[q] \notin InTransaction /\ judged'[q] = None
  BY DEF Restart, tables, Holding, InTransaction
<1>2. \A q \in Requests : ~Counted(q)' /\ pc'[q] # "updated"
  BY <1>1 DEF Counted, InTransaction
<1>3. SoundVerdict' /\ SerialBestIsHighest'
  BY <1>1 DEF SoundVerdict, SerialBestIsHighest, Serial, Rivals, Player, Map
<1>4. \A p \in Players \ overlapped : RowCount(p)'
  BY <1>1, CountsStay DEF RowCount, Serial, StatsSound
<1>5. \A m \in Maps \ overlapped : playsRow'[m] = Cardinality(RowsOn(m)')
  BY <1>1, CountsStay DEF Serial, PlaysSound
<1>6. StatsSound'
  BY <1>1, <1>2, <1>4 DEF StatsSound
<1>7. PlaysSound'
  BY <1>1, <1>2, <1>5 DEF PlaysSound
<1> QED
  BY <1>3, <1>6, <1>7

-----------------------------------------------------------------------------
(* The commit of a submission that overlapped no other one of its player *)

\* One more request adds its points.
LEMMA WorthAdds ==
    ASSUME NEW S \in SUBSET Requests, NEW r \in Requests \ S
    PROVE  Worth(S) \in Nat /\ Worth(S \cup {r}) = Worth(S) + Points[PlayOf[r]]
<1> DEFINE T == {PointsOf(q) : q \in S}
           n == Points[PlayOf[r]]
<1>1. n \in Nat /\ \A q \in Requests : Points[PlayOf[q]] \in Nat
  BY SubmissionAssumption
<1>2. \A q \in Requests :
        IsFiniteSet(PointsOf(q)) /\ Cardinality(PointsOf(q)) = Points[PlayOf[q]]
  <2> SUFFICES ASSUME NEW q \in Requests
               PROVE  IsFiniteSet(PointsOf(q)) /\ Cardinality(PointsOf(q)) = Points[PlayOf[q]]
    OBVIOUS
  <2> DEFINE k == Points[PlayOf[q]]
  <2>1. k \in Nat
    BY <1>1
  <2> HIDE DEF k
  <2>2. IsFiniteSet(1 .. k) /\ Cardinality(1 .. k) = k
    BY <2>1, FS_Interval
  <2>3. IsFiniteSet({q}) /\ Cardinality({q}) = 1
    BY FS_Singleton
  <2>4. IsFiniteSet({q} \X (1 .. k)) /\ Cardinality({q} \X (1 .. k)) = 1 * k
    BY <2>2, <2>3, FS_Product
  <2> QED
    BY <2>1, <2>4 DEF PointsOf, k
<1>3. IsFiniteSet(UNION T)
  <2>1. IsFiniteSet(S)
    BY SubmissionAssumption, FS_Subset
  <2> DEFINE f == [q \in S |-> PointsOf(q)]
  <2>2. f \in Surjection(S, T)
    BY DEF Surjection
  <2> HIDE DEF f
  <2>3. IsFiniteSet(T)
    <3> HIDE DEF T
    <3> QED
      BY <2>1, <2>2, FS_Surjection
  <2>4. \A t \in T : IsFiniteSet(t)
    BY <1>2
  <2> HIDE DEF T
  <2> QED
    BY <2>3, <2>4, FS_UNION
<1>4. UNION {PointsOf(q) : q \in S \cup {r}} = (UNION T) \cup PointsOf(r)
  OBVIOUS
<1>5. (UNION T) \cap PointsOf(r) = {}
  BY DEF PointsOf
<1>6. Cardinality(UNION T) \in Nat
  BY <1>3, FS_CardinalityType
<1> HIDE DEF T
<1>7. Cardinality((UNION T) \cup PointsOf(r))
        = Cardinality(UNION T) + Cardinality(PointsOf(r)) - Cardinality((UNION T) \cap PointsOf(r))
  BY <1>2, <1>3, FS_Union
<1>8. Cardinality((UNION T) \cap PointsOf(r)) = 0
  BY <1>5, FS_EmptySet
<1>9. Cardinality(PointsOf(r)) = n
  BY <1>2
<1> HIDE DEF n
<1>10. Cardinality((UNION T) \cup PointsOf(r)) = Cardinality(UNION T) + n
  BY <1>1, <1>6, <1>7, <1>8, <1>9
<1> QED
  BY <1>4, <1>6, <1>10 DEF Worth, T, n

\* Verdicts that are still current say which row is demoted, and what is gained.
LEMMA CurrentVerdict ==
    ASSUME Serial, NEW r \in Requests, judged[r] = Verdict(r), judged[r] # None
    PROVE  /\ judged[r].status = "best" /\ judged[r].prev = None => BestRow(r) = {}
           /\ judged[r].status = "best" /\ judged[r].prev # None =>
                /\ BestRow(r) = {judged[r].prev}
                /\ Pp[PlayOf[r]] > Pp[PlayOf[judged[r].prev]]
           /\ judged[r].status = "submitted" =>
                \E q \in BestRow(r) : Pp[PlayOf[r]] <= Pp[PlayOf[q]]
<1>1. \A q \in BestRow(r) : BestRow(r) = {q}
  <2> SUFFICES ASSUME NEW q \in BestRow(r), NEW x \in BestRow(r), x # q PROVE FALSE
    OBVIOUS
  <2>1. q \in Requests /\ x \in Requests /\ row[q] = "best" /\ row[x] = "best" /\ q \in Rivals(x)
    BY DEF BestRow, Rivals
  <2> QED
    BY <2>1 DEF Serial, IInv, OneBestRow
<1>2. \A q \in Requests : Pp[PlayOf[q]] \in Nat /\ q # None
  BY SubmissionAssumption
<1>3. CASE PlayOf[r] \notin Passed
  BY <1>3 DEF Verdict
<1>4. CASE PlayOf[r] \in Passed /\ BestRow(r) = {}
  BY <1>4 DEF Verdict
<1>5. CASE PlayOf[r] \in Passed /\ BestRow(r) # {}
  <2> DEFINE prev == CHOOSE q \in BestRow(r) : TRUE
  <2>1. prev \in BestRow(r) /\ prev \in Requests
    BY <1>5 DEF BestRow, Rivals
  <2>2. judged[r] = [status |-> IF Pp[PlayOf[r]] > Pp[PlayOf[prev]] THEN "best" ELSE "submitted",
                     prev |-> prev]
    BY <1>5 DEF Verdict
  <2> HIDE DEF prev
  <2>3. judged[r].prev = prev
        /\ (judged[r].status = "best" <=> Pp[PlayOf[r]] > Pp[PlayOf[prev]])
    BY <2>2
  <2> QED
    BY <1>1, <1>2, <2>1, <2>3
<1> QED
  BY <1>3, <1>4, <1>5

\* The rows of the player after the commit: one more, and if it is the best one
\* it takes the place of the best one before it.
LEMMA CommitCounts ==
    ASSUME Serial, NEW r \in Requests, Commit(r), Player(r) \notin overlapped
    PROVE  /\ Cardinality(RowsOf(Player(r))') = Cardinality(RowsOf(Player(r))) + 1
           /\ Ranked(Player(r))' = Ranked(Player(r)) + Gain(r)
<1> DEFINE p == Player(r)
           S == {q \in RowsOf(p) : row[q] = "best"}
           n == Points[PlayOf[r]]
<1>1. /\ judged[r] # None /\ judged[r].status \in Statuses
      /\ row[r] = None
      /\ \A q \in Requests :
           row'[q] = IF q = r THEN judged[r].status
                     ELSE IF judged[r].status = "best" /\ q \in Rivals(r) /\ row[q] = "best"
                          THEN "submitted" ELSE row[q]
  BY CommitRows DEF Serial
<1>2. judged[r].status # None /\ "submitted" # None
  BY <1>1, SubmissionAssumption DEF Statuses
<1>3. RowsOf(p)' = RowsOf(p) \cup {r} /\ r \notin RowsOf(p)
  BY <1>1, <1>2 DEF RowsOf, Player
<1>4. Cardinality(RowsOf(p)') = Cardinality(RowsOf(p)) + 1
  <2>1. IsFiniteSet(RowsOf(p))
    BY SubmissionAssumption, FS_Subset DEF RowsOf
  <2> QED
    BY <1>3, <2>1, FS_AddElement
<1>5. S \subseteq Requests /\ r \notin S /\ BestRow(r) \subseteq S
  BY <1>1, <1>2, SubmissionAssumption DEF RowsOf, BestRow, Rivals, Statuses
<1>6. Ranked(p)' = Worth({q \in RowsOf(p) : row[q] = "best"}')
  BY DEF Ranked, Worth, PointsOf
<1>7. judged[r] = Verdict(r)
  BY <1>1 DEF Serial, SoundVerdict
<1>8. CASE judged[r].status # "best"
  <2>1. {q \in RowsOf(p) : row[q] = "best"}' = S
    <3>1. \A q \in RowsOf(p) \cup {r} : row'[q] = "best" <=> q # r /\ row[q] = "best"
      BY <1>1, <1>8 DEF RowsOf
    <3>2. {q \in RowsOf(p) : row[q] = "best"}' = {q \in RowsOf(p) \cup {r} : row'[q] = "best"}
      BY <1>3
    <3> HIDE DEF p
    <3> QED
      BY <1>3, <3>1, <3>2
  <2>2. Gain(r) = 0
    BY <1>8 DEF Gain, IsBest
  <2>3. Worth(S) \in Nat
    BY <1>5, WorthAdds
  <2>4. Ranked(p) = Worth(S)
    BY DEF Ranked
  <2>5. Ranked(p)' = Ranked(p)
    BY <1>6, <2>1, <2>4
  <2>6. Ranked(p) \in Nat
    BY <2>3, <2>4
  <2> HIDE DEF S, p
  <2>7. Ranked(p)' = Ranked(p) + Gain(r)
    BY <2>2, <2>5, <2>6
  <2> QED
    BY <1>4, <2>7 DEF p
<1>9. CASE judged[r].status = "best"
  <2>1. {q \in RowsOf(p) : row[q] = "best"}' = (S \ BestRow(r)) \cup {r}
    <3>1. \A q \in Requests : q \in BestRow(r) <=> q \in Rivals(r) /\ row[q] = "best"
      BY DEF BestRow, Rivals
    <3>2. \A q \in RowsOf(p) \cup {r} :
            row'[q] = "best" <=> q = r \/ (row[q] = "best" /\ q \notin BestRow(r))
      BY <1>1, <1>9, <3>1 DEF RowsOf
    <3>3. {q \in RowsOf(p) : row[q] = "best"}' = {q \in RowsOf(p) \cup {r} : row'[q] = "best"}
      BY <1>3
    <3> HIDE DEF p
    <3> QED
      BY <1>3, <3>2, <3>3
  <2>2. Worth((S \ BestRow(r)) \cup {r}) = Worth(S \ BestRow(r)) + n
    <3>1. r \notin S \ BestRow(r) /\ S \ BestRow(r) \in SUBSET Requests
      BY <1>5
    <3> HIDE DEF S
    <3> QED
      BY <3>1, WorthAdds
  <2>3. Ranked(p) = Worth(S)
    BY DEF Ranked
  <2>4. IsBest(r)
    BY <1>1, <1>9 DEF IsBest
  <2>5. n \in Nat
    BY SubmissionAssumption
  <2>6. CASE judged[r].prev = None
    <3>1. BestRow(r) = {}
      BY <1>1, <1>7, <1>9, <2>6, CurrentVerdict
    <3>2. S \ BestRow(r) = S
      BY <3>1
    <3>3. Gain(r) = n
      BY <2>4, <2>5, <2>6 DEF Gain
    <3> HIDE DEF S, n
    <3> QED
      BY <1>4, <1>6, <2>1, <2>2, <2>3, <3>2, <3>3
  <2>7. CASE judged[r].prev # None
    <3> DEFINE b == judged[r].prev
    <3>1. BestRow(r) = {b}
      BY <1>1, <1>7, <1>9, <2>7, CurrentVerdict
    <3>2. b \in S /\ b \in Requests
      BY <1>5, <3>1
    <3>3. Points[PlayOf[b]] \in Nat
      BY <3>2, SubmissionAssumption
    <3>4. Gain(r) = n - Points[PlayOf[b]]
      BY <2>4, <2>7 DEF Gain
    <3> HIDE DEF S, n, b
    <3>5. S \ BestRow(r) \in SUBSET Requests /\ b \notin S \ BestRow(r)
          /\ (S \ BestRow(r)) \cup {b} = S
      BY <1>5, <3>1, <3>2
    <3>6. Worth(S \ BestRow(r)) \in Nat /\ Worth(S) = Worth(S \ BestRow(r)) + Points[PlayOf[b]]
      BY <3>2, <3>5, WorthAdds
    <3>7. Ranked(p)' = Worth(S \ BestRow(r)) + n
      BY <1>6, <2>1, <2>2
    <3> HIDE DEF p
    <3>8. Ranked(p)' = Ranked(p) + Gain(r)
      BY <2>3, <2>5, <3>3, <3>4, <3>6, <3>7
    <3> QED
      BY <1>4, <3>8 DEF p
  <2> QED
    BY <2>6, <2>7
<1> QED
  BY <1>8, <1>9

LEMMA SerialCommit ==
    ASSUME Serial, NEW r \in Requests, Commit(r)
    PROVE  (SoundVerdict /\ SerialBestIsHighest /\ StatsSound /\ PlaysSound)'
<1> DEFINE p0 == Player(r)
           m0 == Map(r)
           s == judged[r].status
<1>1. /\ judged[r] # None /\ s \in Statuses
      /\ row[r] = None
      /\ \A q \in Requests :
           row'[q] = IF q = r THEN s
                     ELSE IF s = "best" /\ q \in Rivals(r) /\ row[q] = "best"
                          THEN "submitted" ELSE row[q]
  BY CommitRows DEF Serial
<1>2. /\ pc[r] = "updated" /\ pc[r] \in Holding /\ pc[r] \in InTransaction /\ Counted(r)
      /\ UNCHANGED <<stats, plays, overlapped>>
      /\ p0 \in Players /\ m0 \in Maps
  BY SubmissionAssumption DEF Commit, Leave, memory, Player, Map, Holding, InTransaction, Counted
<1>3. /\ \A q \in Requests : pc'[q] = IF q = r THEN "done" ELSE pc[q]
      /\ \A q \in Requests : judged'[q] = IF q = r THEN None ELSE judged[q]
      /\ \A q \in Requests \ {r} : saved'[q] = saved[q] /\ draft'[q] = draft[q]
      /\ \A p \in Players : statsRow'[p] = IF p = p0 THEN draft[r].stats ELSE statsRow[p]
      /\ \A m \in Maps : playsRow'[m] = IF m = m0 THEN draft[r].plays ELSE playsRow[m]
  BY <1>2 DEF Commit, Leave, Serial, IInv, TypeOK
<1>4. /\ p0 \notin overlapped =>
           \A q \in Requests : Player(q) = p0 /\ q # r => pc[q] \notin Holding
      /\ m0 \notin overlapped =>
           \A q \in Requests : Map(q) = m0 /\ q # r => pc[q] \notin Holding
  BY <1>2, OnlyOne
<1>5. \A q \in Requests : Player(q) # p0 => row'[q] = row[q]
  BY <1>1 DEF Rivals
<1>6. /\ s # None
      /\ \A q \in Requests : Map(q) # m0 => (row'[q] = None <=> row[q] = None)
      /\ \A q \in Requests : q # r => (row'[q] = None <=> row[q] = None)
  BY <1>1, SubmissionAssumption DEF Statuses
<1>7. SoundVerdict'
  <2> SUFFICES ASSUME NEW q \in Requests, judged'[q] # None, Player(q) \notin overlapped
               PROVE  judged'[q] = Verdict(q)'
    BY <1>2 DEF SoundVerdict, Player
  <2>1. q # r /\ judged[q] # None
    BY <1>3
  <2>2. pc[q] \in Holding
    BY <2>1 DEF Serial, IInv, Prepared, Holding
  <2>3. Player(q) # p0
    BY <1>4, <2>1, <2>2
  <2>4. Verdict(q)' = Verdict(q)
    BY <1>5, <2>3, VerdictStays
  <2> QED
    BY <1>3, <2>1, <2>4 DEF Serial, SoundVerdict
<1>8. SerialBestIsHighest'
  <2> SUFFICES ASSUME NEW x \in Requests, NEW q \in Rivals(x), Player(x) \notin overlapped,
                      row'[x] = "best", row'[q] = "submitted"
               PROVE  Pp[PlayOf[q]] <= Pp[PlayOf[x]]
    BY <1>2 DEF SerialBestIsHighest, Rivals, Player, Map
  <2>1. /\ q \in Requests /\ q # x /\ Player(q) = Player(x) /\ Map(q) = Map(x)
        /\ Pp[PlayOf[q]] \in Nat /\ Pp[PlayOf[x]] \in Nat /\ Pp[PlayOf[r]] \in Nat
    BY SubmissionAssumption DEF Rivals
  <2>2. Player(x) = p0 => judged[r] = Verdict(r)
    BY <1>1, <1>2 DEF Serial, SoundVerdict
  <2>3. ASSUME NEW y \in Requests, NEW z \in Rivals(y), Player(y) \notin overlapped,
               row[y] = "best", row[z] = "submitted"
        PROVE  Pp[PlayOf[z]] <= Pp[PlayOf[y]]
    BY <2>3 DEF Serial, SerialBestIsHighest
  <2>4. CASE x = r
    <3>1. s = "best" /\ q \in Rivals(r)
      BY <1>1, <2>4
    <3>2. CASE row[q] = "best"
      <4>1. q \in BestRow(r)
        BY <3>1, <3>2 DEF BestRow
      <4>2. judged[r].prev # None /\ q = judged[r].prev /\ Pp[PlayOf[r]] > Pp[PlayOf[q]]
        BY <1>1, <2>2, <2>4, <3>1, <4>1, CurrentVerdict
      <4> QED
        BY <2>1, <2>4, <4>2
    <3>3. CASE row[q] = "submitted"
      <4>1. PICK b \in Rivals(q) : row[b] = "best"
        BY <2>1, <3>3 DEF Serial, IInv, BehindABest
      <4>2. b \in Requests /\ b # r
        BY <1>1, <4>1, SubmissionAssumption DEF Rivals, Statuses
      <4>3. b \in Rivals(r) /\ q \in Rivals(b) /\ Player(b) = Player(x)
        BY <2>1, <2>4, <4>1, <4>2 DEF Rivals
      <4>4. b \in BestRow(r)
        BY <4>1, <4>3 DEF BestRow
      <4>5. judged[r].prev # None /\ b = judged[r].prev /\ Pp[PlayOf[r]] > Pp[PlayOf[b]]
        BY <1>1, <2>2, <2>4, <3>1, <4>4, CurrentVerdict
      <4>6. Pp[PlayOf[q]] <= Pp[PlayOf[b]]
        BY <2>3, <3>3, <4>1, <4>2, <4>3
      <4>7. Pp[PlayOf[b]] \in Nat
        BY <4>2, SubmissionAssumption
      <4> QED
        BY <2>1, <2>4, <4>5, <4>6, <4>7
    <3>4. row[q] \in {"best", "submitted"}
      BY <1>1, <2>1, <2>4
    <3> QED
      BY <3>2, <3>3, <3>4
  <2>5. CASE x # r
    <3>1. row[x] = "best" /\ ~(s = "best" /\ x \in Rivals(r))
      BY <1>1, <2>5
    <3>2. CASE q = r
      <4>1. s = "submitted" /\ x \in BestRow(r) /\ Player(x) = p0
        BY <1>1, <2>1, <3>1, <3>2 DEF BestRow, Rivals
      <4>2. PICK b \in BestRow(r) : Pp[PlayOf[r]] <= Pp[PlayOf[b]]
        BY <1>1, <2>2, <4>1, CurrentVerdict
      <4>3. b = x
        BY <4>1 DEF BestRow, Rivals, Serial, IInv, OneBestRow
      <4> QED
        BY <3>2, <4>2, <4>3
    <3>3. CASE q # r
      <4>1. row[q] = "submitted" \/ (s = "best" /\ q \in Rivals(r) /\ row[q] = "best")
        BY <1>1, <2>1, <3>3
      <4>2. ~(s = "best" /\ q \in Rivals(r))
        BY <2>1, <2>5, <3>1 DEF Rivals
      <4> QED
        BY <2>3, <3>1, <4>1, <4>2
    <3> QED
      BY <3>2, <3>3
  <2> QED
    BY <2>4, <2>5
<1>9. StatsSound'
  <2> SUFFICES ASSUME NEW p \in Players, p \notin overlapped
               PROVE  /\ RowCount(p)'
                      /\ (\A q \in Requests : Player(q) = p => ~Counted(q)') =>
                           stats[p] = statsRow'[p]
                      /\ \A q \in Requests : Player(q) = p /\ pc'[q] \in InTransaction =>
                           saved'[q].stats = statsRow'[p]
                      /\ \A q \in Requests : Player(q) = p /\ Counted(q)' =>
                           /\ stats[p] = [plays |-> statsRow'[p].plays + 1,
                                          rscore |-> statsRow'[p].rscore + Gain(q)']
                           /\ draft'[q].stats = stats[p]
    BY <1>2 DEF StatsSound, Player
  <2>1. \A q \in Requests : pc'[q] \in InTransaction => q # r /\ pc'[q] = pc[q]
    BY <1>3 DEF InTransaction
  <2>2. \A q \in Requests : q # r => (Counted(q)' <=> Counted(q))
    BY <1>3 DEF Counted
  <2>3. CASE p = p0
    <3>1. /\ stats[p] = [plays |-> statsRow[p].plays + 1, rscore |-> statsRow[p].rscore + Gain(r)]
          /\ draft[r].stats = stats[p]
      BY <1>2, <2>3 DEF Serial, StatsSound
    <3>2. statsRow'[p] = stats[p]
      BY <1>3, <2>3, <3>1
    <3>3. RowCount(p)
      BY DEF Serial, StatsSound
    <3>4. /\ Cardinality(RowsOf(p)') = Cardinality(RowsOf(p)) + 1
          /\ Ranked(p)' = Ranked(p) + Gain(r)
      BY <2>3, CommitCounts
    <3>5. RowCount(p)'
      <4>1. statsRow'[p].plays = statsRow[p].plays + 1
            /\ statsRow'[p].rscore = statsRow[p].rscore + Gain(r)
        BY <3>1, <3>2
      <4> QED
        BY <3>3, <3>4, <4>1 DEF RowCount
    <3>6. \A q \in Requests : Player(q) = p => pc'[q] \notin InTransaction
      BY <1>4, <2>1, <2>3 DEF Holding
    <3> QED
      BY <3>2, <3>5, <3>6 DEF Counted, InTransaction
  <2>4. CASE p # p0
    <3>1. RowCount(p)'
      <4>1. RowsOf(p)' = RowsOf(p) /\ Ranked(p)' = Ranked(p) /\ statsRow'[p] = statsRow[p]
        BY <1>3, <1>5, <2>4, CountsStay
      <4> QED
        BY <4>1 DEF RowCount, Serial, StatsSound
    <3>2. statsRow'[p] = statsRow[p] /\ \A q \in Requests : Player(q) = p => q # r
      BY <1>3, <2>4
    <3>3. \A q \in Requests : q # r => Gain(q)' = Gain(q)
      BY <1>3, GainStays
    <3> QED
      BY <1>3, <2>1, <2>2, <3>1, <3>2, <3>3 DEF Serial, StatsSound
  <2> QED
    BY <2>3, <2>4
<1>10. PlaysSound'
  <2> SUFFICES ASSUME NEW m \in Maps, m \notin overlapped
               PROVE  /\ playsRow'[m] = Cardinality(RowsOn(m)')
                      /\ (\A q \in Requests : Map(q) = m => pc'[q] # "updated") =>
                           plays[m] = playsRow'[m]
                      /\ \A q \in Requests : Map(q) = m /\ pc'[q] \in InTransaction =>
                           saved'[q].plays = playsRow'[m]
                      /\ \A q \in Requests : Map(q) = m /\ pc'[q] = "updated" =>
                           plays[m] = playsRow'[m] + 1 /\ draft'[q].plays = plays[m]
    BY <1>2 DEF PlaysSound, Map
  <2>1. \A q \in Requests : pc'[q] \in InTransaction => q # r /\ pc'[q] = pc[q]
    BY <1>3 DEF InTransaction
  <2>2. CASE m = m0
    <3>1. plays[m] = playsRow[m] + 1 /\ draft[r].plays = plays[m]
      BY <1>2, <2>2 DEF Serial, PlaysSound
    <3>2. playsRow'[m] = plays[m]
      BY <1>3, <2>2, <3>1
    <3>3. RowsOn(m)' = RowsOn(m) \cup {r} /\ r \notin RowsOn(m)
      BY <1>1, <1>6, <2>2 DEF RowsOn, Map
    <3>4. Cardinality(RowsOn(m)') = Cardinality(RowsOn(m)) + 1
      <4>1. IsFiniteSet(RowsOn(m))
        BY SubmissionAssumption, FS_Subset DEF RowsOn
      <4> QED
        BY <3>3, <4>1, FS_AddElement
    <3>5. playsRow'[m] = Cardinality(RowsOn(m)')
      BY <3>1, <3>2, <3>4 DEF Serial, PlaysSound
    <3>6. \A q \in Requests : Map(q) = m => pc'[q] \notin InTransaction
      BY <1>4, <2>1, <2>2 DEF Holding
    <3> QED
      BY <3>2, <3>5, <3>6 DEF InTransaction
  <2>3. CASE m # m0
    <3>1. RowsOn(m)' = RowsOn(m) /\ playsRow'[m] = playsRow[m]
      BY <1>3, <1>6, <2>3, CountsStay
    <3>2. \A q \in Requests : Map(q) = m => q # r
      BY <2>3
    <3> QED
      BY <1>3, <2>1, <3>1, <3>2 DEF Serial, PlaysSound
  <2> QED
    BY <2>2, <2>3
<1> QED
  BY <1>7, <1>8, <1>9, <1>10

LEMMA SerialStep == Serial /\ [Next]_vars => Serial'
<1> SUFFICES ASSUME Serial, [Next]_vars PROVE Serial'
  OBVIOUS
<1>1. IInv'
  BY StepIInv DEF Serial
<1>2. CASE UNCHANGED vars
  <2>1. (SoundVerdict /\ SerialBestIsHighest)'
    BY <1>2 DEF vars, Serial, SoundVerdict, SerialBestIsHighest, Verdict, BestRow, Rivals,
       Player, Map
  <2>2. Alone' /\ PlaysSound'
    BY <1>2 DEF vars, Serial, Alone, PlaysSound, RowsOn, Player, Map
  <2>3. StatsSound'
    <3>1. \A p \in Players : RowCount(p)' <=> RowCount(p)
      BY <1>2, CountsStay DEF vars, RowCount
    <3>2. \A q \in Requests : Gain(q)' = Gain(q)
      BY <1>2, GainStays DEF vars
    <3> QED
      BY <1>2, <3>1, <3>2 DEF vars, Serial, StatsSound, Counted, Player
  <2> QED
    BY <1>1, <2>1, <2>2, <2>3 DEF Serial
<1>3. CASE Next
  <2>1. Alone'
    BY <1>3, AloneStep DEF Serial
  <2>2. (SoundVerdict /\ SerialBestIsHighest /\ StatsSound /\ PlaysSound)'
    BY <1>3, QuietSteps, SerialInsert, SerialUpdate, SerialCommit, SerialRollBack, SerialRestart
    DEF Next, Proceed, Deadlocked
  <2> QED
    BY <1>1, <2>1, <2>2 DEF Serial
<1> QED
  BY <1>2, <1>3

\* What one player's submissions one at a time keep: the verdict of the open one, the
\* counters and the plays it has still to write (submit_score, persist_score_submission).
THEOREM SerialInvariant == Spec => []Serial
  BY SerialInit, SerialStep, PTL DEF Spec

\* Where a player's submissions never overlapped, no submitted score of a map
\* has more pp than the best one: the verdict of calculate_status, passed over
\* the awaits of the transaction, is still right when it commits.
THEOREM SerialBestsAreHighest == Spec => []SerialBestIsHighest
<1>1. Serial => SerialBestIsHighest
  BY DEF Serial
<1> QED
  BY <1>1, SerialInvariant, PTL

\* The counters of players and maps whose submissions never overlapped are what
\* the rows add up to, whatever failed and whenever the server restarted.
THEOREM SerialCountersAreExact == Spec => []SerialCountersExact
<1>1. Serial => SerialCountersExact
  <2> SUFFICES ASSUME Serial PROVE SerialCountersExact
    OBVIOUS
  <2>1. ASSUME NEW p \in Players \ overlapped, \A r \in Handled : Player(r) # p
        PROVE  /\ statsRow[p] = [plays |-> Cardinality(RowsOf(p)), rscore |-> Ranked(p)]
               /\ stats[p] = statsRow[p]
    <3>1. \A r \in Requests : Player(r) = p => ~Counted(r)
      BY <2>1 DEF Handled, Counted, Holding, InTransaction
    <3>2. stats[p] = statsRow[p] /\ RowCount(p)
      BY <3>1 DEF Serial, StatsSound
    <3>3. statsRow[p] \in Counters
      BY DEF Serial, IInv, TypeOK
    <3>4. statsRow[p] = [plays |-> statsRow[p].plays, rscore |-> statsRow[p].rscore]
      BY <3>3 DEF Counters
    <3> QED
      BY <3>2, <3>4 DEF RowCount
  <2>2. ASSUME NEW m \in Maps \ overlapped, \A r \in Handled : Map(r) # m
        PROVE  playsRow[m] = Cardinality(RowsOn(m)) /\ plays[m] = playsRow[m]
    <3>1. \A r \in Requests : Map(r) = m => pc[r] # "updated"
      BY <2>2 DEF Handled, Holding, InTransaction
    <3> QED
      BY <3>1 DEF Serial, PlaysSound
  <2> QED
    BY <2>1, <2>2 DEF SerialCountersExact
<1> QED
  BY <1>1, SerialInvariant, PTL
=============================================================================
