-------------------------------- MODULE Scrim --------------------------------
(***************************************************************************)
(* Scrims: the match points, and the tasks that award them after a round.  *)
(*                                                                         *)
(* A task waits up to 10 s for the score of every slot that played; the    *)
(* commands of the referees, the moves of the players and the next round   *)
(* go on meanwhile.  A slot is a seat; its place in the match, the scores  *)
(* and the win condition are left out.                                     *)
(***************************************************************************)
EXTENDS Integers, Sequences, FiniteSets, SequencesExt, NoneValue

CONSTANTS Slots, Players,
          Awards,    \* tasks that wait at once
          MaxRounds  \* bound: rounds that are completed

Sides == {"red", "blue"}
Winners == Players \cup Sides \cup {"neutral"}

ASSUME ScrimAssumption == MaxRounds \in Nat /\ None \notin Winners

FreeForAll == {"ffa"}       \* head_to_head and tag_coop
BestOf == {1, 2, 3}         \* bound: of 0..15

VARIABLES
    seat,       \* the player of a slot
    side,       \* the team of a slot, "neutral" when free for all
    type,       \* Match.team_type: "ffa" or "vs"
    scrimming,  \* Match.is_scrimming
    winningPts,
    points,     \* Match.match_points
    winners,    \* Match.winners
    awards,     \* update_matchpoints: the slots it waits for and the scores it has
    rounds,     \* counts them
    meddled     \* history: the scrim or its teams were changed, or another round
                \* completed, while a task was waiting

scrimVars == <<seat, side, type, scrimming, winningPts, points, winners, awards, rounds, meddled>>

NoTask == [at |-> "idle"]
Waiting == {k \in Awards : awards[k] # NoTask}
NoPoints == [w \in Winners |-> 0]
Seated == {s \in Slots : seat[s] # None}
Default(t) == IF t = "ffa" THEN "neutral" ELSE "red"

ScrimInit ==
    /\ seat \in [Slots -> Players \cup {None}] /\ Seated # {}
    /\ \A s, t \in Seated : seat[s] = seat[t] => s = t
    /\ type = "ffa" /\ side = [s \in Slots |-> "neutral"]
    /\ scrimming = FALSE /\ winningPts = 0
    /\ points = NoPoints /\ winners = <<>>
    /\ awards = [k \in Awards |-> NoTask]
    /\ rounds = 0 /\ meddled = FALSE

Meddles == meddled' = (meddled \/ Waiting # {})

-----------------------------------------------------------------------------
(* Players *)

\* join_match
SitDown(s, p) ==
    /\ seat[s] = None /\ \A t \in Slots : seat[t] # p
    /\ seat' = [seat EXCEPT ![s] = p]
    /\ side' = [side EXCEPT ![s] = IF type = "vs" THEN "red" ELSE @]
    /\ UNCHANGED <<type, scrimming, winningPts, points, winners, awards, rounds, meddled>>

\* leave_match of a player that is not the last, and Slot.reset.
LeaveSlot(s) ==
    /\ seat[s] # None /\ Seated # {s}
    /\ seat' = [seat EXCEPT ![s] = None]
    /\ side' = [side EXCEPT ![s] = "neutral"]
    /\ UNCHANGED <<type, scrimming, winningPts, points, winners, awards, rounds, meddled>>

\* MatchChangeSlot and Slot.copy_from
ChangeSlot(s, t) ==
    /\ seat[s] # None /\ seat[t] = None
    /\ seat' = [seat EXCEPT ![t] = seat[s], ![s] = None]
    /\ side' = [side EXCEPT ![t] = side[s], ![s] = "neutral"]
    /\ UNCHANGED <<type, scrimming, winningPts, points, winners, awards, rounds, meddled>>

\* MatchChangeTeam, whatever the team type.
ChangeTeam(s) ==
    /\ seat[s] # None
    /\ side' = [side EXCEPT ![s] = IF @ = "blue" THEN "red" ELSE "blue"]
    /\ Meddles
    /\ UNCHANGED <<seat, type, scrimming, winningPts, points, winners, awards, rounds>>

-----------------------------------------------------------------------------
(* Referees *)

\* Match.reset_scrim
ResetScrim == points' = NoPoints /\ winners' = <<>>

\* mp_scrim: the case that cancels a scrim is never met, winning_pts being 1 or more.
StartScrim(bestOf) ==
    /\ ~scrimming /\ bestOf % 2 = 1
    /\ scrimming' = TRUE
    /\ winningPts' = bestOf \div 2 + 1
    /\ Meddles
    /\ UNCHANGED <<seat, side, type, points, winners, awards, rounds>>

EndScrim ==
    /\ scrimming
    /\ scrimming' = FALSE
    /\ ResetScrim /\ Meddles
    /\ UNCHANGED <<seat, side, type, winningPts, awards, rounds>>

\* mp_rematch, when there is no scrim any more.
Rematch ==
    /\ ~scrimming /\ winningPts # 0
    /\ scrimming' = TRUE
    /\ Meddles
    /\ UNCHANGED <<seat, side, type, winningPts, points, winners, awards, rounds>>

\* Mutant: the winner of the point stays in the list.
DeductPoint ==
    /\ scrimming /\ winners # <<>> /\ Last(winners) # None
    /\ points' = [points EXCEPT ![Last(winners)] = @ - 1]
    /\ Meddles
    /\ UNCHANGED <<seat, side, type, scrimming, winningPts, awards, rounds, winners>>

\* mp_rematch in a scrim: the last point is taken back, unless it was a tie.
TakeBack ==
    /\ scrimming /\ winners # <<>> /\ Last(winners) # None
    /\ points' = [points EXCEPT ![Last(winners)] = @ - 1]
    /\ winners' = Front(winners)
    /\ Meddles
    /\ UNCHANGED <<seat, side, type, scrimming, winningPts, awards, rounds>>

\* mp_teams
Teams(t) ==
    /\ type' = t
    /\ side' = [s \in Slots |-> IF seat[s] # None THEN Default(t) ELSE side[s]]
    /\ IF scrimming THEN ResetScrim ELSE UNCHANGED <<points, winners>>
    /\ Meddles
    /\ UNCHANGED <<seat, scrimming, winningPts, awards, rounds>>

\* MatchChangeSettings, of the team type: not in a scrim.
ChangeTeamType(t) ==
    /\ t # type /\ ~scrimming
    /\ type' = t
    /\ side' = [s \in Slots |-> IF seat[s] # None THEN Default(t) ELSE side[s]]
    /\ Meddles
    /\ UNCHANGED <<seat, scrimming, winningPts, points, winners, awards, rounds>>

-----------------------------------------------------------------------------
(* The tasks *)

\* MatchComplete: the last of some players completes.
Complete(k, played) ==
    /\ scrimming /\ awards[k] = NoTask
    /\ rounds < MaxRounds /\ rounds' = rounds + 1
    /\ played # {} /\ played \subseteq Seated
    /\ awards' = [awards EXCEPT ![k] = [at |-> "created", left |-> played, ffa |-> FALSE,
                                     scored |-> {}]]
    /\ Meddles
    /\ UNCHANGED <<seat, side, type, scrimming, winningPts, points, winners>>

\* await_submissions begins: free for all or not, and a map that is submitted.
ReadSettings(k) ==
    /\ awards[k].at = "created"
    /\ \/ awards' = [awards EXCEPT ![k].at = "waiting", ![k].ffa = type \in FreeForAll]
       \/ awards' = [awards EXCEPT ![k] = NoTask]
    /\ UNCHANGED <<seat, side, type, scrimming, winningPts, points, winners, rounds, meddled>>

Key(k, s) == IF awards[k].ffa THEN seat[s] ELSE side[s]

\* The score of a slot is found, found to be 0, or waited for too long.
FindScore(k, s) ==
    /\ awards[k].at = "waiting" /\ s \in awards[k].left
    /\ seat[s] # None
    /\ \E found \in {{}, {Key(k, s)}} :
         awards' = [awards EXCEPT ![k].left = @ \ {s}, ![k].scored = @ \cup found]
    /\ UNCHANGED <<seat, side, type, scrimming, winningPts, points, winners, rounds, meddled>>

\* "assert s.player is not None": who played has left the slot.
SlotIsEmpty(k, s) ==
    /\ awards[k].at = "waiting" /\ s \in awards[k].left
    /\ seat[s] = None
    /\ awards' = [awards EXCEPT ![k] = NoTask]
    /\ UNCHANGED <<seat, side, type, scrimming, winningPts, points, winners, rounds, meddled>>

\* update_matchpoints: nothing was scored, or everybody scored the same.
NoWinner(k) ==
    /\ awards[k].at = "waiting" /\ awards[k].left = {}
    /\ \/ awards[k].scored = {} /\ UNCHANGED winners
       \/ Cardinality(awards[k].scored) > 1 /\ winners' = Append(winners, None)
    /\ awards' = [awards EXCEPT ![k] = NoTask]
    /\ UNCHANGED <<seat, side, type, scrimming, winningPts, points, rounds, meddled>>

\* The assertion on the kind of the winner, and the names of the sides, come after
\* the point.
Fits(w) == IF type \in FreeForAll THEN w \in Players ELSE w \in Sides

\* The best score takes the point and, with points enough, the match.
Award(k) ==
    /\ awards[k].at = "waiting" /\ awards[k].left = {}
    /\ \E w \in awards[k].scored :
         LET wmp == points[w] + 1 IN
         IF Fits(w) /\ winningPts # 0 /\ wmp = winningPts
         THEN scrimming' = FALSE /\ ResetScrim
         ELSE /\ points' = [points EXCEPT ![w] = wmp]
              /\ winners' = Append(winners, w)
              /\ UNCHANGED scrimming
    /\ awards' = [awards EXCEPT ![k] = NoTask]
    /\ UNCHANGED <<seat, side, type, winningPts, rounds, meddled>>

-----------------------------------------------------------------------------
ScrimNext ==
    \/ \E s \in Slots :
         \/ LeaveSlot(s) \/ ChangeTeam(s)
         \/ \E p \in Players : SitDown(s, p)
         \/ \E t \in Slots : ChangeSlot(s, t)
    \/ \E n \in BestOf : StartScrim(n)
    \/ EndScrim \/ Rematch \/ TakeBack
    \/ \E t \in {"ffa", "vs"} : Teams(t) \/ ChangeTeamType(t)
    \/ \E k \in Awards, played \in SUBSET Slots : Complete(k, played)
    \/ \E k \in Waiting :
         \/ ReadSettings(k) \/ NoWinner(k) \/ Award(k)
         \/ \E s \in Slots : FindScore(k, s) \/ SlotIsEmpty(k, s)

ScrimSpec == ScrimInit /\ [][ScrimNext]_scrimVars

-----------------------------------------------------------------------------
(* Properties *)

ScrimTypeOK ==
    /\ seat \in [Slots -> Players \cup {None}]
    /\ side \in [Slots -> Sides \cup {"neutral"}]
    /\ type \in {"ffa", "vs"} /\ scrimming \in BOOLEAN /\ meddled \in BOOLEAN
    /\ winningPts \in 0..8
    /\ points \in [Winners -> 0..MaxRounds]
    /\ winners \in Seq(Winners \cup {None}) /\ Len(winners) <= MaxRounds
    /\ \A k \in Waiting : awards[k].left \subseteq Slots
    /\ rounds \in 0..MaxRounds

\* Whatever referees do while points are awaited, a player or a side has as many
\* points as it has entries in the list of winners: the point mp_rematch takes
\* back is the one that was awarded last (update_matchpoints, mp_rematch).
PointsAreWins ==
    \A w \in Winners : points[w] = Cardinality({i \in 1..Len(winners) : winners[i] = w})

\* A scrim that goes on is undecided: nobody has the points that win it.  (A point
\* that arrives after mp_endscrim, or after a change of teams, can make the count
\* pass winning_pts, and then the scrim is never won.)
ScrimUndecided ==
    scrimming /\ ~meddled => \A w \in Winners : points[w] < winningPts

\* In a match of teams every player that sits in it has one (join_match, mp_teams,
\* MatchChangeSettings, MatchChangeSlot).
TeamsHaveSides == type = "vs" => \A s \in Seated : side[s] \in Sides

\* The points, the list of winners, the score to reach and the teams agree.
ScrimSound == PointsAreWins /\ ScrimUndecided /\ TeamsHaveSides
=============================================================================
