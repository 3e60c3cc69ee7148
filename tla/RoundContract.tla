--------------------------- MODULE RoundContract ----------------------------
(***************************************************************************)
(* What a round of a match promises, without slots, locks, flags or timers:*)
(* a player is put in play only by a start, and a running round stops only *)
(* when nobody is left in play, or when it is aborted for everybody.       *)
(***************************************************************************)
CONSTANT Players

VARIABLES running,  \* the round is going on
          playing   \* who is in play

Init == running = FALSE /\ playing = {}

Begin ==
    /\ running' = TRUE
    /\ playing' \in SUBSET Players

\* A player finishes; the last one to do so ends the round.
Finish(p) ==
    /\ playing' = playing \ {p}
    /\ running' = (running /\ playing' # {})

\* A player leaves, is kicked or withdraws: the round is not ended by it.
Drop(p) ==
    /\ playing' = playing \ {p}
    /\ UNCHANGED running

Abort ==
    /\ running
    /\ running' = FALSE
    /\ playing' = {}

\* The match is gone and another one is created.
Renew ==
    /\ playing = {}
    /\ running' = FALSE
    /\ UNCHANGED playing

Next ==
    \/ Begin
    \/ \E p \in Players : Finish(p) \/ Drop(p)
    \/ Abort
    \/ Renew

Spec == Init /\ [][Next]_<<running, playing>>
=============================================================================
