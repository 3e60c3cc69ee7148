---------------------------- MODULE MCSubmission ----------------------------
(***************************************************************************)
(* A small instance of Submission: ann plays a map twice and submits one   *)
(* of the plays twice over; bob plays the same map.                        *)
(***************************************************************************)
EXTENDS Submission, TLC

CONSTANTS ann, bob, map, low, high, other, r1, r2, r3, r4

MCPlayers == {ann, bob}
MCMaps == {map}
MCPlays == {low, high, other}
MCRequests == {r1, r2, r3, r4}
MCPlayOf == (r1 :> low) @@ (r2 :> high) @@ (r3 :> high) @@ (r4 :> other)
MCPlayerOf == (low :> ann) @@ (high :> ann) @@ (other :> bob)
MCMapOf == [c \in MCPlays |-> map]
MCPassed == {low, high}
MCPp == (low :> 1) @@ (high :> 2) @@ (other :> 1)
MCPoints == (low :> 1) @@ (high :> 3) @@ (other :> 1)
=============================================================================
