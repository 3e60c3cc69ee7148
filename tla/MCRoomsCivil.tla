---------------------------- MODULE MCRoomsCivil ----------------------------
(***************************************************************************)
(* An instance of Rooms for CivilSpec, which reaches far fewer states than *)
(* Spec: three accounts, of which ann may come back once, and three slots. *)
(* With one index the list of matches is full as soon as a match is there. *)
(***************************************************************************)
EXTENDS Rooms, TLC

CONSTANTS ann, bob, cat, a1, a2, b1, c1, m1, m2

MCUsers == {ann, bob, cat}
MCSessions == {a1, a2, b1, c1}
MCUserOf == (a1 :> ann) @@ (a2 :> ann) @@ (b1 :> bob) @@ (c1 :> cat)
MCStaff == {bob}
MCDonors == {cat}
MCMatchIds == 0 .. 0
MCMatches == {m1, m2}
MCSlots == 0 .. 2

\* The Match objects are interchangeable, and so are the objects of one account.
MCSymmetry == Permutations(MCMatches) \cup Permutations({a1, a2})

\* What an object nobody refers to holds is overwritten before it is read.
Live(m, v, blank) == IF Unused(m) THEN blank ELSE v
MCView == <<online, issued, byId, registry, matchOf, listed, stuck,
            [m \in MCMatches |-> Live(m, <<host[m], referees[m], chat[m], tourney[m], status[m],
                                           occupant[m]>>, None)]>>
=============================================================================
