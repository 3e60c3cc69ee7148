------------------------------ MODULE MCRooms -------------------------------
(***************************************************************************)
(* A small instance of Rooms: ann may log in a second time with the object *)
(* a2, bob once; there are two slots, one match index, and as many Match    *)
(* objects as can be referred to at once by bugs and bystanders together.  *)
(***************************************************************************)
EXTENDS Rooms, FiniteSets, TLC

CONSTANTS ann, bob, a1, a2, b1, m1, m2

MCUsers == {ann, bob}
MCSessions == {a1, a2, b1}
MCUserOf == [s \in MCSessions |-> IF s = b1 THEN bob ELSE ann]
MCStaff == {bob}
MCDonors == {bob}
MCMatchIds == 0 .. 0
MCMatches == {m1, m2}
MCSlots == 0 .. 1

\* The Match objects are interchangeable, and so are the objects of one account.
MCSymmetry == Permutations(MCMatches) \cup Permutations({a1, a2})

\* What an object nobody refers to holds is overwritten before it is read.
Live(m, v, blank) == IF Unused(m) THEN blank ELSE v
MCView == <<online, issued, byId, registry, matchOf, listed, stuck,
            [m \in MCMatches |-> Live(m, <<host[m], referees[m], chat[m], tourney[m], status[m],
                                           occupant[m]>>, None)]>>

\* The bound on the chats.  A stray is in the chat of a match it is not in, or
\* not in the chat of the match it is in.  All of it is explored for one match;
\* while two Match objects are in use at a time, only what the rooms do to each
\* other without strays and what they leave behind.
MCStrays == {x \in MCSessions \X MCMatches : (x[1] \in chat[x[2]]) # (matchOf[x[1]] = x[2])}
MCUntouched ==
    /\ MCStrays = {}
    /\ stuck = {}
    /\ \A m \in MCMatches : tourney[m] = {} /\ (chat[m] # {} => m \in listed)
MCStraysBound == MCUntouched \/ \E m \in MCMatches : Unused(m)
=============================================================================
