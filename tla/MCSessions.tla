----------------------------- MODULE MCSessions -----------------------------
(***************************************************************************)
(* A small instance of Sessions: an account with two Player objects, which *)
(* may log in one after the other or at once, and a bystander.             *)
(***************************************************************************)
EXTENDS Sessions

CONSTANTS ann, bob, a1, a2, b1

MCUsers == {ann, bob}
MCSessions == {a1, a2, b1}
MCUserOf == [s \in MCSessions |-> IF s = b1 THEN bob ELSE ann]
=============================================================================
