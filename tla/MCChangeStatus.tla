---------------------------- MODULE MCChangeStatus ----------------------------
(***************************************************************************)
(* Instances of ChangeStatus small enough for TLC.                         *)
(***************************************************************************)
EXTENDS ChangeStatus, TLC

CONSTANTS s1, s2

\* Every product belongs to s1; s2 is a seller who asks for what is not theirs.
MCOwner == [p \in Product |-> s1]

\* Requests are interchangeable.
RequestSymmetry == Permutations(Request)
===============================================================================
