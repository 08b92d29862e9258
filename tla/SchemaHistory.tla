----------------------------- MODULE SchemaHistory -----------------------------
(***************************************************************************)
(* What the migrations promise of the schema, whoever runs them and        *)
(* whatever fails: it is always at a revision, never in between; it goes   *)
(* to the newest one in one step, and back one revision at a time.         *)
(***************************************************************************)
EXTENDS Integers

CONSTANT Head        \* the newest revision

VARIABLE release     \* the revision the schema is at; 0 before the first

\* The tables of the first revision are dropped, its types are not.
Leftovers == -1

Init == release \in 0..Head

UpgradeHead == release \in 0 .. Head - 1 /\ release' = Head
DowngradeOne == release \in 1..Head /\ release' = IF release = 1 THEN Leftovers ELSE release - 1

Next == UpgradeHead \/ DowngradeOne

Spec == Init /\ [][Next]_release
===============================================================================
