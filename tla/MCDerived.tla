----------------------------- MODULE MCDerived ------------------------------
(***************************************************************************)
(* The derived figures over the instances of MCLedger.                      *)
(***************************************************************************)
EXTENDS MCLedger, Derived

CONSTANT sv2

\* A vehicle full at two, and one that is never full.
OneVehicle == <<sv>>
TwoVehicles == <<sv, sv2>>
CeilingOfTwo == [v \in Savings |-> IF v = sv THEN 2 ELSE None]

\* The first vehicle has no snapshot in the month, one a sweep of two overruns the
\* ceiling from, or one at its ceiling.
FirstUpToFull == {[v \in Savings |-> IF v = sv THEN g ELSE 0] : g \in 0..2}
=============================================================================
