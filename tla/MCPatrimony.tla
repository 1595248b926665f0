---------------------------- MODULE MCPatrimony ----------------------------
(***************************************************************************)
(* Two requests at a time on two accounts that change name and type, and    *)
(* three months that are recorded in any order with one between them that   *)
(* never is.  The last two gross values lie beside and on a half of the     *)
(* charge: a gain of 124 costs 21.328 and one of 125 costs 21.5.            *)
(***************************************************************************)
EXTENDS Patrimony, TLC

CONSTANTS w1, w2

WorkerSymmetry == Permutations(Workers)

SmallForms ==
    {[name |-> "n1", type |-> "current", policy |-> "sweep"],
     [name |-> "n1", type |-> "passbook", policy |-> "none"],
     [name |-> "n2", type |-> "securities", policy |-> "none"]}

\* Three records while nobody writes, one beside a request, none beside two.
SmallRoom == [n \in 0..2 |-> IF n = 0 THEN 3 ELSE 2 - n]
=============================================================================
