------------------------------ MODULE MCAccess ------------------------------
(***************************************************************************)
(* Small instances of Access for TLC: several accounts without a second     *)
(* factor, or one account with one.                                         *)
(***************************************************************************)
EXTENDS Access, TLC

CONSTANTS w1, w2, e1, e2, e3, s1

WorkerSymmetry == Permutations(Workers)
AccessSymmetry == Permutations(Workers) \cup Permutations(Emails)

ShortBackoffs == <<1, 2>>

SingleLife == [k \in Kinds |-> 0]

BriefLives == [k \in Kinds |-> IF k = "short" THEN 0 ELSE 1]
=============================================================================
