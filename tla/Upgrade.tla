------------------------------ MODULE Upgrade ------------------------------
(***************************************************************************)
(* What the data directory promises to whoever upgrades or downgrades the    *)
(* program.  The schema gains one version at a time, in order, and loses    *)
(* none; a copy of the schema it is about to leave, or of an earlier one,   *)
(* exists before it does; and a release only runs on a schema that has      *)
(* everything the release was written for.                                  *)
(***************************************************************************)
EXTENDS Naturals, FiniteSets

CONSTANTS Newest, Processes

VARIABLES
    applied,  \* the versions the schema has
    copies,   \* how many versions each backup file has
    running   \* the release each process runs, 0 when it does not

upgradeVars == <<applied, copies, running>>

Level == Cardinality(applied)

UpgradeInit ==
    /\ applied = {} /\ copies = {}
    /\ running = [p \in Processes |-> 0]

Advance ==
    /\ \E c \in copies : c <= Level
    /\ Level < Newest
    /\ applied' = applied \cup {Level + 1}
    /\ UNCHANGED copies

Copy == copies' = copies \cup {Level} /\ UNCHANGED applied

Run(p) ==
    /\ \E release \in 1..Newest :
         /\ 1..release \subseteq applied'
         /\ running' = [running EXCEPT ![p] = release]

Leave(p) == running' = [running EXCEPT ![p] = 0]

\* The migration that completes a release's schema may be the step that runs it.
UpgradeNext ==
    \/ (Advance \/ Copy) /\ UNCHANGED running
    \/ \E p \in Processes :
         \/ (Advance \/ UNCHANGED <<applied, copies>>) /\ Run(p)
         \/ Leave(p) /\ UNCHANGED <<applied, copies>>

UpgradeSpec == UpgradeInit /\ [][UpgradeNext]_upgradeVars
=============================================================================
