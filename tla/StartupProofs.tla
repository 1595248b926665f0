--------------------------- MODULE StartupProofs ---------------------------
(***************************************************************************)
(* Theorems about Startup that hold for any tools, any number of releases,  *)
(* and any number of faults and deployments.                                *)
(***************************************************************************)
EXTENDS Startup, FiniteSetTheorems, TLAPS

LEMMA AppliedFinite ==
    ASSUME applied \subseteq Releases
    PROVE  IsFiniteSet(applied) /\ Level \in 0..Newest
  <1>0. Newest \in Nat \ {0} /\ 1 \in Int
    BY StartupAssumption
  <1>1. IsFiniteSet(1..Newest) /\ Cardinality(1..Newest) = Newest
    BY <1>0, FS_Interval
  <1>2. IsFiniteSet(applied) /\ Cardinality(applied) <= Newest
    BY <1>1, FS_Subset DEF Releases
  <1>3. Level \in Nat
    BY <1>2, FS_CardinalityType DEF Level
  <1> QED
    BY <1>0, <1>1, <1>2, <1>3 DEF Level

\* What a process's row keeps when one of its parts is replaced.
LEMMA RowParts ==
    ASSUME NEW p \in Processes, NEW row, TypeOK, Become(p, row)
    PROVE  /\ processes'[p] = row
           /\ \A q \in Processes \ {p} : processes'[q] = processes[q]
           /\ row \in Process => processes' \in [Processes -> Process]
  BY DEF TypeOK, Become

LEMMA DownType ==
    ASSUME NEW r \in Releases
    PROVE  Down(r) \in Process /\ Down(r).at = "down" /\ Down(r).moved = 0
           /\ Down(r).release = r
  BY DEF Down, Process, Stages

\* Rewriting one process keeps the table of processes well typed.
LEMMA BecomeType ==
    ASSUME TypeOK, NEW p \in Processes, NEW row \in Process, Become(p, row),
           row.at \in {"copying", "applying"} => row.pending # {}
    PROVE  /\ processes' \in [Processes -> Process]
           /\ \A q \in Processes :
                processes'[q].at \in {"copying", "applying"} => processes'[q].pending # {}
  BY RowParts DEF TypeOK

LEMMA GoType ==
    ASSUME TypeOK, NEW p \in Processes, NEW stage \in Stages, Go(p, stage),
           stage \notin {"copying", "applying"}
    PROVE  /\ processes' \in [Processes -> Process]
           /\ \A q \in Processes :
                processes'[q].at \in {"copying", "applying"} => processes'[q].pending # {}
  <1> DEFINE row == [processes[p] EXCEPT !.at = stage]
  <1>1. row \in Process /\ row.at = stage
    BY DEF TypeOK, Process
  <1>2. Become(p, row)
    BY DEF Go
  <1> HIDE DEF row
  <1> QED
    BY <1>1, <1>2, BecomeType

LEMMA ExitType ==
    ASSUME TypeOK, NEW p \in Processes, Exit(p)
    PROVE  /\ processes' \in [Processes -> Process]
           /\ \A q \in Processes :
                processes'[q].at \in {"copying", "applying"} => processes'[q].pending # {}
  <1>1. processes[p].release \in Releases
    BY DEF TypeOK, Process
  <1>2. Down(processes[p].release) \in Process /\ Down(processes[p].release).at = "down"
    BY <1>1, DownType
  <1> QED
    BY <1>2, BecomeType DEF Exit

LEMMA PendingType ==
    ASSUME TypeOK, NEW p \in Processes
    PROVE  PendingOf(processes[p].release) \subseteq Releases
  <1>1. processes[p].release \in 1..Newest /\ Newest \in Nat
    BY StartupAssumption DEF TypeOK, Process, Releases
  <1> QED
    BY <1>1 DEF PendingOf, Releases

LEMMA StepType == TypeOK /\ [Next]_vars => TypeOK'
  <1> SUFFICES ASSUME TypeOK, [Next]_vars PROVE TypeOK'
    OBVIOUS
  <1> USE StartupAssumption
  <1>1. ASSUME NEW p \in Processes, Start(p)
        PROVE  TypeOK'
    <2>1. PICK release \in Releases : Become(p, [Down(release) EXCEPT !.at = "secret"])
      BY <1>1 DEF Start
    <2> DEFINE row == [Down(release) EXCEPT !.at = "secret"]
    <2>2. row \in Process /\ row.at = "secret"
      BY DEF Down, Process, Stages
    <2>3. Become(p, row)
      BY <2>1
    <2> HIDE DEF row
    <2> QED
      BY <1>1, <2>2, <2>3, BecomeType DEF TypeOK, Start
  <1>2. ASSUME NEW p \in Processes, ReadSecret(p)
        PROVE  TypeOK'
    BY <1>2, GoType, ExitType DEF TypeOK, ReadSecret, Stages
  <1>3. ASSUME NEW p \in Processes, TruncateSecret(p) \/ WriteSecret(p)
        PROVE  TypeOK'
    BY <1>3, GoType DEF TypeOK, TruncateSecret, WriteSecret, Stages
  <1>4. ASSUME NEW p \in Processes, ListMigrations(p)
        PROVE  TypeOK'
    <2> DEFINE left == PendingOf(processes[p].release)
               row == [processes[p] EXCEPT
                         !.at = IF left = {} THEN "ready" ELSE "copying",
                         !.pending = left, !.from = Level]
    <2>1. left \subseteq Releases /\ Level \in Nat
      BY PendingType, AppliedFinite DEF TypeOK
    <2>2. row \in Process /\ (row.at \in {"copying", "applying"} => row.pending # {})
      BY <2>1 DEF TypeOK, Process, Stages
    <2>3. Become(p, row)
      BY <1>4 DEF ListMigrations
    <2> HIDE DEF row
    <2> QED
      BY <1>4, <2>2, <2>3, BecomeType DEF TypeOK, ListMigrations
  <1>5. ASSUME NEW p \in Processes, Backup(p)
        PROVE  TypeOK'
    <2> DEFINE row == [processes[p] EXCEPT !.at = "applying", !.copy = Level]
    <2>1. Level \in 0..Newest
      BY AppliedFinite DEF TypeOK
    <2>2. row \in Process /\ row.pending # {}
      <3>1. processes[p] \in Process /\ processes[p].pending # {}
        BY <1>5 DEF TypeOK, Backup, At
      <3>2. Level \in Nat
        BY <2>1
      <3> QED
        BY <3>1, <3>2 DEF Process, Stages
    <2>3. Become(p, row)
      BY <1>5 DEF Backup
    <2> HIDE DEF row
    <2> QED
      BY <1>5, <2>1, <2>2, <2>3, BecomeType DEF TypeOK, Backup
  <1>6. ASSUME NEW p \in Processes, ApplyOne(p)
        PROVE  TypeOK'
    <2>1. PICK v \in processes[p].pending :
             IF v \in applied
             THEN Exit(p) /\ UNCHANGED applied
             ELSE /\ applied' = applied \cup {v}
                  /\ Become(p, [processes[p] EXCEPT
                       !.at = IF processes[p].pending = {v} THEN "ready" ELSE "applying",
                       !.pending = processes[p].pending \ {v},
                       !.moved = processes[p].moved + 1])
      BY <1>6 DEF ApplyOne
    <2> DEFINE row == [processes[p] EXCEPT
                         !.at = IF processes[p].pending = {v} THEN "ready" ELSE "applying",
                         !.pending = processes[p].pending \ {v},
                         !.moved = processes[p].moved + 1]
    <2>2. row \in Process /\ (row.at \in {"copying", "applying"} => row.pending # {})
      <3>1. processes[p] \in Process
        BY DEF TypeOK
      <3>2. /\ processes[p].pending \ {v} \subseteq Releases
            /\ processes[p].moved + 1 \in Nat
        BY <3>1 DEF Process
      <3>3. row \in Process
        BY <3>1, <3>2 DEF Process, Stages
      <3>4. row.at = (IF processes[p].pending = {v} THEN "ready" ELSE "applying")
            /\ row.pending = processes[p].pending \ {v}
        BY <3>1 DEF Process
      <3> QED
        BY <3>3, <3>4
    <2>3. v \in Releases
      BY DEF TypeOK, Process
    <2>4. CASE v \in applied
      BY <1>6, <2>1, <2>4, ExitType DEF TypeOK, ApplyOne
    <2>5. CASE v \notin applied
      <3>1. Become(p, row) /\ applied' = applied \cup {v}
        BY <2>1, <2>5
      <3> HIDE DEF row
      <3> QED
        BY <1>6, <2>2, <2>3, <3>1, BecomeType DEF TypeOK, ApplyOne
    <2> QED
      BY <2>4, <2>5
  <1>7. ASSUME NEW p \in Processes, RunBackup(p)
        PROVE  TypeOK'
    BY <1>7, AppliedFinite DEF TypeOK, RunBackup
  <1>8. ASSUME NEW p \in Processes, Finish(p) \/ Fault(p)
        PROVE  TypeOK'
    BY <1>8, ExitType DEF TypeOK, Finish, Fault
  <1>9. ASSUME Deploy
        PROVE  TypeOK'
    BY <1>9, ExitType DEF TypeOK, Deploy, Processes
  <1>10. CASE UNCHANGED vars
    BY <1>10 DEF TypeOK, vars
  <1> QED
    BY <1>1, <1>2, <1>3, <1>4, <1>5, <1>6, <1>7, <1>8, <1>9, <1>10 DEF Next, Step

LEMMA InitType == StartupInit => TypeOK
  <1> SUFFICES ASSUME StartupInit PROVE TypeOK
    OBVIOUS
  <1>1. \A p \in Processes : Down(image) \in Process /\ Down(image).at = "down"
    BY DownType DEF StartupInit
  <1>2. 0 \in 0..MaxFaults /\ 0 \in 0..MaxDeploys
    BY StartupAssumption
  <1> QED
    BY <1>1, <1>2 DEF StartupInit, TypeOK

\* Every process is where a start can be, with what such a start remembers,
\* whatever is killed, deployed or run beside it.
THEOREM StartupTypeCorrect == Spec => []TypeOK
  BY InitType, StepType, PTL DEF Spec

----------------------------------------------------------------------------
(* Backups and the order of the migrations *)

\* A process applies its list in order and alone, or gives up: while it is at
\* it, its list starts right after what it found and moved.
Accounted(r, level, copies) ==
    /\ r.at \notin {"applying", "ready"} => r.moved = 0
    /\ r.at = "copying" =>
         r.from <= level /\ r.pending = (r.from + 1)..r.release
    /\ r.at = "applying" =>
         /\ r.from <= r.copy /\ r.copy <= level /\ r.from + r.moved <= level
         /\ r.copy \in copies
         /\ r.pending = (r.from + r.moved + 1)..r.release
    /\ r.moved > 0 => r.copy = r.from /\ r.copy \in copies

UpgradeInv ==
    /\ TypeOK
    /\ applied = 1..Level
    /\ \A p \in Processes : Accounted(processes[p], Level, backups)

\* The schema gained the next version.
LEMMA NextLevel ==
    ASSUME TypeOK, applied = 1..Level, applied' = applied \cup {Level + 1}
    PROVE  Level' = Level + 1 /\ applied' = 1..(Level + 1)
  <1>1. Level \in Nat
    BY AppliedFinite, StartupAssumption DEF TypeOK
  <1>2. applied' = 1..(Level + 1)
    BY <1>1
  <1>3. Cardinality(1..(Level + 1)) = Level + 1
    BY <1>1, FS_Interval
  <1>4. Level' = Cardinality(applied')
    BY DEF Level
  <1> QED
    BY <1>2, <1>3, <1>4

\* Only one row is replaced, by one that is accounted for; what happens to the
\* schema and the copies takes nothing from the account of the others.
LEMMA BecomeAccounted ==
    ASSUME UpgradeInv, NEW p \in Processes, NEW row, Become(p, row),
           NEW level \in Nat, NEW copies, Accounted(row, level, copies),
           Level <= level, backups \subseteq copies
    PROVE  \A q \in Processes : Accounted(processes'[q], level, copies)
  <1> SUFFICES ASSUME NEW q \in Processes
               PROVE  Accounted(processes'[q], level, copies)
    OBVIOUS
  <1>1. CASE q = p
    BY <1>1 DEF UpgradeInv, TypeOK, Become
  <1>2. CASE q # p
    <2>1. processes'[q] = processes[q]
      BY <1>2 DEF UpgradeInv, TypeOK, Become
    <2>2. processes[q] \in Process /\ Accounted(processes[q], Level, backups)
      BY DEF UpgradeInv, TypeOK
    <2>3. /\ processes[q].at \in Stages /\ processes[q].from \in Nat
          /\ processes[q].copy \in Nat /\ processes[q].moved \in Nat
      BY <2>2 DEF Process
    <2>4. Level \in Nat
      BY AppliedFinite, StartupAssumption DEF UpgradeInv, TypeOK
    <2> QED
      BY <2>1, <2>2, <2>3, <2>4 DEF Accounted
  <1> QED
    BY <1>1, <1>2

LEMMA DownAccounted ==
    ASSUME NEW release, NEW level, NEW copies
    PROVE  Accounted(Down(release), level, copies)
  BY DEF Accounted, Down

LEMMA ExitAccounted ==
    ASSUME UpgradeInv, NEW p \in Processes, Exit(p)
    PROVE  \A q \in Processes : Accounted(processes'[q], Level, backups)
  <1>1. Level \in Nat
    BY AppliedFinite, StartupAssumption DEF UpgradeInv, TypeOK
  <1> QED
    BY <1>1, DownAccounted, BecomeAccounted DEF Exit

\* A stage before the copy is accounted for by having moved nothing.
LEMMA GoAccounted ==
    ASSUME UpgradeInv, NEW p \in Processes, NEW stage, Go(p, stage),
           stage \notin {"copying", "applying", "ready"},
           processes[p].at \notin {"applying", "ready"}
    PROVE  \A q \in Processes : Accounted(processes'[q], Level, backups)
  <1> DEFINE row == [processes[p] EXCEPT !.at = stage]
  <1>1. Level \in Nat
    BY AppliedFinite, StartupAssumption DEF UpgradeInv, TypeOK
  <1>2. row.at = stage /\ row.moved = 0
    BY DEF UpgradeInv, TypeOK, Accounted, Process
  <1>3. Accounted(row, Level, backups)
    BY <1>2 DEF Accounted
  <1>4. Become(p, row)
    BY DEF Go
  <1> HIDE DEF row
  <1> QED
    BY <1>1, <1>3, <1>4, BecomeAccounted

LEMMA StepInv == UpgradeInv /\ [Next]_vars => UpgradeInv'
  <1> SUFFICES ASSUME UpgradeInv, [Next]_vars
               PROVE  /\ applied' = 1..Level'
                      /\ \A q \in Processes : Accounted(processes'[q], Level', backups')
    BY StepType DEF UpgradeInv
  <1>0. TypeOK /\ Level \in Nat /\ applied = 1..Level
    BY AppliedFinite, StartupAssumption DEF UpgradeInv, TypeOK
  <1>a. applied' = applied => Level' = Level
    BY DEF Level
  <1>1. ASSUME NEW p \in Processes, Start(p)
        PROVE  \A q \in Processes : Accounted(processes'[q], Level, backups)
    <2>1. PICK release \in Releases : Become(p, [Down(release) EXCEPT !.at = "secret"])
      BY <1>1 DEF Start
    <2> DEFINE row == [Down(release) EXCEPT !.at = "secret"]
    <2>2. Accounted(row, Level, backups)
      BY DEF Down, Accounted
    <2>3. Become(p, row)
      BY <2>1
    <2> HIDE DEF row
    <2> QED
      BY <1>0, <2>2, <2>3, BecomeAccounted
  <1>2. ASSUME NEW p \in Processes, ReadSecret(p)
        PROVE  \A q \in Processes : Accounted(processes'[q], Level, backups)
    BY <1>2, GoAccounted, ExitAccounted DEF ReadSecret, At
  <1>3. ASSUME NEW p \in Processes, TruncateSecret(p) \/ WriteSecret(p)
        PROVE  \A q \in Processes : Accounted(processes'[q], Level, backups)
    BY <1>3, GoAccounted DEF TruncateSecret, WriteSecret, At
  <1>4. ASSUME NEW p \in Processes, ListMigrations(p)
        PROVE  \A q \in Processes : Accounted(processes'[q], Level, backups)
    <2> DEFINE r == processes[p]
               left == PendingOf(r.release)
               row == [r EXCEPT !.at = IF left = {} THEN "ready" ELSE "copying",
                                !.pending = left, !.from = Level]
    <2>1. r \in Process /\ r.moved = 0 /\ r.release \in 1..Newest /\ Newest \in Nat
      BY <1>4, StartupAssumption
         DEF UpgradeInv, TypeOK, Accounted, ListMigrations, At, Process, Releases
    <2>2. left = (Level + 1)..r.release
      BY <1>0, <2>1 DEF PendingOf
    <2>3. /\ row.at \in {"ready", "copying"} /\ row.moved = 0
          /\ row.from = Level /\ row.pending = left /\ row.release = r.release
      BY <2>1 DEF Process
    <2>4. Become(p, row)
      BY <1>4 DEF ListMigrations
    <2> HIDE DEF row, left
    <2>5. Accounted(row, Level, backups)
      BY <1>0, <2>1, <2>2, <2>3 DEF Accounted
    <2> QED
      BY <1>0, <2>4, <2>5, BecomeAccounted
  <1>5. ASSUME NEW p \in Processes, Backup(p)
        PROVE  \A q \in Processes : Accounted(processes'[q], Level, backups')
    <2> DEFINE r == processes[p]
               row == [r EXCEPT !.at = "applying", !.copy = Level]
    <2>1. /\ r \in Process /\ r.moved = 0 /\ r.from <= Level
          /\ r.pending = (r.from + 1)..r.release
      BY <1>5 DEF UpgradeInv, TypeOK, Accounted, Backup, At
    <2>2. /\ row.at = "applying" /\ row.moved = 0 /\ row.from = r.from
          /\ row.copy = Level /\ row.pending = r.pending /\ row.release = r.release
      BY <2>1 DEF Process
    <2>3. Become(p, row) /\ backups' = backups \cup {Level}
      BY <1>5 DEF Backup
    <2>4. r.from \in Nat
      BY <2>1 DEF Process
    <2> HIDE DEF row
    <2>5. Accounted(row, Level, backups')
      BY <1>0, <2>1, <2>2, <2>3, <2>4 DEF Accounted
    <2> QED
      BY <1>0, <2>3, <2>5, BecomeAccounted
  <1>6. ASSUME NEW p \in Processes, ApplyOne(p)
        PROVE  /\ applied' = 1..Level'
               /\ \A q \in Processes : Accounted(processes'[q], Level', backups)
    <2> DEFINE r == processes[p]
    <2>1. PICK v \in r.pending :
            /\ IsNext(v, r.pending)
            /\ IF v \in applied
               THEN Exit(p) /\ UNCHANGED applied
               ELSE /\ applied' = applied \cup {v}
                    /\ Become(p, [r EXCEPT
                         !.at = IF r.pending = {v} THEN "ready" ELSE "applying",
                         !.pending = r.pending \ {v},
                         !.moved = r.moved + 1])
      BY <1>6 DEF ApplyOne
    <2>2. CASE v \in applied
      BY <1>0, <1>a, <2>1, <2>2, ExitAccounted
    <2>3. CASE v \notin applied
      <3> DEFINE row == [r EXCEPT
                           !.at = IF r.pending = {v} THEN "ready" ELSE "applying",
                           !.pending = r.pending \ {v},
                           !.moved = r.moved + 1]
      <3>1. /\ r \in Process /\ r.from <= r.copy /\ r.copy <= Level
            /\ r.from + r.moved <= Level /\ r.copy \in backups
            /\ r.pending = (r.from + r.moved + 1)..r.release
            /\ r.moved > 0 => r.copy = r.from
        BY <1>6 DEF UpgradeInv, TypeOK, Accounted, ApplyOne, At
      <3>2. /\ r.from \in Nat /\ r.moved \in Nat /\ r.copy \in Nat
            /\ r.release \in Nat /\ r.pending \subseteq Nat
        BY <3>1, StartupAssumption DEF Process, Releases
      <3>3. v = r.from + r.moved + 1 /\ v <= r.release
        <4> DEFINE first == r.from + r.moved + 1
        <4>1. v \in first..r.release /\ \A u \in first..r.release : v <= u
          BY <2>1, <3>1 DEF IsNext
        <4>2. first \in Nat /\ r.release \in Nat
          BY <3>2
        <4> HIDE DEF first
        <4>3. v = first /\ v <= r.release
          BY <4>1, <4>2
        <4> QED
          BY <4>3 DEF first
      <3>4. v = Level + 1 /\ r.from + r.moved = Level
        BY <1>0, <2>3, <3>1, <3>2, <3>3
      <3>5. applied' = 1..Level' /\ Level' = Level + 1
        BY <1>0, <2>1, <2>3, <3>4, NextLevel
      <3>6. /\ row.at \in {"ready", "applying"} /\ row.moved = r.moved + 1
            /\ row.from = r.from /\ row.copy = r.copy /\ row.release = r.release
            /\ row.pending = r.pending \ {v}
        BY <3>1 DEF Process
      <3>7. Become(p, row)
        BY <2>1, <2>3
      <3> HIDE DEF row
      <3>8. row.copy = row.from
        BY <3>1, <3>2, <3>4, <3>6
      <3>9. row.pending = (row.from + row.moved + 1)..row.release
        BY <3>1, <3>2, <3>3, <3>6
      <3>10. /\ row.from <= row.copy /\ row.copy <= Level + 1
             /\ row.from + row.moved <= Level + 1 /\ row.copy \in backups
        BY <1>0, <3>1, <3>2, <3>4, <3>6
      <3> HIDE DEF r
      <3>11. Accounted(row, Level + 1, backups)
        BY <3>6, <3>8, <3>9, <3>10 DEF Accounted
      <3> QED
        BY <1>0, <3>5, <3>7, <3>11, BecomeAccounted
    <2> QED
      BY <2>2, <2>3
  <1>7. ASSUME NEW p \in Processes, RunBackup(p)
        PROVE  \A q \in Processes : Accounted(processes'[q], Level, backups')
    <2>1. processes' = processes /\ backups \subseteq backups'
      BY <1>7 DEF RunBackup
    <2> QED
      BY <2>1 DEF UpgradeInv, Accounted
  <1>8. ASSUME NEW p \in Processes, Finish(p) \/ Fault(p)
        PROVE  \A q \in Processes : Accounted(processes'[q], Level, backups)
    BY <1>8, ExitAccounted DEF Finish, Fault
  <1>9. ASSUME Deploy
        PROVE  \A q \in Processes : Accounted(processes'[q], Level, backups)
    BY <1>9, ExitAccounted DEF Deploy, Processes
  <1>10. CASE \E p \in Processes : ApplyOne(p)
    BY <1>6, <1>10 DEF ApplyOne
  <1>11. CASE ~\E p \in Processes : ApplyOne(p)
    <2>1. applied' = applied
      BY <1>11 DEF Next, Step, vars, Start, ReadSecret, TruncateSecret, WriteSecret,
         ListMigrations, Backup, RunBackup, Finish, Fault, Deploy
    <2>2. CASE UNCHANGED vars
      BY <1>0, <1>a, <2>1, <2>2 DEF vars, UpgradeInv
    <2>3. ASSUME NEW p \in Processes, Step(p) \/ RunBackup(p) \/ Finish(p) \/ Fault(p)
          PROVE  \A q \in Processes : Accounted(processes'[q], Level, backups')
      <3>1. CASE Start(p)
        BY <1>1, <3>1 DEF Start
      <3>2. CASE ReadSecret(p)
        BY <1>2, <3>2 DEF ReadSecret
      <3>3. CASE TruncateSecret(p) \/ WriteSecret(p)
        BY <1>3, <3>3 DEF TruncateSecret, WriteSecret
      <3>4. CASE ListMigrations(p)
        BY <1>4, <3>4 DEF ListMigrations
      <3>5. CASE Backup(p)
        BY <1>5, <3>5
      <3>6. CASE RunBackup(p)
        BY <1>7, <3>6
      <3>7. CASE Finish(p) \/ Fault(p)
        BY <1>8, <3>7 DEF Finish, Fault
      <3> QED
        BY <1>11, <2>3, <3>1, <3>2, <3>3, <3>4, <3>5, <3>6, <3>7 DEF Step
    <2>4. CASE Deploy
      BY <1>0, <1>9, <1>a, <2>1, <2>4 DEF Deploy
    <2> QED
      BY <1>0, <1>a, <2>1, <2>2, <2>3, <2>4 DEF Next
  <1> QED
    BY <1>10, <1>11

LEMMA InitInv == StartupInit => UpgradeInv
  <1> SUFFICES ASSUME StartupInit PROVE UpgradeInv
    OBVIOUS
  <1>1. TypeOK
    BY InitType
  <1>2. Level = 0
    BY FS_EmptySet DEF StartupInit, Level
  <1>3. \A p \in Processes : Accounted(processes[p], Level, backups)
    BY DownAccounted DEF StartupInit
  <1> QED
    BY <1>1, <1>2, <1>3 DEF StartupInit, UpgradeInv

THEOREM UpgradesAccounted == Spec => []UpgradeInv
  BY InitInv, StepInv, PTL DEF Spec

\* A process that has migrated anything holds a copy of exactly the schema it
\* found: however many migrate at once, the one that applies a version applies
\* the first of its list, and the others give up.
THEOREM BackupsPrecedeUpgrades == Spec => []BackupIsPreUpgrade
  <1>1. UpgradeInv => BackupIsPreUpgrade
    BY DEF UpgradeInv, Accounted, BackupIsPreUpgrade
  <1> QED
    BY <1>1, UpgradesAccounted, PTL

----------------------------------------------------------------------------
(* The secret *)

\* The secret is that of `key` and no start is about to write another one.
Settled(key) ==
    /\ TypeOK
    /\ secret = key
    /\ \A p \in Processes : processes[p].at \notin {"generating", "writing"}

\* A start that reads a whole secret never gets to writing one.
LEMMA SettledStays ==
    ASSUME NEW key \in Processes
    PROVE  Settled(key) /\ [Next]_vars => Settled(key)'
  <1> SUFFICES ASSUME Settled(key), [Next]_vars
               PROVE  /\ secret' = secret
                      /\ \A q \in Processes :
                           processes'[q].at \notin {"generating", "writing"}
    BY StepType DEF Settled
  <1>0. TypeOK /\ secret \notin {Absent, Short}
    BY StartupAssumption DEF Settled
  <1>1. ASSUME NEW p \in Processes, NEW row, Become(p, row),
               row.at \notin {"generating", "writing"}
        PROVE  \A q \in Processes : processes'[q].at \notin {"generating", "writing"}
    BY <1>1 DEF Settled, TypeOK, Become
  <1>2. ASSUME NEW p \in Processes, Exit(p)
        PROVE  \A q \in Processes : processes'[q].at \notin {"generating", "writing"}
    <2>1. Down(processes[p].release).at = "down"
      BY DEF Down
    <2> QED
      BY <1>1, <1>2, <2>1 DEF Exit
  <1>3. ASSUME NEW p \in Processes, Step(p)
        PROVE  /\ secret' = secret
               /\ \A q \in Processes : processes'[q].at \notin {"generating", "writing"}
    <2>0. processes[p] \in Process
      BY <1>0 DEF TypeOK
    <2>1. CASE Start(p)
      <3>1. PICK release \in Releases : Become(p, [Down(release) EXCEPT !.at = "secret"])
        BY <2>1 DEF Start
      <3>2. [Down(release) EXCEPT !.at = "secret"].at = "secret"
        BY DEF Down
      <3> QED
        BY <1>1, <2>1, <3>1, <3>2 DEF Start
    <2>2. CASE ReadSecret(p)
      <3>1. Exit(p) \/ Go(p, "listing")
        BY <1>0, <2>2 DEF ReadSecret
      <3>2. [processes[p] EXCEPT !.at = "listing"].at = "listing"
        BY <2>0 DEF Process
      <3> QED
        BY <1>1, <1>2, <2>2, <3>1, <3>2 DEF ReadSecret, Go
    <2>3. CASE TruncateSecret(p) \/ WriteSecret(p)
      BY <2>3 DEF TruncateSecret, WriteSecret, At, Settled
    <2>4. CASE ListMigrations(p)
      <3> DEFINE left == PendingOf(processes[p].release)
                 row == [processes[p] EXCEPT
                           !.at = IF left = {} THEN "ready" ELSE "copying",
                           !.pending = left, !.from = Level]
      <3>1. row.at \in {"ready", "copying"}
        BY <2>0 DEF Process
      <3>2. Become(p, row) /\ secret' = secret
        BY <2>4 DEF ListMigrations
      <3> HIDE DEF row
      <3> QED
        BY <1>1, <3>1, <3>2
    <2>5. CASE Backup(p)
      <3> DEFINE row == [processes[p] EXCEPT !.at = "applying", !.copy = Level]
      <3>1. row.at = "applying"
        BY <2>0 DEF Process
      <3>2. Become(p, row) /\ secret' = secret
        BY <2>5 DEF Backup
      <3> HIDE DEF row
      <3> QED
        BY <1>1, <3>1, <3>2
    <2>6. CASE ApplyOne(p)
      <3>1. PICK v \in processes[p].pending :
              Exit(p) \/ Become(p, [processes[p] EXCEPT
                !.at = IF processes[p].pending = {v} THEN "ready" ELSE "applying",
                !.pending = processes[p].pending \ {v},
                !.moved = processes[p].moved + 1])
        BY <2>6 DEF ApplyOne
      <3> DEFINE row == [processes[p] EXCEPT
                !.at = IF processes[p].pending = {v} THEN "ready" ELSE "applying",
                !.pending = processes[p].pending \ {v},
                !.moved = processes[p].moved + 1]
      <3>2. row.at \in {"ready", "applying"}
        BY <2>0 DEF Process
      <3>3. Exit(p) \/ Become(p, row)
        BY <3>1
      <3>4. secret' = secret
        BY <2>6 DEF ApplyOne
      <3> HIDE DEF row
      <3> QED
        BY <1>1, <1>2, <3>2, <3>3, <3>4
    <2> QED
      BY <1>3, <2>1, <2>2, <2>3, <2>4, <2>5, <2>6 DEF Step
  <1>4. ASSUME NEW p \in Processes, RunBackup(p)
        PROVE  /\ secret' = secret
               /\ \A q \in Processes : processes'[q].at \notin {"generating", "writing"}
    BY <1>4 DEF RunBackup, Settled
  <1>5. ASSUME NEW p \in Processes, Finish(p) \/ Fault(p)
        PROVE  /\ secret' = secret
               /\ \A q \in Processes : processes'[q].at \notin {"generating", "writing"}
    BY <1>2, <1>5 DEF Finish, Fault
  <1>6. CASE Deploy
    BY <1>2, <1>6 DEF Deploy, Processes
  <1>7. CASE UNCHANGED vars
    BY <1>7 DEF vars, Settled
  <1> QED
    BY <1>3, <1>4, <1>5, <1>6, <1>7 DEF Next

\* The secret found when nothing runs is the secret for good: restarts, kills,
\* tools and upgrades keep the sessions it signs.
THEOREM SecretsSurvive == Spec => SecretSurvives
  <1> SUFFICES ASSUME NEW key \in Processes
               PROVE  Spec => []((secret = key /\ \A p \in Processes : At(p, "down"))
                                   => [](secret = key))
    BY DEF SecretSurvives
  <1>1. TypeOK /\ secret = key /\ (\A p \in Processes : At(p, "down")) => Settled(key)
    BY DEF Settled, At
  <1>2. Settled(key) => secret = key
    BY DEF Settled
  <1>3. Settled(key) /\ [Next]_vars => Settled(key)'
    BY SettledStays
  <1> QED
    BY <1>1, <1>2, <1>3, StartupTypeCorrect, PTL DEF Spec

----------------------------------------------------------------------------
(* The refinement *)

\* The release a process runs changes with its row.
LEMMA RunningOf ==
    ASSUME TypeOK, NEW p \in Processes, NEW row, Become(p, row)
    PROVE  Running' = [Running EXCEPT
             ![p] = IF row.at = "ready" THEN row.release ELSE 0]
  BY DEF TypeOK, Become, Running, At

LEMMA QuietRow ==
    ASSUME TypeOK, NEW p \in Processes, NEW row, Become(p, row),
           row.at # "ready", processes[p].at # "ready"
    PROVE  Running' = Running
  BY DEF TypeOK, Become, Running, At

LEMMA ExitLeaves ==
    ASSUME TypeOK, NEW p \in Processes, Exit(p), UNCHANGED <<applied, backups>>
    PROVE  Directory!UpgradeNext
  <1>1. Down(processes[p].release).at = "down"
    BY DEF Down
  <1>2. Running' = [Running EXCEPT ![p] = 0]
    BY <1>1, RunningOf DEF Exit
  <1> QED
    BY <1>2 DEF Directory!UpgradeNext, Directory!Leave

LEMMA SameLevel == Directory!Level = Level
  BY DEF Directory!Level, Level, Directory!Cardinality, Cardinality

LEMMA StepRefines ==
    UpgradeInv /\ [Next]_vars
      => Directory!UpgradeNext \/ UNCHANGED <<applied, backups, Running>>
  <1> SUFFICES ASSUME UpgradeInv, [Next]_vars
               PROVE  Directory!UpgradeNext \/ UNCHANGED <<applied, backups, Running>>
    OBVIOUS
  <1>0. TypeOK /\ Level \in 0..Newest /\ Newest \in Nat /\ applied = 1..Level
    BY AppliedFinite, StartupAssumption DEF UpgradeInv, TypeOK
  <1>1. ASSUME NEW p \in Processes, Start(p)
        PROVE  UNCHANGED <<applied, backups, Running>>
    <2>1. PICK release \in Releases : Become(p, [Down(release) EXCEPT !.at = "secret"])
      BY <1>1 DEF Start
    <2>2. [Down(release) EXCEPT !.at = "secret"].at = "secret" /\ processes[p].at = "down"
      BY <1>1 DEF Down, Start, At
    <2> QED
      BY <1>0, <1>1, <2>1, <2>2, QuietRow DEF Start
  <1>2. ASSUME NEW p \in Processes, NEW stage, Go(p, stage), stage # "ready",
               processes[p].at # "ready"
        PROVE  Running' = Running
    <2>1. [processes[p] EXCEPT !.at = stage].at = stage
      BY <1>0 DEF TypeOK, Process
    <2> QED
      BY <1>0, <1>2, <2>1, QuietRow DEF Go
  <1>3. ASSUME NEW p \in Processes, ReadSecret(p) \/ TruncateSecret(p) \/ WriteSecret(p)
        PROVE  Directory!UpgradeNext \/ UNCHANGED <<applied, backups, Running>>
    BY <1>0, <1>2, <1>3, ExitLeaves DEF ReadSecret, TruncateSecret, WriteSecret, At
  <1>4. ASSUME NEW p \in Processes, ListMigrations(p)
        PROVE  Directory!UpgradeNext \/ UNCHANGED <<applied, backups, Running>>
    <2> DEFINE r == processes[p]
               left == PendingOf(r.release)
               row == [r EXCEPT !.at = IF left = {} THEN "ready" ELSE "copying",
                                !.pending = left, !.from = Level]
    <2>1. r.release \in 1..Newest /\ r.at = "listing"
      BY <1>0, <1>4 DEF TypeOK, Process, Releases, ListMigrations, At
    <2>2. row.at = (IF left = {} THEN "ready" ELSE "copying") /\ row.release = r.release
      BY <1>0 DEF TypeOK, Process
    <2>3. Become(p, row) /\ UNCHANGED <<applied, backups>>
      BY <1>4 DEF ListMigrations
    <2> HIDE DEF row
    <2>4. CASE left = {}
      <3>1. 1..r.release \subseteq applied'
        BY <2>3, <2>4 DEF PendingOf
      <3>2. Running' = [Running EXCEPT ![p] = r.release]
        BY <1>0, <2>2, <2>3, <2>4, RunningOf
      <3> QED
        BY <2>1, <2>3, <3>1, <3>2 DEF Directory!UpgradeNext, Directory!Run
    <2>5. CASE left # {}
      BY <1>0, <2>1, <2>2, <2>3, <2>5, QuietRow
    <2> QED
      BY <2>4, <2>5
  <1>5. ASSUME NEW p \in Processes, Backup(p)
        PROVE  Directory!UpgradeNext
    <2> DEFINE row == [processes[p] EXCEPT !.at = "applying", !.copy = Level]
    <2>1. row.at = "applying" /\ processes[p].at = "copying"
      BY <1>0, <1>5 DEF TypeOK, Process, Backup, At
    <2>2. Become(p, row) /\ backups' = backups \cup {Level} /\ UNCHANGED applied
      BY <1>5 DEF Backup
    <2> HIDE DEF row
    <2>3. Running' = Running
      BY <1>0, <2>1, <2>2, QuietRow
    <2> QED
      BY <2>2, <2>3, SameLevel DEF Directory!UpgradeNext, Directory!Copy
  <1>6. ASSUME NEW p \in Processes, ApplyOne(p)
        PROVE  Directory!UpgradeNext
    <2> DEFINE r == processes[p]
    <2>1. PICK v \in r.pending :
            /\ IsNext(v, r.pending)
            /\ IF v \in applied
               THEN Exit(p) /\ UNCHANGED applied
               ELSE /\ applied' = applied \cup {v}
                    /\ Become(p, [r EXCEPT
                         !.at = IF r.pending = {v} THEN "ready" ELSE "applying",
                         !.pending = r.pending \ {v},
                         !.moved = r.moved + 1])
      BY <1>6 DEF ApplyOne
    <2>2. CASE v \in applied
      BY <1>0, <1>6, <2>1, <2>2, ExitLeaves DEF ApplyOne
    <2>3. CASE v \notin applied
      <3> DEFINE row == [r EXCEPT
                           !.at = IF r.pending = {v} THEN "ready" ELSE "applying",
                           !.pending = r.pending \ {v},
                           !.moved = r.moved + 1]
      <3>1. /\ r \in Process /\ r.from <= r.copy /\ r.copy <= Level
            /\ r.from + r.moved <= Level /\ r.copy \in backups
            /\ r.pending = (r.from + r.moved + 1)..r.release
            /\ r.at = "applying"
        BY <1>0, <1>6 DEF UpgradeInv, TypeOK, Accounted, ApplyOne, At
      <3>2. r.from + r.moved + 1 \in Nat /\ r.release \in 1..Newest
        BY <3>1 DEF Process, Releases
      <3>3. v = r.from + r.moved + 1
        <4> DEFINE first == r.from + r.moved + 1
        <4>1. v \in first..r.release /\ \A u \in first..r.release : v <= u
          BY <2>1, <3>1 DEF IsNext
        <4>2. first \in Nat /\ r.release \in Nat
          BY <1>0, <3>2
        <4> HIDE DEF first
        <4>3. v = first
          BY <4>1, <4>2
        <4> QED
          BY <4>3 DEF first
      <3>4. v \in r.pending /\ v <= r.release /\ v \in Nat
        BY <1>0, <2>1, <3>1, <3>2, <3>3
      <3>5. v = Level + 1
        BY <1>0, <2>3, <3>1, <3>2, <3>3, <3>4 DEF Process
      <3>6. Directory!Advance
        <4>1. \E c \in backups : c <= Level
          BY <3>1
        <4>2. Level < Newest
          BY <1>0, <3>2, <3>4, <3>5
        <4>3. applied' = applied \cup {Level + 1} /\ UNCHANGED backups
          BY <1>6, <2>1, <2>3, <3>5 DEF ApplyOne
        <4> QED
          BY <4>1, <4>2, <4>3, SameLevel DEF Directory!Advance
      <3>7. row.at = (IF r.pending = {v} THEN "ready" ELSE "applying")
            /\ row.release = r.release
        BY <3>1 DEF Process
      <3>8. Become(p, row)
        BY <2>1, <2>3
      <3> HIDE DEF row
      <3>9. CASE r.pending = {v}
        <4>1. r.release = v
          <5>1. r.release \in v..r.release
            BY <1>0, <3>2, <3>4
          <5>2. v..r.release = {v}
            BY <3>1, <3>3, <3>9
          <5> QED
            BY <5>1, <5>2
        <4>2. 1..r.release \subseteq applied'
          BY <1>0, <2>1, <2>3, <3>5, <4>1
        <4>3. Running' = [Running EXCEPT ![p] = r.release]
          BY <1>0, <3>7, <3>8, <3>9, RunningOf
        <4> QED
          BY <3>2, <3>6, <4>2, <4>3 DEF Directory!UpgradeNext, Directory!Run
      <3>10. CASE r.pending # {v}
        <4>1. Running' = Running
          BY <1>0, <3>1, <3>7, <3>8, <3>10, QuietRow
        <4> QED
          BY <3>6, <4>1 DEF Directory!UpgradeNext
      <3> QED
        BY <3>9, <3>10
    <2> QED
      BY <2>2, <2>3
  <1>7. ASSUME NEW p \in Processes, RunBackup(p)
        PROVE  Directory!UpgradeNext
    <2>1. Running' = Running
      BY <1>7 DEF RunBackup, Running, At
    <2> QED
      BY <1>7, <2>1, SameLevel DEF RunBackup, Directory!UpgradeNext, Directory!Copy
  <1>8. ASSUME NEW p \in Processes, Finish(p) \/ Fault(p)
        PROVE  Directory!UpgradeNext
    BY <1>0, <1>8, ExitLeaves DEF Finish, Fault
  <1>9. CASE Deploy
    BY <1>0, <1>9, ExitLeaves DEF Deploy, Processes
  <1>10. CASE UNCHANGED vars
    BY <1>10 DEF vars, Running, At
  <1> QED
    BY <1>1, <1>3, <1>4, <1>5, <1>6, <1>7, <1>8, <1>9, <1>10 DEF Next, Step

\* Starting, killing and replacing processes only ever does to the data
\* directory what Upgrade allows: versions in order, each once, none lost, a
\* copy before the first, and no release on a schema it does not know.
THEOREM StartupImplementsUpgrade == Spec => ImplementsUpgrade
  <1>1. StartupInit => Directory!UpgradeInit
    <2> SUFFICES ASSUME StartupInit PROVE Directory!UpgradeInit
      OBVIOUS
    <2>1. \A p \in Processes : processes[p].at = "down"
      BY DEF StartupInit, Down
    <2> QED
      BY <2>1 DEF StartupInit, Directory!UpgradeInit, Running, At
  <1>2. UpgradeInv /\ [Next]_vars => [Directory!UpgradeNext]_(Directory!upgradeVars)
    BY StepRefines DEF Directory!upgradeVars
  <1> QED
    BY <1>1, <1>2, UpgradesAccounted, PTL DEF Spec, ImplementsUpgrade, Directory!UpgradeSpec
============================================================================
