------------------------------ MODULE NetWorth ------------------------------
(***************************************************************************)
(* The derived figures of the Patrimoine screens: the month's synthesis and *)
(* the register, with its curve.  Nothing of them is stored.                *)
(***************************************************************************)
EXTENDS Accounts, Money, FiniteSetsExt

\* The savings accounts of the screens: archived ones are left out.
Supports == {a \in DOMAIN accounts : IsSavings(accounts[a]) /\ accounts[a].active}

HasSnapshot(a, p) == <<a, p>> \in DOMAIN snapshots

Valued(p) == {a \in Supports : HasSnapshot(a, p)}

SupportValue(a, gross) ==
    IF accounts[a].type = "securities"
    THEN PEANet(gross, settings.deposit, settings.rate)
    ELSE gross

ValueAt(a, p) == SupportValue(a, snapshots[<<a, p>>])

Earlier(a, p) == {q \in Periods : q < p /\ HasSnapshot(a, q)}

\* Mutant: the first month of the scan is kept.
PrevValueOldest(a, p) == IF Earlier(a, p) = {} THEN 0 ELSE ValueAt(a, Min(Earlier(a, p)))

\* The value of the most recent earlier snapshot, 0 when there is none.
PrevValue(a, p) == IF Earlier(a, p) = {} THEN 0 ELSE ValueAt(a, Max(Earlier(a, p)))

Delta(a, p) == ValueAt(a, p) - PrevValue(a, p)

Total(p) == SumFunction([a \in Valued(p) |-> ValueAt(a, p)])
TotalDelta(p) == SumFunction([a \in Valued(p) |-> Delta(a, p)])

----------------------------------------------------------------------------
(* The synthesis: its gross changes are computed beside the engine's *)

Passbooks(p) == {a \in Valued(p) : accounts[a].type = "passbook"}

LivretsSubtotal(p) == SumFunction([a \in Passbooks(p) |-> snapshots[<<a, p>>]])
SubtotalDelta(p) == SumFunction([a \in Passbooks(p) |-> Delta(a, p)])

PreviousGross(a, p) ==
    IF Earlier(a, p) = {} THEN 0 ELSE snapshots[<<a, Max(Earlier(a, p))>>]

\* An account without a snapshot this month counts as 0.
Gross(a, p) == IF HasSnapshot(a, p) THEN snapshots[<<a, p>>] ELSE 0

\* Mutant: an account recorded for the first time has not changed.
GrossDeltaSinceFirst(a, p) ==
    IF Earlier(a, p) = {} THEN 0 ELSE Gross(a, p) - PreviousGross(a, p)

GrossDelta(a, p) == Gross(a, p) - PreviousGross(a, p)

----------------------------------------------------------------------------
(* The register *)

\* Recorded months, oldest first, and the window the curve shows of them.
DistinctPeriods == SetToSortSeq({k[2] : k \in DOMAIN snapshots}, <)

ClipRange(months, width) ==
    IF Len(months) > width
    THEN SubSeq(months, Len(months) - width + 1, Len(months))
    ELSE months

\* Mutant: recorded in the last month of the window.
InWindowLast(a, window) == window # <<>> /\ HasSnapshot(a, Last(window))

\* The curves: one of the total, one of each support recorded in the window.
InWindow(a, window) == \E p \in Range(window) : HasSnapshot(a, p)
CurvePoint(a, p) == IF HasSnapshot(a, p) THEN ValueAt(a, p) ELSE 0
Curves(window) == {a \in Supports : InWindow(a, window)}
=============================================================================
