----------------------------- MODULE Patrimony -----------------------------
(***************************************************************************)
(* Accounts, cascade, settings and snapshots, with the net worth derived    *)
(* from them in every reachable state.                                      *)
(***************************************************************************)
EXTENDS NetWorth

CONSTANT CurveWidths  \* how many months the curve may be clipped to

Spec == AccountsInit /\ [][AccountsNext]_vars

\* The cross-column rule the schema leaves to the service: whole rows that
\* were read long ago and half-done deletions never mix the policy of one
\* type with another type (validateAccount, UpdateAccount).
PolicyFollowsType == \A a \in DOMAIN accounts : PolicyFits(accounts[a])

\* A valid cascade order is always accepted: whatever ranks stale writes and
\* changed types left behind, clearing them first keeps the partial UNIQUE
\* index satisfied (the comment of ReorderCascade).
OrderAlwaysAccepted == reply # "conflict"

\* The changes of a support add up to its value, across months without a
\* snapshot and after snapshots were corrected or deleted (prevSupportValue).
DeltasAddUp ==
    \A p \in Periods, a \in Supports :
        HasSnapshot(a, p) =>
            SumFunction([q \in Earlier(a, p) \cup {p} |-> Delta(a, q)])
              = ValueAt(a, p)

\* The synthesis shows two changes of the same month, its own and the engine's:
\* they agree on the passbooks, and where no support that was recorded before is
\* missing, the change of the total is the step of the register's curve.
SynthesisAgrees ==
    \A p \in Periods :
        /\ SubtotalDelta(p) = SumFunction([a \in Passbooks(p) |-> GrossDelta(a, p)])
        /\ \A q \in Range(DistinctPeriods) :
             (\A a \in Supports :
                 Earlier(a, p) # {} => HasSnapshot(a, p) /\ Max(Earlier(a, p)) = q)
               => TotalDelta(p) = Total(p) - (IF q < p THEN Total(q) ELSE 0)

\* The register's curves add up to the curve of the total, which the engine
\* computes another way, over any window.
CurvesAddUp ==
    \A width \in CurveWidths :
        LET window == ClipRange(DistinctPeriods, width)
        IN  \A p \in Range(window) :
              SumFunction([a \in Curves(window) |-> CurvePoint(a, p)]) = Total(p)

\* A higher gross value never gives a lower net value: the charge falls on the
\* gain, and its rounding never costs more than the gain itself.
MoreGrossMoreNet ==
    \A a \in Supports, g, h \in GrossValues :
        g <= h => SupportValue(a, g) <= SupportValue(a, h)
=============================================================================
