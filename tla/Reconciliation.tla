-------------------------- MODULE Reconciliation ---------------------------
(***************************************************************************)
(* Matching an observed cleared movement against the awaited rows of a      *)
(* month: the pure decision (engine/reconcile.go) and the writes that carry *)
(* it out (services/reconcile.go).  No handler calls it yet; the tests and  *)
(* the planned bank import do.                                             *)
(***************************************************************************)
EXTENDS LedgerState

CONSTANTS
    DateWindow,         \* Tolerance.DateWindowDays
    AmountTolerance     \* Tolerance.Amount

ASSUME ToleranceAssumption == DateWindow \in Nat /\ AmountTolerance \in Nat

\* An observed movement.  The code takes its flow and its direction as they
\* come; here it is an entry, and its direction the one its flow gives, as in
\* every call the repository makes.  A leg is paired below, not reconciled.
Movement ==
    [acc : Accounts, magnitude : Magnitudes \ {0}, date : Dates,
     cat : Categories \cup {None}, flow : {"expense", "income"}, period : Periods]

Sign(amount) == IF amount < 0 THEN -1 ELSE 1

DayNumber(date) == date.period * MonthLength + date.day
SameAmount(m, n) == Magnitude(m - n) <= AmountTolerance

Near(a, b) == Magnitude(DayNumber(a) - DayNumber(b)) <= DateWindow

\* The date an awaited row is expected: its own, else the day of the recurring
\* envelope of its category and account, else the end of its month.
ExpectedDate(row) ==
    LET lines == {e \in EnvelopeIds :
                    /\ envelopes[e].mode = "fixed_recurring"
                    /\ envelopes[e].day # None
                    /\ envelopes[e].cat = row.cat
                    /\ envelopes[e].acc = row.acc}
        clamped == {IF envelopes[e].day > MonthLength THEN MonthLength ELSE envelopes[e].day :
                      e \in lines}
    IN  IF row.date # None THEN row.date
        ELSE [period |-> row.period,
              day |-> IF clamped = {} THEN MonthLength ELSE CHOOSE d \in clamped : TRUE]

\* Mutant: rows already cleared are candidates too.
AnyCandidates(p, transfers) ==
    {t \in RowsOf(p) : (transactions[t].flow = "transfer") = transfers}

\* Awaited rows of the month that are transfers, or that are not.
AwaitedCandidates(p, transfers) ==
    {t \in RowsOf(p) : /\ transactions[t].status = "awaited"
                       /\ (transactions[t].flow = "transfer") = transfers}

\* Same account, same direction, close amount, close date.
MatchesKeys(mov, t) ==
    /\ transactions[t].acc = mov.acc
    /\ Sign(transactions[t].amount) = Sign(SignedAmount(mov.flow, mov.magnitude))
    /\ SameAmount(Magnitude(transactions[t].amount), mov.magnitude)
    /\ Near(mov.date, ExpectedDate(transactions[t]))

Matches(mov) == {t \in AwaitedCandidates(mov.period, FALSE) : MatchesKeys(mov, t)}

\* One match: the awaited row becomes the cleared one and adopts the movement.
ReconcileInPlace(mov, t) ==
    UpdateRow(t, [transactions[t] EXCEPT
                    !.date = mov.date, !.status = "cleared",
                    !.amount = SignedAmount(transactions[t].flow, mov.magnitude)])

CreateCleared(mov) ==
    InsertRow([acc |-> mov.acc, dest |-> None, cat |-> mov.cat, flow |-> mov.flow,
               amount |-> SignedAmount(mov.flow, mov.magnitude), date |-> mov.date,
               period |-> mov.period, status |-> "cleared", paired |-> None])

\* Several matches write nothing: no silent guess.
ReconcileCleared(mov) ==
    /\ Editable(mov.period)
    /\ \/ \E t \in Matches(mov) : Matches(mov) = {t} /\ ReconcileInPlace(mov, t)
       \/ Matches(mov) = {} /\ CreateCleared(mov)
    /\ UNCHANGED <<monthVars, configVars, allocations>>

----------------------------------------------------------------------------
(* Transfer pairing *)

\* The awaited transfer legs of the other direction, close amount, on another
\* account, close to the observed leg.
PairMatches(leg, sign, date) ==
    {t \in AwaitedCandidates(transactions[leg].period, TRUE) \ {leg} :
        /\ transactions[t].acc # transactions[leg].acc
        /\ Sign(transactions[t].amount) = -sign
        /\ SameAmount(Magnitude(transactions[t].amount), Magnitude(transactions[leg].amount))
        /\ Near(date, ExpectedDate(transactions[t]))}

\* The code takes the leg's account, amount and month from its caller, and the
\* row by its id: "the observed leg's own row".  A caller that keeps to this
\* describes the row, save for the bank's sign and date, and names a transfer.
\* A single match links the two rows both ways.
PairInternalTransfer(leg, sign, date) ==
    /\ Editable(transactions[leg].period)
    /\ \E t \in PairMatches(leg, sign, date) :
        /\ PairMatches(leg, sign, date) = {t}
        /\ transactions' = [transactions EXCEPT ![leg].paired = t, ![t].paired = leg]
    /\ UNCHANGED <<monthVars, configVars, allocations>>
=============================================================================
