------------------------------ MODULE Forecast ------------------------------
(***************************************************************************)
(* The forecast screen (services/forecast.go): the envelope table of a      *)
(* scope with its footer, the figures beside it and the treasury timeline.  *)
(* A scope is one current account or all the active ones.  The parent of a  *)
(* leaf category changes nothing in the ledger, so any assignment of        *)
(* parents that the envelope form accepts may be shown.                     *)
(***************************************************************************)
EXTENDS Figures

CONSTANT Groups     \* parent category ids

\* A row of the table is an envelope or a parent, never both.
ASSUME GroupsAssumption ==
    IsFiniteSet(Groups) /\ Groups \cap (Envelopes \cup {None}) = {}

\* A parent has one flow, that of all its leaves.
Parents ==
    {parent \in [Categories -> Groups \cup {None}] :
        \A c, d \in Categories :
            parent[c] = parent[d] /\ parent[c] # None => categoryFlow[c] = categoryFlow[d]}

CurrentAccounts == Accounts \ (Savings \cup archivedAccounts)

\* The accounts a scope covers, and how the screen presents them.
SingleScopes ==
    {[accounts |-> {a}, kind |-> IF a \in Sweeps THEN "sweep" ELSE "carry"] : a \in CurrentAccounts}
Scopes == SingleScopes \cup {[accounts |-> CurrentAccounts, kind |-> "aggregated"]}

----------------------------------------------------------------------------
(* The table *)

\* Transfers and the residual line are not budget rows.
LeafEnvelopes(scope) ==
    {e \in EnvelopeIds : /\ envelopes[e].status = "active"
                         /\ envelopes[e].acc \in scope.accounts
                         /\ envelopes[e].mode # "residual"
                         /\ FlowOf(e) # "transfer"}

LeafRow(e, p) ==
    [flow |-> FlowOf(e), planned |-> Planned(e, p), real |-> Real(e, p),
     remaining |-> Remaining(e, p)]

\* A parent row sums its children and is an expense row whatever they are.
RollupParent(children, p) ==
    LET planned == SumFunction([e \in children |-> Planned(e, p)])
        real == SumFunction([e \in children |-> Real(e, p)])
    IN  [flow |-> "expense", planned |-> planned, real |-> real,
         remaining |-> planned - real]

ChildrenIn(scope, parent, g) ==
    {e \in LeafEnvelopes(scope) : parent[envelopes[e].cat] = g}

\* The aggregated table is flat, that of one account has a row per parent.
\* A row is keyed by its envelope or its parent category.
FlatRows(scope, p) == [e \in LeafEnvelopes(scope) |-> LeafRow(e, p)]

TreeRows(scope, p, parent) ==
    LET groups == {g \in Groups : ChildrenIn(scope, parent, g) # {}}
        top == ChildrenIn(scope, parent, None)
    IN  [key \in top \cup groups |->
            IF key \in top THEN LeafRow(key, p)
            ELSE RollupParent(ChildrenIn(scope, parent, key), p)]

\* The footer counts the expense rows of the table.
ExpenseTotal(rows) ==
    LET keys == {k \in DOMAIN rows : rows[k].flow = "expense"}
    IN  [planned |-> SumFunction([k \in keys |-> rows[k].planned]),
         real |-> SumFunction([k \in keys |-> rows[k].real]),
         remaining |-> SumFunction([k \in keys |-> rows[k].remaining])]

----------------------------------------------------------------------------
(* The panel and the timeline *)

LowPoints(scope, p, today, order) == {LowPoint(a, p, today, order) : a \in scope.accounts}

\* Mutant: the best account stands for the scope.
BestAccounts(scope, p, today, order) ==
    LET highest == Max(LowPoints(scope, p, today, order))
    IN  {a \in scope.accounts : LowPoint(a, p, today, order) = highest}

\* The accounts whose low point is the lowest; ties go to the first of them.
WorstAccounts(scope, p, today, order) ==
    LET lowest == Min(LowPoints(scope, p, today, order))
    IN  {a \in scope.accounts : LowPoint(a, p, today, order) = lowest}

\* The income of the month, read off the envelopes as the table does.
ReceivedIncome(a, p) ==
    LET lines == {e \in EnvelopeIds : envelopes[e].acc = a /\ FlowOf(e) = "income"}
    IN  SumFunction([e \in lines |-> Real(e, p)])

\* The transfers that fund an account, expected ones included.
IncomingTransfer(a, p) ==
    LET incoming == {t \in RowsOf(p) : transactions[t].flow = "transfer" /\ transactions[t].dest = a}
    IN  SumFunction([t \in incoming |-> -transactions[t].amount])

\* Figures: money is added up over the scope, the low point never is.  An account
\* that carries its balance over shows where it ends and what funds it; the
\* others show their income and low point.  A figure not shown is the empty set.
Panel(scope, p, today, order) ==
    LET over(f(_)) == SumFunction([a \in scope.accounts |-> f(a)])
        carry == scope.kind = "carry"
    IN  [real |-> over(LAMBDA a : RealBalance(a, p, today)),
         cleared |-> over(LAMBDA a : ClearedBalance(a, p, today)),
         inProgress |-> over(LAMBDA a : InProgress(a, p, today)),
         income |-> IF carry THEN {} ELSE {over(LAMBDA a : ReceivedIncome(a, p))},
         funding |-> IF carry THEN {over(LAMBDA a : IncomingTransfer(a, p))} ELSE {},
         end |-> IF carry THEN {over(LAMBDA a : ProjectedEnd(a, p))} ELSE {},
         low |-> IF carry THEN {}
                 ELSE {LowPoint(a, p, today, order) : a \in WorstAccounts(scope, p, today, order)}]

\* The curve drawn is that of the worst account of the scope.
TimelineCurve(scope, p, today, order) ==
    LET a == CHOOSE x \in WorstAccounts(scope, p, today, order) : TRUE
    IN  Curve(a, p, today, order)
=============================================================================
