--------------------------- MODULE DerivedProofs ----------------------------
(***************************************************************************)
(* The figures agree for every set of months, accounts, envelopes and rows: *)
(* every equation between sums that Derived states, proved from the         *)
(* definitions of the figures and the types of the tables.                  *)
(***************************************************************************)
EXTENDS Derived, LedgerSafetyProofs, SumLemmas

----------------------------------------------------------------------------
(* Sums of rows *)

LEMMA SumFunctionIs ==
    ASSUME NEW f, NEW S, DOMAIN f = S
    PROVE  SumFunction(f) = SumFunctionOnSet(f, S)
  BY DEF SumFunction

RowAmounts == [t \in RowIds |-> transactions[t].amount]
AmountsFor(a) == [t \in RowIds |-> AmountFor(transactions[t], a)]

LEMMA RowSets ==
    /\ IsFiniteSet(RowIds)
    /\ \A rows \in SUBSET RowIds : IsFiniteSet(rows)
    /\ \A a, p : MovesOf(a, p) \in SUBSET RowsOf(p)
    /\ \A p : RowsOf(p) \in SUBSET RowIds
<1>1. IsFiniteSet(RowIds)
  BY LedgerAssumption, FS_Subset DEF RowIds
<1>2. \A rows \in SUBSET RowIds : IsFiniteSet(rows)
  BY <1>1, FS_Subset
<1> QED
  BY <1>1, <1>2 DEF MovesOf, RowsOf

LEMMA AmountType ==
    ASSUME TypeOK, NEW t \in RowIds, NEW a
    PROVE  transactions[t].amount \in Int /\ AmountFor(transactions[t], a) \in Int
<1>1. transactions[t].amount \in Int
  BY RowType DEF TransactionRow
<1> QED
  BY <1>1 DEF AmountFor

\* A total is the sum of one function of all rows.
LEMMA TotalForIs ==
    ASSUME TypeOK, NEW a, NEW rows \in SUBSET RowIds
    PROVE  /\ TotalFor(rows, a) = SumFunctionOnSet(AmountsFor(a), rows)
           /\ TotalFor(rows, a) \in Int
           /\ \A t \in rows : AmountsFor(a)[t] \in Int
<1> DEFINE f == [t \in rows |-> AmountFor(transactions[t], a)]
<1>1. IsFiniteSet(rows)
  BY RowSets
<1>2. \A t \in rows : f[t] = AmountsFor(a)[t] /\ AmountsFor(a)[t] \in Int
  BY AmountType DEF AmountsFor
<1>3. TotalFor(rows, a) = SumFunctionOnSet(f, rows)
  BY SumFunctionIs DEF TotalFor
<1> HIDE DEF f
<1> QED
  BY <1>1, <1>2, <1>3, SumSame, SumType


----------------------------------------------------------------------------
(* The start of a month, without recursion *)

Created == {p \in Periods : periodState[p] # "none"}

\* What a month adds to each account.
MonthTotals == [p \in Periods |-> [a \in Accounts |-> TotalFor(MovesOf(a, p), a)]]

LEMMA MonthTotalsType ==
    ASSUME TypeOK, NEW p \in Periods, NEW a \in Accounts
    PROVE  /\ MonthTotals[p][a] = TotalFor(MovesOf(a, p), a)
           /\ MonthTotals[p][a] \in Int
  BY RowSets, TotalForIs DEF MonthTotals

\* The recursive start is the balance carried over.
LEMMA StartIs ==
    ASSUME TypeOK
    PROVE  Start = CarriedOver(Periods, Accounts, Created, MonthTotals)
<1> DEFINE Rec(g) ==
      [p \in Periods |-> [a \in Accounts |->
         IF p - 1 \in Periods /\ periodState[p - 1] # "none"
         THEN g[p - 1][a] + TotalFor(MovesOf(a, p - 1), a)
         ELSE 0]]
<1>1. Start = CHOOSE g : g = Rec(g)
  BY DEF Start
<1>2. \A g : g = Rec(g) <=> Carries(Periods, Accounts, Created, MonthTotals, g)
  <2> TAKE g
  <2>1. ASSUME NEW p \in Periods, NEW a \in Accounts
        PROVE  (IF p - 1 \in Periods /\ periodState[p - 1] # "none"
                THEN g[p - 1][a] + TotalFor(MovesOf(a, p - 1), a)
                ELSE 0)
               = (IF p - 1 \in Periods /\ p - 1 \in Created
                  THEN g[p - 1][a] + MonthTotals[p - 1][a] ELSE 0)
    <3>1. p - 1 \in Created <=> p - 1 \in Periods /\ periodState[p - 1] # "none"
      BY DEF Created
    <3>2. p - 1 \in Periods => MonthTotals[p - 1][a] = TotalFor(MovesOf(a, p - 1), a)
      BY MonthTotalsType
    <3> QED
      BY <3>1, <3>2
  <2> QED
    BY <2>1 DEF Carries
<1>3. Carries(Periods, Accounts, Created, MonthTotals,
              CarriedOver(Periods, Accounts, Created, MonthTotals))
  BY LedgerAssumption, MonthTotalsType, CarriedOverCarries
<1>4. Start = Rec(Start)
  <2> HIDE DEF Rec
  <2> QED BY <1>1, <1>2, <1>3
<1>5. Carries(Periods, Accounts, Created, MonthTotals, Start)
  <2> HIDE DEF Rec
  <2> QED BY <1>2, <1>4
<1> QED
  BY <1>3, <1>5, LedgerAssumption, CarriesUnique

LEMMA ChainIs ==
    ASSUME NEW p \in Periods
    PROVE  /\ IsFiniteSet(Chain(p)) /\ Chain(p) \in SUBSET Periods
           /\ IsFiniteSet(Leads(Periods, Created, p))
           /\ Leads(Periods, Created, p) \in SUBSET Periods
           /\ p \in Chain(p) /\ Chain(p) \ {p} = Leads(Periods, Created, p)
<1> DEFINE L == Leads(Periods, Created, p)
<1>1. IsFiniteSet(L) /\ L \in SUBSET Periods /\ p \notin L
  <2>1. IsFiniteSet(L)
    BY LedgerAssumption, LeadsFinite
  <2>2. p \in Nat
    BY LedgerAssumption
  <2> QED
    BY <2>1, <2>2 DEF Leads
<1>2. Chain(p) = L \cup {p}
  <2>1. \A q \in Periods : q \in Nat
    BY LedgerAssumption
  <2>2. ASSUME NEW q \in Periods
        PROVE  (\A r \in q..(p - 1) : r \in Periods /\ periodState[r] # "none")
                 <=> (\A r \in q..(p - 1) : r \in Periods /\ r \in Created)
    BY DEF Created
  <2>3. ASSUME NEW q \in Periods PROVE q \in Chain(p) <=> q \in L \cup {p}
    <3>1. (q <= p <=> q < p \/ q = p) /\ (q = p => q..(p - 1) = {})
      BY <2>1
    <3> QED
      BY <2>2, <3>1 DEF Chain, Leads
  <2>4. Chain(p) \in SUBSET Periods
    BY DEF Chain
  <2> HIDE DEF L
  <2> QED BY <1>1, <2>3, <2>4
<1> HIDE DEF L
<1>3. IsFiniteSet(Chain(p)) /\ p \in Chain(p) /\ Chain(p) \ {p} = L /\ Chain(p) \in SUBSET Periods
  BY <1>1, <1>2, FS_AddElement
<1> QED
  BY <1>1, <1>3 DEF L

\* The start of a month is what moved in the created months that lead to it,
\* the end what moved in them and in the month itself.
LEMMA BalanceIs ==
    ASSUME TypeOK, NEW p \in Periods, NEW a \in Accounts
    PROVE  /\ Start[p][a] \in Int
           /\ ProjectedEnd(a, p)
                = SumFunctionOnSet(Column(Periods, MonthTotals, a), Chain(p))
           /\ ProjectedEnd(a, p) \in Int
<1> DEFINE L == Leads(Periods, Created, p)
           f == Column(Periods, MonthTotals, a)
<1>1. Start[p][a] = SumFunctionOnSet(f, L)
  BY StartIs DEF CarriedOver
<1>2. \A q \in Periods : f[q] \in Int /\ f[q] = TotalFor(MovesOf(a, q), a)
  BY MonthTotalsType DEF Column
<1> HIDE DEF f
<1>3. SumFunctionOnSet(f, Chain(p)) = f[p] + SumFunctionOnSet(f, L)
  <2>1. \A q \in Chain(p) : f[q] \in Int
    BY <1>2, ChainIs
  <2> QED BY <2>1, ChainIs, SumRemove
<1>4. SumFunctionOnSet(f, L) \in Int
  <2>1. \A q \in L : f[q] \in Int
    BY <1>2, ChainIs
  <2> QED BY <2>1, ChainIs, SumType
<1> HIDE DEF L
<1> QED
  BY <1>1, <1>2, <1>3, <1>4 DEF ProjectedEnd, f

----------------------------------------------------------------------------
(* Money is conserved *)

\* What a row adds to an account, 0 when it does not touch it.
Effect(t, a) == IF Touches(transactions[t], a) THEN AmountFor(transactions[t], a) ELSE 0

External(p) == {t \in RowsOf(p) : ~ Internal(transactions[t])}

LEMMA RowParts ==
    ASSUME TypeOK, NEW t \in RowIds
    PROVE  /\ transactions[t].acc \in Accounts
           /\ transactions[t].dest \in Accounts \cup {None}
           /\ transactions[t].period \in Periods
           /\ transactions[t].amount \in Int
           /\ transactions[t].flow \in Flows
           /\ transactions[t].status \in Statuses
           /\ None \notin Accounts
  BY RowType, RowAssumption DEF TransactionRow

\* A transfer inside the user's accounts adds nothing, any other row its amount.
LEMMA EffectsOfRow ==
    ASSUME TypeOK, NEW t \in RowIds
    PROVE  SumFunctionOnSet([a \in Accounts |-> Effect(t, a)], Accounts)
             = IF Internal(transactions[t]) THEN 0 ELSE transactions[t].amount
<1> DEFINE row == transactions[t]
           f == [a \in Accounts |-> Effect(t, a)]
<1> SUFFICES SumFunctionOnSet(f, Accounts) = IF Internal(row) THEN 0 ELSE row.amount
  OBVIOUS
<1>1. /\ row.acc \in Accounts /\ row.dest \in Accounts \cup {None} /\ row.amount \in Int
      /\ None \notin Accounts /\ IsFiniteSet(Accounts)
  BY RowParts, LedgerAssumption
<1>2. f[row.acc] = row.amount
  BY <1>1 DEF Effect, Touches, AmountFor
<1>3. CASE Internal(row)
  <2>1. row.dest \in Accounts \ {row.acc} /\ f[row.dest] = -row.amount
    BY <1>1, <1>3 DEF Internal, Effect, Touches, AmountFor
  <2>2. \A a \in (Accounts \ {row.acc}) \ {row.dest} : f[a] = 0
    BY DEF Effect, Touches
  <2>3. IsFiniteSet(Accounts \ {row.acc})
    BY <1>1, FS_RemoveElement
  <2>4. f[row.dest] \in Int
    BY <1>1, <2>1
  <2>5. \A a \in Accounts : f[a] \in Int
    <3> HIDE DEF f
    <3>1. \A a \in Accounts : a = row.acc \/ a = row.dest \/ f[a] = 0
      BY <2>2
    <3> QED BY <1>1, <1>2, <2>4, <3>1
  <2>6. SumFunctionOnSet(f, Accounts \ {row.acc}) = f[row.dest]
    <3> HIDE DEF f, row
    <3> QED BY <2>1, <2>2, <2>3, <2>4, SumOne
  <2>7. SumFunctionOnSet(f, Accounts) = f[row.acc] + SumFunctionOnSet(f, Accounts \ {row.acc})
    <3> HIDE DEF f, row
    <3> QED BY <1>1, <2>5, SumRemove
  <2> HIDE DEF f
  <2> QED
    BY <1>1, <1>2, <1>3, <2>1, <2>6, <2>7
<1>4. CASE ~ Internal(row)
  <2>1. \A a \in Accounts \ {row.acc} : f[a] = 0
    BY <1>1, <1>4 DEF Internal, Effect, Touches
  <2>2. SumFunctionOnSet(f, Accounts) = f[row.acc]
    <3> HIDE DEF f, row
    <3> QED BY <1>1, <1>2, <2>1, SumOne
  <2> HIDE DEF f
  <2> QED
    BY <1>2, <1>4, <2>2
<1> QED
  BY <1>3, <1>4

\* Over all accounts, a month adds what its external rows bring.
LEMMA MonthSum ==
    ASSUME TypeOK, NEW p \in Periods
    PROVE  SumFunctionOnSet([a \in Accounts |-> MonthTotals[p][a]], Accounts)
             = SumFunctionOnSet(RowAmounts, External(p))
<1> DEFINE rows == RowsOf(p)
           effect == [t \in rows |-> [a \in Accounts |-> Effect(t, a)]]
           byRow == [t \in rows |-> SumFunctionOnSet(effect[t], Accounts)]
           byAccount == [a \in Accounts |-> SumFunctionOnSet([t \in rows |-> effect[t][a]], rows)]
<1>1. IsFiniteSet(rows) /\ IsFiniteSet(Accounts) /\ rows \in SUBSET RowIds
  BY RowSets, LedgerAssumption
<1>2. \A t \in rows, a \in Accounts : effect[t][a] = Effect(t, a) /\ effect[t][a] \in Int
  BY <1>1, AmountType DEF Effect
<1>3. SumFunctionOnSet(byRow, rows) = SumFunctionOnSet(byAccount, Accounts)
  <2> HIDE DEF rows, effect
  <2> QED BY <1>1, <1>2, SumSwap
<1>4. SumFunctionOnSet(byRow, rows) = SumFunctionOnSet(RowAmounts, External(p))
  <2>1. \A t \in rows : byRow[t] = IF Internal(transactions[t]) THEN 0 ELSE transactions[t].amount
    BY <1>1, EffectsOfRow
  <2>2. \A t \in rows : RowAmounts[t] = transactions[t].amount /\ RowAmounts[t] \in Int
    BY <1>1, RowParts DEF RowAmounts
  <2>3. External(p) \in SUBSET rows /\ \A t \in rows : t \in External(p) <=> ~ Internal(transactions[t])
    BY DEF External
  <2> HIDE DEF rows, byRow
  <2>4. /\ \A t \in External(p) : RowAmounts[t] \in Int /\ byRow[t] = RowAmounts[t]
        /\ \A t \in rows \ External(p) : byRow[t] = 0
    BY <2>1, <2>2, <2>3
  <2> QED BY <1>1, <2>3, <2>4, SumRestrict
<1>5. ASSUME NEW a \in Accounts
      PROVE  byAccount[a] = MonthTotals[p][a]
  <2> DEFINE g == [t \in rows |-> effect[t][a]]
  <2>1. MovesOf(a, p) \in SUBSET rows /\ MovesOf(a, p) \in SUBSET RowIds
    BY RowSets
  <2>2. MonthTotals[p][a] = SumFunctionOnSet(AmountsFor(a), MovesOf(a, p))
    BY <2>1, TotalForIs, MonthTotalsType
  <2>3. /\ \A t \in MovesOf(a, p) : AmountsFor(a)[t] \in Int /\ g[t] = AmountsFor(a)[t]
        /\ \A t \in rows \ MovesOf(a, p) : g[t] = 0
    BY <1>1, <1>2, <2>1, AmountType DEF MovesOf, Effect, AmountsFor
  <2>4. SumFunctionOnSet(AmountsFor(a), MovesOf(a, p)) = SumFunctionOnSet(g, rows)
    <3> HIDE DEF rows, g
    <3> QED BY <1>1, <2>1, <2>3, SumRestrict
  <2> QED
    BY <2>2, <2>4
<1>6. byAccount = [a \in Accounts |-> MonthTotals[p][a]]
  <2> DEFINE e(a) == SumFunctionOnSet([t \in rows |-> effect[t][a]], rows)
  <2>1. \A a \in Accounts : e(a) = MonthTotals[p][a]
    BY <1>5
  <2> HIDE DEF e
  <2> QED BY <2>1, <1>5
<1> HIDE DEF byAccount, byRow
<1> QED
  BY <1>3, <1>4, <1>6

\* Money is conserved: what all accounts hold at the end of a month is what came
\* in and went out in it and in the created months that lead to it, whatever
\* transfers, sweeps and moved rows happened between them (engine/balances.go).
THEOREM MoneyIsConserved == Spec => []MoneyConserved
<1>1. ASSUME TypeInv PROVE MoneyConserved
  <2> USE <1>1 DEF TypeInv
  <2> SUFFICES ASSUME NEW p \in Periods
      PROVE  SumFunction([a \in Accounts |-> ProjectedEnd(a, p)])
               = SumFunction([t \in {u \in UNION {RowsOf(q) : q \in Chain(p)} :
                                        ~ Internal(transactions[u])} |-> transactions[t].amount])
    BY DEF MoneyConserved
  <2> DEFINE months == Chain(p)
             external == {t \in UNION {RowsOf(q) : q \in months} : ~ Internal(transactions[t])}
             totals == [a \in Accounts |-> Column(Periods, MonthTotals, a)]
             byAccount == [a \in Accounts |-> SumFunctionOnSet(totals[a], months)]
             byMonth == [q \in months |-> SumFunctionOnSet([a \in Accounts |-> totals[a][q]], Accounts)]
             periods == [t \in RowIds |-> transactions[t].period]
             byPeriod == [q \in months |-> SumFunctionOnSet(RowAmounts, {t \in external : periods[t] = q})]
  <2>1. IsFiniteSet(months) /\ months \in SUBSET Periods /\ IsFiniteSet(Accounts)
    BY ChainIs, LedgerAssumption
  <2>2. external \in SUBSET RowIds /\ IsFiniteSet(external)
    <3>1. external \in SUBSET RowIds
      BY DEF RowsOf
    <3> HIDE DEF external
    <3> QED BY <3>1, RowSets
  <2>3. \A a \in Accounts, q \in months :
           totals[a][q] = MonthTotals[q][a] /\ totals[a][q] \in Int
    BY <2>1, MonthTotalsType DEF Column
  <2>4. SumFunctionOnSet(byAccount, Accounts) = SumFunctionOnSet(byMonth, months)
    <3> HIDE DEF months, totals
    <3> QED BY <2>1, <2>3, SumSwap
  <2>5. SumFunctionOnSet(RowAmounts, external) = SumFunctionOnSet(byPeriod, months)
    <3>1. \A t \in external : RowAmounts[t] \in Int /\ periods[t] \in months
      BY <2>2, RowParts DEF RowAmounts, RowsOf
    <3> HIDE DEF months, external, periods
    <3> QED BY <2>1, <2>2, <3>1, SumByKey
  <2>6. ASSUME NEW q \in months PROVE byMonth[q] = byPeriod[q]
    <3>1. q \in Periods
      BY <2>1
    <3>2. [a \in Accounts |-> totals[a][q]] = [a \in Accounts |-> MonthTotals[q][a]]
      <4> HIDE DEF totals
      <4> QED BY <2>3
    <3>3. {t \in external : periods[t] = q} = External(q)
      <4>1. \A t \in external : t \in RowIds /\ periods[t] = transactions[t].period
        BY <2>2
      <4>2. \A t \in RowIds : t \in RowsOf(q) <=> transactions[t].period = q
        BY DEF RowsOf
      <4>3. \A t : t \in External(q) => t \in external
        BY DEF External
      <4>4. \A t \in external : t \in External(q) <=> t \in RowsOf(q)
        BY DEF External
      <4> HIDE DEF external, periods
      <4>5. \A t : t \in External(q) => t \in RowIds /\ t \in RowsOf(q)
        BY RowSets DEF External
      <4> QED BY <4>1, <4>2, <4>3, <4>4, <4>5
    <3>4. SumFunctionOnSet([a \in Accounts |-> MonthTotals[q][a]], Accounts)
            = SumFunctionOnSet(RowAmounts, External(q))
      BY <3>1, MonthSum
    <3>5. byMonth[q] = SumFunctionOnSet([a \in Accounts |-> totals[a][q]], Accounts)
      BY <2>6
    <3>6. byPeriod[q] = SumFunctionOnSet(RowAmounts, {t \in external : periods[t] = q})
      BY <2>6
    <3> HIDE DEF byMonth, byPeriod, totals, external, periods
    <3> QED BY <3>2, <3>3, <3>4, <3>5, <3>6
  <2>7. SumFunctionOnSet(byMonth, months) = SumFunctionOnSet(byPeriod, months)
    <3> HIDE DEF byMonth, byPeriod, months
    <3> QED BY <2>1, <2>6, SumSame
  <2>8. SumFunction([a \in Accounts |-> ProjectedEnd(a, p)]) = SumFunctionOnSet(byAccount, Accounts)
    <3> DEFINE ends == [a \in Accounts |-> ProjectedEnd(a, p)]
    <3>1. \A a \in Accounts : ends[a] = byAccount[a]
      BY BalanceIs
    <3>2. SumFunction(ends) = SumFunctionOnSet(ends, Accounts)
      BY SumFunctionIs
    <3> HIDE DEF ends, byAccount
    <3>3. SumFunctionOnSet(ends, Accounts) = SumFunctionOnSet(byAccount, Accounts)
      BY <2>1, <3>1, SumSame
    <3> QED
      BY <3>2, <3>3 DEF ends
  <2>9. SumFunction([t \in external |-> transactions[t].amount])
          = SumFunctionOnSet(RowAmounts, external)
    <3> DEFINE amounts == [t \in external |-> transactions[t].amount]
    <3>1. \A t \in external : amounts[t] = RowAmounts[t]
      BY <2>2 DEF RowAmounts
    <3>2. SumFunction(amounts) = SumFunctionOnSet(amounts, external)
      BY SumFunctionIs
    <3> HIDE DEF amounts, external
    <3>3. SumFunctionOnSet(amounts, external) = SumFunctionOnSet(RowAmounts, external)
      BY <2>2, <3>1, SumSame
    <3> QED
      BY <3>2, <3>3 DEF amounts
  <2> HIDE DEF byAccount, byMonth, byPeriod
  <2> QED
    BY <2>4, <2>5, <2>7, <2>8, <2>9
<1> QED
  BY <1>1, TypeInvariant, PTL

----------------------------------------------------------------------------
(* A movement counts once *)

Tables == [TxnIds -> TransactionRow \cup {None}]

\* What a row adds to the cleared total of an account.
ClearedAmount(table, t, a) ==
    IF table[t] # None /\ table[t].acc = a /\ table[t].status = "cleared"
    THEN table[t].amount ELSE 0

LEMMA ClearedAmountType ==
    ASSUME NEW table \in Tables, NEW t \in TxnIds, NEW a
    PROVE  ClearedAmount(table, t, a) \in Int
  BY DEF ClearedAmount, Tables, TransactionRow

LEMMA ClearedTotalIs ==
    ASSUME NEW table \in Tables, NEW a
    PROVE  ClearedTotal(table, a)
             = SumFunctionOnSet([t \in TxnIds |-> ClearedAmount(table, t, a)], TxnIds)
<1> DEFINE rows == {t \in TxnIds : table[t] # None /\ table[t].acc = a /\ table[t].status = "cleared"}
           f == [t \in rows |-> table[t].amount]
           g == [t \in TxnIds |-> ClearedAmount(table, t, a)]
<1>1. rows \in SUBSET TxnIds /\ IsFiniteSet(TxnIds)
  BY LedgerAssumption
<1>2. /\ \A t \in rows : f[t] \in Int /\ g[t] = f[t]
      /\ \A t \in TxnIds \ rows : g[t] = 0
  BY DEF ClearedAmount, Tables, TransactionRow
<1>3. ClearedTotal(table, a) = SumFunctionOnSet(f, rows)
  BY SumFunctionIs DEF ClearedTotal
<1>4. SumFunctionOnSet(f, rows) = SumFunctionOnSet(g, TxnIds)
  <2> HIDE DEF f, g, rows
  <2> QED BY <1>1, <1>2, SumRestrict
<1> QED
  BY <1>3, <1>4

\* One row changes: the total moves by what it adds then and added before.
LEMMA ClearedTotalStep ==
    ASSUME NEW old \in Tables, NEW new \in Tables, NEW t \in TxnIds, NEW a,
           \A u \in TxnIds \ {t} : new[u] = old[u]
    PROVE  ClearedTotal(new, a) - ClearedTotal(old, a)
             = ClearedAmount(new, t, a) - ClearedAmount(old, t, a)
<1> DEFINE f == [u \in TxnIds |-> ClearedAmount(old, u, a)]
           g == [u \in TxnIds |-> ClearedAmount(new, u, a)]
<1>1. \A u \in TxnIds : f[u] \in Int /\ g[u] \in Int
  BY ClearedAmountType
<1>2. \A u \in TxnIds \ {t} : f[u] = g[u]
  BY DEF ClearedAmount
<1>3. IsFiniteSet(TxnIds) /\ IsFiniteSet(TxnIds \ {t})
  BY LedgerAssumption, FS_RemoveElement
<1>4. ClearedTotal(old, a) = SumFunctionOnSet(f, TxnIds) /\ ClearedTotal(new, a) = SumFunctionOnSet(g, TxnIds)
  BY ClearedTotalIs
<1>5. f[t] = ClearedAmount(old, t, a) /\ g[t] = ClearedAmount(new, t, a)
  OBVIOUS
<1> HIDE DEF f, g
<1>6. /\ SumFunctionOnSet(f, TxnIds) = f[t] + SumFunctionOnSet(f, TxnIds \ {t})
      /\ SumFunctionOnSet(g, TxnIds) = g[t] + SumFunctionOnSet(g, TxnIds \ {t})
  BY <1>1, <1>3, SumRemove
<1>7. SumFunctionOnSet(f, TxnIds \ {t}) = SumFunctionOnSet(g, TxnIds \ {t})
  BY <1>2, <1>3, SumSame
<1>8. SumFunctionOnSet(f, TxnIds \ {t}) \in Int /\ f[t] \in Int /\ g[t] \in Int
  BY <1>1, <1>3, SumType
<1> QED
  BY <1>4, <1>5, <1>6, <1>7, <1>8

LEMMA ReconcileCounts ==
    ASSUME TypeInv, SignMatchesFlow, NEW mov \in Movements, ReconcileCleared(mov),
           NEW a \in Accounts
    PROVE  ClearedTotal(transactions', a) - ClearedTotal(transactions, a)
             = IF a = mov.acc THEN SignedAmount(mov.flow, mov.magnitude) ELSE 0
<1> DEFINE amount == SignedAmount(mov.flow, mov.magnitude)
<1> SUFFICES ClearedTotal(transactions', a) - ClearedTotal(transactions, a)
               = IF a = mov.acc THEN amount ELSE 0
  OBVIOUS
<1>1. /\ mov \in Movement /\ mov.magnitude \in Nat \ {0} /\ mov.flow \in {"expense", "income"}
      /\ amount \in Int
  BY InputAssumption, MagnitudesNat, SignedAmountType DEF Movement, Flows
<1>2. transactions \in Tables /\ transactions' \in Tables
  BY ReconcileClearedType DEF TypeInv, TypeOK, Tables
<1>3. ASSUME NEW t \in TxnIds, \A u \in TxnIds \ {t} : transactions'[u] = transactions[u],
             transactions'[t] # None, transactions'[t].acc = mov.acc,
             transactions'[t].status = "cleared", transactions'[t].amount = amount,
             transactions[t] = None \/ transactions[t].status # "cleared"
      PROVE  ClearedTotal(transactions', a) - ClearedTotal(transactions, a)
               = IF a = mov.acc THEN amount ELSE 0
  <2>1. ClearedAmount(transactions, t, a) = 0
    BY <1>3 DEF ClearedAmount
  <2>2. ClearedAmount(transactions', t, a) = IF a = mov.acc THEN amount ELSE 0
    BY <1>3 DEF ClearedAmount
  <2>3. ClearedTotal(transactions', a) - ClearedTotal(transactions, a)
          = ClearedAmount(transactions', t, a) - ClearedAmount(transactions, t, a)
    BY <1>2, <1>3, ClearedTotalStep
  <2> HIDE DEF amount
  <2> QED
    BY <1>1, <2>1, <2>2, <2>3
<1>4. CASE \E t \in Matches(mov) : ReconcileInPlace(mov, t)
  <2> PICK t \in Matches(mov) : ReconcileInPlace(mov, t)
    BY <1>4
  <2>1. /\ t \in RowIds /\ t \in TxnIds /\ transactions[t] \in TransactionRow
        /\ transactions[t].status = "awaited" /\ transactions[t].flow # "transfer"
        /\ transactions[t].acc = mov.acc
        /\ Sign(transactions[t].amount) = Sign(amount)
    BY RowType DEF TypeInv, Matches, AwaitedCandidates, RowsOf, MatchesKeys
  <2>2. transactions[t].flow = mov.flow
    <3>1. /\ transactions[t].amount \in Int /\ transactions[t].flow \in {"expense", "income"}
          /\ transactions[t].amount # 0
          /\ (transactions[t].amount > 0) = (transactions[t].flow = "income")
      BY <2>1 DEF TransactionRow, Flows, SignMatchesFlow
    <3>2. amount # 0 /\ (amount > 0) = (mov.flow = "income")
      BY <1>1 DEF SignedAmount
    <3> HIDE DEF amount
    <3> QED
      BY <1>1, <2>1, <3>1, <3>2 DEF Sign
  <2>3. transactions' = [transactions EXCEPT ![t] =
            [transactions[t] EXCEPT !.date = mov.date, !.status = "cleared", !.amount = amount]]
    BY <2>2 DEF ReconcileInPlace, UpdateRow
  <2>4. transactions'[t] = [transactions[t] EXCEPT !.date = mov.date, !.status = "cleared",
                                                   !.amount = amount]
    BY <1>2, <2>1, <2>3 DEF Tables
  <2>5. /\ transactions'[t].acc = mov.acc /\ transactions'[t].status = "cleared"
        /\ transactions'[t].amount = amount
    BY <2>1, <2>4 DEF TransactionRow
  <2>6. transactions'[t] # None
    <3>1. transactions'[t] \in TransactionRow
      <4> HIDE DEF amount
      <4> QED BY <1>1, <2>1, <2>4 DEF TransactionRow, Movement, Statuses
    <3> QED BY <3>1, RowAssumption
  <2>7. \A u \in TxnIds \ {t} : transactions'[u] = transactions[u]
    BY <1>2, <2>3 DEF Tables
  <2> QED
    BY <1>3, <2>1, <2>5, <2>6, <2>7
<1>5. CASE CreateCleared(mov)
  <2> DEFINE row == [acc |-> mov.acc, dest |-> None, cat |-> mov.cat, flow |-> mov.flow,
                     amount |-> amount, date |-> mov.date,
                     period |-> mov.period, status |-> "cleared", paired |-> None]
  <2>1. PICK t \in TxnIds \ RowIds : transactions' = [transactions EXCEPT ![t] = row]
    BY <1>5 DEF CreateCleared, InsertRow
  <2>2. transactions[t] = None
    BY <2>1 DEF RowIds
  <2>3. transactions'[t] = row /\ \A u \in TxnIds \ {t} : transactions'[u] = transactions[u]
    BY <1>2, <2>1 DEF Tables
  <2>4. row \in TransactionRow
    BY <1>1 DEF TransactionRow, Movement, Statuses, Flows
  <2>5. row # None /\ row.acc = mov.acc /\ row.status = "cleared" /\ row.amount = amount
    BY <2>4, RowAssumption
  <2> HIDE DEF row, amount
  <2> QED
    BY <1>3, <2>2, <2>3, <2>5
<1> QED
  BY <1>4, <1>5 DEF ReconcileCleared

\* Reconciling a movement counts it once: the cleared total of its account moves
\* by exactly the movement and no other does, whether an awaited row absorbs it
\* or a new row is inserted (services/reconcile.go ReconcileCleared).
THEOREM MovementsCountOnce == Spec => ReconcileCountsOnce
<1>1. TypeInv /\ SignMatchesFlow /\ [Next]_vars =>
        [\A mov \in Movements : ReconcileCleared(mov) =>
           \A a \in Accounts :
             ClearedTotal(transactions', a) - ClearedTotal(transactions, a)
               = IF a = mov.acc THEN SignedAmount(mov.flow, mov.magnitude) ELSE 0]_vars
  BY ReconcileCounts
<1> QED
  BY <1>1, TypeInvariant, SignsFollowFlows, PTL DEF Spec, ReconcileCountsOnce

----------------------------------------------------------------------------
(* What the figures are, before and after a step *)

FigureFacts ==
    /\ Start = CarriedOver(Periods, Accounts, Created, MonthTotals)
    /\ \A a : \A rows \in SUBSET RowIds :
          /\ TotalFor(rows, a) = SumFunctionOnSet(AmountsFor(a), rows)
          /\ TotalFor(rows, a) \in Int
          /\ \A t \in rows : AmountsFor(a)[t] \in Int
    /\ \A p \in Periods, a \in Accounts :
          /\ MonthTotals[p][a] = TotalFor(MovesOf(a, p), a)
          /\ MonthTotals[p][a] \in Int
          /\ Start[p][a] \in Int
    /\ IsFiniteSet(RowIds)
    /\ \A rows \in SUBSET RowIds : IsFiniteSet(rows)

LEMMA FiguresBefore == TypeOK => FigureFacts
  BY StartIs, TotalForIs, MonthTotalsType, BalanceIs, RowSets DEF FigureFacts

LEMMA FiguresAfter == (TypeOK => FigureFacts)'
  BY FiguresBefore, PTL

\* A step that spares a month leaves its rows and its totals as they were.
LEMMA SparedTotals ==
    ASSUME NEW q \in Periods, Spares(q), NEW a
    PROVE  /\ RowsOf(q)' = RowsOf(q)
           /\ \A t \in RowsOf(q) : transactions'[t] = transactions[t]
           /\ TotalFor(MovesOf(a, q), a)' = TotalFor(MovesOf(a, q), a)
<1>1. RowsOf(q)' = RowsOf(q) /\ \A t \in RowsOf(q) : transactions'[t] = transactions[t]
  BY DEF Spares, RowsOf, RowIds
<1>2. MovesOf(a, q)' = MovesOf(a, q)
  BY <1>1 DEF MovesOf
<1>3. \A t \in MovesOf(a, q) : transactions'[t] = transactions[t]
  BY <1>1 DEF MovesOf
<1>4. [t \in MovesOf(a, q)' |-> AmountFor(transactions'[t], a)]
        = [t \in MovesOf(a, q) |-> AmountFor(transactions[t], a)]
  BY <1>2, <1>3
<1>5. TotalFor(MovesOf(a, q), a)'
        = SumFunction([t \in MovesOf(a, q)' |-> AmountFor(transactions'[t], a)])
  BY DEF TotalFor, AmountFor
<1>6. TotalFor(MovesOf(a, q), a) = SumFunction([t \in MovesOf(a, q) |-> AmountFor(transactions[t], a)])
  BY DEF TotalFor
<1>7. TotalFor(MovesOf(a, q), a)' = TotalFor(MovesOf(a, q), a)
  BY <1>4, <1>5, <1>6
<1> QED
  BY <1>1, <1>7

\* A step that spares the months before p leaves the start of p as it was.
LEMMA SparedStart ==
    ASSUME TypeOK, TypeOK', NEW p \in Periods, NEW a \in Accounts,
           \A q \in Periods : q < p => Spares(q) /\ periodState'[q] = periodState[q]
    PROVE  Start'[p][a] = Start[p][a]
<1> DEFINE L == Leads(Periods, Created, p)
           M == Leads(Periods, Created', p)
<1>1. /\ Start[p][a] = SumFunctionOnSet(Column(Periods, MonthTotals, a), L)
      /\ Start'[p][a] = SumFunctionOnSet(Column(Periods, MonthTotals', a), M)
  BY FiguresBefore, FiguresAfter DEF FigureFacts, CarriedOver
<1>2. L = M
  <2>1. \A q \in Periods : q < p => (q \in Created <=> q \in Created')
    BY DEF Created
  <2>2. \A q \in Periods : q \in Nat
    BY LedgerAssumption
  <2>3. ASSUME NEW q \in Periods, NEW r \in q..(p - 1)
        PROVE  r \in Periods /\ r \in Created <=> r \in Periods /\ r \in Created'
    BY <2>1, <2>2
  <2> QED
    BY <2>3 DEF Leads
<1>3. ASSUME NEW q \in L
      PROVE  Column(Periods, MonthTotals, a)[q] = Column(Periods, MonthTotals', a)[q]
  <2>1. q \in Periods /\ q < p
    BY DEF Leads
  <2>2. TotalFor(MovesOf(a, q), a)' = TotalFor(MovesOf(a, q), a)
    BY <2>1, SparedTotals
  <2>3. MonthTotals[q][a] = TotalFor(MovesOf(a, q), a) /\ MonthTotals'[q][a] = TotalFor(MovesOf(a, q), a)'
    BY <2>1, FiguresBefore, FiguresAfter DEF FigureFacts
  <2> QED
    BY <2>1, <2>2, <2>3 DEF Column
<1>4. IsFiniteSet(L)
  BY ChainIs
<1> HIDE DEF L, M
<1> QED
  BY <1>1, <1>2, <1>3, <1>4, SumSame

----------------------------------------------------------------------------
(* The assistant keeps its preview *)

LEMMA CreateMonthKeepsPreview ==
    ASSUME TypeInv, TypeOK, TypeInv', NEW p \in Periods, NEW override \in Overrides,
           CreateMonth(p, override), \A e \in Envelopes : allocations[e][p] = None,
           NEW a \in Sweeps
    PROVE  (SavingsProjected(a, p))' = DraftProjected(a, p, override)
<1> DEFINE posts == DraftPosts(p)
           amount == [e \in posts |->
                        IF override[e] # None THEN override[e] ELSE DefaultMagnitude(e)]
<1>1. a \in Accounts
  BY FiguresAssumption
<1>2. /\ Materialise(posts, p, amount) /\ UNCHANGED configVars
      /\ periodState' = [periodState EXCEPT ![p] = "active"]
  BY DEF CreateMonth
<1>3. Start'[p][a] = Start[p][a]
  <2>1. ASSUME NEW q \in Periods, q < p
        PROVE  Spares(q) /\ periodState'[q] = periodState[q]
    <3>1. q \in Periods \ {p}
      BY <2>1, LedgerAssumption
    <3>2. Spares(q)
      <4> HIDE DEF posts, amount
      <4> QED BY <1>2, <3>1, MaterialiseSpares
    <3> QED
      BY <1>2, <3>1, <3>2 DEF TypeOK
  <2> QED
    BY <1>1, <2>1, SparedStart DEF TypeInv
<1>4. \A e \in Envelopes :
        Planned(e, p)' = IF e \in posts /\ HasAllocation(e) THEN amount[e] ELSE 0
  <2> TAKE e \in Envelopes
  <2>1. allocations'[e][p] = IF e \in posts /\ HasAllocation(e) THEN amount[e] ELSE allocations[e][p]
    BY <1>2 DEF Materialise, TypeOK
  <2>2. Planned(e, p)' = IF allocations'[e][p] = None THEN 0 ELSE allocations'[e][p]
    BY DEF Planned
  <2>3. e \in posts => (amount[e] = None => amount[e] = 0)
    BY DEF DefaultMagnitude
  <2> HIDE DEF posts, amount
  <2> QED
    BY <2>1, <2>2, <2>3
<1>5. /\ EnvelopeIds' = EnvelopeIds /\ envelopes' = envelopes
      /\ \A e : FlowOf(e)' = FlowOf(e)
  BY <1>2 DEF configVars, EnvelopeIds, FlowOf
<1> DEFINE shown == [e \in Envelopes |-> IF e \in posts /\ HasAllocation(e) THEN amount[e] ELSE 0]
<1>6. [e \in Envelopes |-> Planned(e, p)'] = shown
  BY <1>4
<1>7. DraftProjected(a, p, override) = SavingsPlan(a, Start[p][a], shown)
  <2> DEFINE typed(e) == IF override[e] # None THEN override[e] ELSE DefaultMagnitude(e)
             lines == {e \in posts : HasAllocation(e)}
  <2>1. DraftProjected(a, p, override)
          = SavingsPlan(a, Start[p][a], [e \in Envelopes |-> IF e \in lines THEN typed(e) ELSE 0])
    BY DEF DraftProjected
  <2>2. [e \in Envelopes |-> IF e \in lines THEN typed(e) ELSE 0] = shown
    <3>1. \A e \in Envelopes : (IF e \in lines THEN typed(e) ELSE 0)
                                 = IF e \in posts /\ HasAllocation(e) THEN amount[e] ELSE 0
      OBVIOUS
    <3> QED BY <3>1
  <2> QED
    BY <2>1, <2>2
<1>8. (SavingsProjected(a, p))' = SavingsPlan(a, Start[p][a], shown)
  <2> DEFINE linesAfter(flow) ==
               {e \in EnvelopeIds' : envelopes'[e].acc = a /\ FlowOf(e)' = flow}
             lines(flow) == {e \in EnvelopeIds : envelopes[e].acc = a /\ FlowOf(e) = flow}
             plannedAfter == [e \in Envelopes |-> Planned(e, p)']
  <2>1. (SavingsProjected(a, p))'
          = Start'[p][a] + SumFunctionOnSet(plannedAfter, linesAfter("income"))
                         - SumFunctionOnSet(plannedAfter, linesAfter("expense"))
    BY DEF SavingsProjected, SavingsPlan
  <2>2. linesAfter("income") = lines("income") /\ linesAfter("expense") = lines("expense")
    BY <1>5
  <2>3. SavingsPlan(a, Start[p][a], shown)
          = Start[p][a] + SumFunctionOnSet(shown, lines("income"))
                        - SumFunctionOnSet(shown, lines("expense"))
    BY DEF SavingsPlan
  <2> HIDE DEF lines, linesAfter, shown
  <2> QED
    BY <1>3, <1>6, <2>1, <2>2, <2>3
<1> QED
  BY <1>7, <1>8

\* What the assistant previews is what the month gets: creating it with the
\* amounts on screen gives the residual shown beside them, unless an envelope
\* was allocated before the month existed (services/monthinit.go CreateMonth).
THEOREM PreviewIsKept == Spec => PreviewKept
<1>1. ASSUME TypeInv, [Next]_vars, NEW p \in Periods, NEW override \in Overrides,
             CreateMonth(p, override), \A e \in Envelopes : allocations[e][p] = None,
             NEW a \in Sweeps
      PROVE  (SavingsProjected(a, p))' = DraftProjected(a, p, override)
  <2>1. TypeInv' /\ TypeOK
    BY <1>1, NextType DEF TypeInv
  <2> QED
    BY <1>1, <2>1, CreateMonthKeepsPreview
<1>2. TypeInv /\ [Next]_vars =>
        [\A p \in Periods, override \in Overrides :
          (CreateMonth(p, override) /\ \A e \in Envelopes : allocations[e][p] = None)
          => \A a \in Sweeps : (SavingsProjected(a, p))' = DraftProjected(a, p, override)]_vars
  BY <1>1
<1> QED
  BY <1>2, TypeInvariant, PTL DEF Spec, PreviewKept

----------------------------------------------------------------------------
(* The sweep settles *)

ClearedMoves(a, p) == {t \in MovesOf(a, p) : transactions[t].status = "cleared"}

SweepRow(a, v, p, today) ==
    [acc |-> a, dest |-> v, cat |-> None, flow |-> "transfer", amount |-> -ToSave(a, p),
     date |-> today, period |-> p, status |-> "cleared", paired |-> None]

\* The step adds one row and changes no other.
Adds(t, row) ==
    /\ t \in TxnIds \ RowIds /\ InsertRow(row)
    /\ transactions'[t] = row /\ transactions[t] = None /\ row # None
    /\ \A u \in TxnIds \ {t} : transactions'[u] = transactions[u]

\* The target of the cascade is a vehicle that is open.
LEMMA TargetIsOpen ==
    ASSUME NEW p, NEW gross, NEW v \in CascadeTarget(p, gross)
    PROVE  v \in Savings \ archivedAccounts /\ ~VehicleFull(v, p, gross)
<1>1. PICK n \in DOMAIN Cascade : v = Cascade[n] /\ Cascade[n] \notin archivedAccounts
                                  /\ ~VehicleFull(Cascade[n], p, gross)
  BY DEF CascadeTarget
<1>2. Cascade[n] \in Savings
  BY FiguresAssumption
<1> QED
  BY <1>1, <1>2

LEMMA SweepInserts ==
    ASSUME TypeOK, NEW a \in Sweeps, NEW p \in Periods, NEW today \in Dates, NEW gross,
           SweepResidual(a, p, today, gross), transactions' # transactions
    PROVE  /\ ToSave(a, p) > 0 /\ UNCHANGED <<periodState, allocations>>
           /\ \E v \in CascadeTarget(p, gross) : \E t : Adds(t, SweepRow(a, v, p, today))
<1>1. PICK v \in CascadeTarget(p, gross) : EndOfMonthTransfer(a, v, p, ToSave(a, p), today)
  BY DEF SweepResidual
<1> DEFINE row == SweepRow(a, v, p, today)
<1>2. InsertRow(row) /\ UNCHANGED <<periodState, allocations>>
  BY <1>1 DEF EndOfMonthTransfer, SweepRow, monthVars
<1> HIDE DEF row
<1>3. PICK t \in TxnIds \ RowIds : transactions' = [transactions EXCEPT ![t] = row]
  BY <1>2 DEF InsertRow
<1>4. /\ transactions'[t] = row /\ transactions[t] = None
      /\ \A u \in TxnIds \ {t} : transactions'[u] = transactions[u]
  BY <1>3 DEF TypeOK, RowIds
<1>5. row # None
  BY <1>3, <1>4 DEF TypeOK
<1>6. Adds(t, row)
  BY <1>2, <1>4, <1>5 DEF Adds
<1> QED
  BY <1>1, <1>2, <1>6 DEF SweepResidual, row

LEMMA SweepLeavesNothing ==
    ASSUME TypeInv, TypeOK, TypeOK', NEW a \in Sweeps, NEW v, NEW p \in Periods, NEW today,
           NEW t, Adds(t, SweepRow(a, v, p, today)), UNCHANGED <<periodState, allocations>>
    PROVE  (ToSave(a, p))' = 0 /\ ToSave(a, p) \in Int
<1> DEFINE amount == ToSave(a, p)
           row == SweepRow(a, v, p, today)
           old == ClearedMoves(a, p)
           new == ClearedMoves(a, p)'
           f == AmountsFor(a)
           g == AmountsFor(a)'
<1>1. /\ a \in Accounts /\ amount = Start[p][a] + SumFunctionOnSet(f, old)
      /\ Start[p][a] \in Int /\ SumFunctionOnSet(f, old) \in Int /\ old \in SUBSET RowIds
      /\ amount \in Int
  <2>1. a \in Accounts /\ old \in SUBSET RowIds
    BY FiguresAssumption, RowSets DEF ClearedMoves
  <2>2. Start[p][a] \in Int /\ TotalFor(old, a) \in Int /\ TotalFor(old, a) = SumFunctionOnSet(f, old)
    BY <2>1, FiguresBefore DEF FigureFacts
  <2> QED
    BY <2>1, <2>2 DEF ToSave, ClearedMoves
<1>2. /\ transactions'[t] = row /\ transactions[t] = None /\ row # None
      /\ \A u \in TxnIds \ {t} : transactions'[u] = transactions[u]
      /\ t \in TxnIds /\ t \notin RowIds /\ InsertRow(row)
  BY DEF Adds
<1>3. /\ row.acc = a /\ row.amount = -amount /\ row.period = p /\ row.status = "cleared"
  BY DEF SweepRow
<1>4. ASSUME NEW q \in Periods, q < p
      PROVE  Spares(q) /\ periodState'[q] = periodState[q]
  <2>1. row.period # q
    BY <1>3, <1>4, LedgerAssumption
  <2> HIDE DEF row
  <2> QED
    BY <1>2, <2>1, InsertRowSpares
<1>5. Start'[p][a] = Start[p][a]
  BY <1>1, <1>4, SparedStart
<1> HIDE DEF row, amount
<1>6. new = old \cup {t} /\ t \notin old
  <2>1. t \in new /\ t \notin old
    BY <1>2, <1>3 DEF ClearedMoves, MovesOf, RowsOf, RowIds, Touches
  <2>2. \A u \in TxnIds \ {t} : u \in new <=> u \in old
    BY <1>2 DEF ClearedMoves, MovesOf, RowsOf, RowIds, Touches
  <2>3. new \subseteq TxnIds /\ old \subseteq TxnIds
    BY DEF ClearedMoves, MovesOf, RowsOf, RowIds
  <2> QED
    BY <2>1, <2>2, <2>3
<1>7. new \in SUBSET RowIds' /\ IsFiniteSet(new) /\ IsFiniteSet(old)
  <2>1. new \in SUBSET RowIds'
    BY DEF ClearedMoves, MovesOf, RowsOf
  <2> QED
    BY <1>1, <2>1, FiguresBefore, FiguresAfter DEF FigureFacts
<1>8. /\ \A u \in new : g[u] \in Int
      /\ (ToSave(a, p))' = Start'[p][a] + SumFunctionOnSet(g, new)
  <2>1. \A rows \in SUBSET RowIds' :
          /\ TotalFor(rows, a)' = SumFunctionOnSet(g, rows)
          /\ \A u \in rows : g[u] \in Int
    BY FiguresAfter DEF FigureFacts
  <2>2. \A rows : TotalFor(rows, a)' = SumFunction([u \in rows |-> AmountFor(transactions'[u], a)])
    BY DEF TotalFor, AmountFor
  <2>3. (ToSave(a, p))' = Start'[p][a] + SumFunction([u \in new |-> AmountFor(transactions'[u], a)])
    BY DEF ToSave, ClearedMoves, TotalFor, AmountFor
  <2> HIDE DEF g, new
  <2> QED
    BY <1>7, <2>1, <2>2, <2>3
<1>9. g[t] = -amount
  BY <1>2, <1>3 DEF AmountsFor, AmountFor, RowIds
<1>10. ASSUME NEW u \in old PROVE g[u] = f[u]
  <2>1. u \in TxnIds \ {t} /\ u \in RowIds /\ u \in RowIds'
    BY <1>1, <1>2, <1>6 DEF RowIds
  <2> QED
    BY <1>2, <2>1 DEF AmountsFor, AmountFor
<1> HIDE DEF f, g, old, new
<1>11. SumFunctionOnSet(g, new) = g[t] + SumFunctionOnSet(g, old)
  <2>1. t \in new /\ new \ {t} = old
    BY <1>6
  <2>2. SumFunctionOnSet(g, new) = g[t] + SumFunctionOnSet(g, new \ {t})
    BY <1>7, <1>8, <2>1, SumRemove
  <2> QED
    BY <2>1, <2>2
<1>12. SumFunctionOnSet(g, old) = SumFunctionOnSet(f, old)
  BY <1>7, <1>10, SumSame
<1>13. (ToSave(a, p))' = 0
  BY <1>1, <1>5, <1>8, <1>9, <1>11, <1>12
<1> QED
  BY <1>1, <1>13 DEF amount

\* What a vehicle receives in a month.
Incoming(v, p) ==
    {t \in RowsOf(p) : /\ transactions[t].flow = "transfer"
                       /\ transactions[t].status = "cleared"
                       /\ transactions[t].dest = v}
Sent == [t \in RowIds |-> -transactions[t].amount]

VehicleFacts ==
    \A v \in Savings, p \in Periods, gross \in Snapshots :
        /\ Incoming(v, p) \in SUBSET RowIds /\ IsFiniteSet(Incoming(v, p))
        /\ \A t \in Incoming(v, p) : Sent[t] \in Int
        /\ SumFunctionOnSet(Sent, Incoming(v, p)) \in Int
        /\ VehicleBalance(v, p, gross) = gross[v] + SumFunctionOnSet(Sent, Incoming(v, p))

LEMMA VehiclesBefore == TypeOK => VehicleFacts
<1> SUFFICES ASSUME TypeOK, NEW v \in Savings, NEW p \in Periods, NEW gross \in Snapshots
      PROVE  /\ Incoming(v, p) \in SUBSET RowIds /\ IsFiniteSet(Incoming(v, p))
             /\ \A t \in Incoming(v, p) : Sent[t] \in Int
             /\ SumFunctionOnSet(Sent, Incoming(v, p)) \in Int
             /\ VehicleBalance(v, p, gross) = gross[v] + SumFunctionOnSet(Sent, Incoming(v, p))
  BY DEF VehicleFacts
<1> DEFINE rows == Incoming(v, p)
           f == [t \in rows |-> -transactions[t].amount]
<1>1. rows \in SUBSET RowIds
  BY RowSets DEF Incoming
<1>2. IsFiniteSet(rows)
  BY <1>1, RowSets
<1>3. \A t \in rows : Sent[t] = f[t] /\ Sent[t] \in Int
  BY <1>1, AmountType DEF Sent
<1>4. VehicleBalance(v, p, gross) = gross[v] + SumFunction(f)
  BY DEF VehicleBalance, Incoming
<1>5. SumFunction(f) = SumFunctionOnSet(f, rows)
  BY SumFunctionIs
<1> HIDE DEF f, rows
<1>6. SumFunctionOnSet(f, rows) = SumFunctionOnSet(Sent, rows)
  BY <1>2, <1>3, SumSame
<1>7. SumFunctionOnSet(Sent, rows) \in Int
  BY <1>2, <1>3, SumType
<1> QED
  BY <1>1, <1>2, <1>3, <1>4, <1>5, <1>6, <1>7 DEF rows

LEMMA VehiclesAfter == (TypeOK => VehicleFacts)'
  BY VehiclesBefore, PTL

\* The vehicle gains what the account gives up, and no other vehicle gains.
LEMMA SweepFillsOne ==
    ASSUME TypeOK, TypeOK', NEW a \in Sweeps, NEW v, NEW p \in Periods, NEW today, ToSave(a, p) \in Int,
           NEW t, Adds(t, SweepRow(a, v, p, today)), NEW gross \in Snapshots, NEW w \in Savings
    PROVE  (VehicleBalance(w, p, gross))' - VehicleBalance(w, p, gross)
             = IF w = v THEN ToSave(a, p) ELSE 0
<1> DEFINE amount == ToSave(a, p)
           row == SweepRow(a, v, p, today)
           old == Incoming(w, p)
           new == Incoming(w, p)'
           f == Sent
           g == Sent'
<1>1. /\ transactions'[t] = row /\ transactions[t] = None /\ row # None
      /\ \A u \in TxnIds \ {t} : transactions'[u] = transactions[u]
      /\ t \in TxnIds /\ t \notin RowIds
  BY DEF Adds
<1>2. /\ row.flow = "transfer" /\ row.amount = -amount /\ row.period = p
      /\ row.status = "cleared" /\ row.dest = v
  BY DEF SweepRow
<1>3. /\ old \in SUBSET RowIds /\ IsFiniteSet(old)
      /\ SumFunctionOnSet(f, old) \in Int
      /\ VehicleBalance(w, p, gross) = gross[w] + SumFunctionOnSet(f, old)
  BY VehiclesBefore DEF VehicleFacts
<1>4. /\ new \in SUBSET RowIds' /\ IsFiniteSet(new)
      /\ \A u \in new : g[u] \in Int
      /\ (VehicleBalance(w, p, gross))' = gross[w] + SumFunctionOnSet(g, new)
  BY VehiclesAfter DEF VehicleFacts
<1>5. gross[w] \in Int /\ amount \in Int
  BY FiguresAssumption
<1> HIDE DEF row, amount
<1>6. t \notin old /\ (t \in new <=> w = v)
  BY <1>1, <1>2 DEF Incoming, RowsOf, RowIds
<1>7. \A u \in TxnIds \ {t} : u \in new <=> u \in old
  BY <1>1 DEF Incoming, RowsOf, RowIds
<1>8. new \subseteq TxnIds /\ old \subseteq TxnIds
  BY DEF Incoming, RowsOf, RowIds
<1>9. ASSUME NEW u \in old PROVE g[u] = f[u]
  <2>1. u \in TxnIds \ {t} /\ u \in RowIds /\ u \in RowIds'
    BY <1>1, <1>3, <1>6 DEF RowIds
  <2> QED
    BY <1>1, <2>1 DEF Sent
<1>10. g[t] = amount
  <2>1. t \in RowIds' /\ transactions'[t].amount = -amount
    BY <1>1, <1>2 DEF RowIds
  <2>2. g[t] = -transactions'[t].amount
    BY <2>1 DEF Sent
  <2> QED
    BY <1>5, <2>1, <2>2
<1> HIDE DEF f, g, old, new
<1>11. SumFunctionOnSet(g, old) = SumFunctionOnSet(f, old)
  BY <1>3, <1>9, SumSame
<1>12. CASE w = v
  <2>1. t \in new /\ new \ {t} = old
    BY <1>6, <1>7, <1>8, <1>12
  <2>2. SumFunctionOnSet(g, new) = g[t] + SumFunctionOnSet(g, new \ {t})
    BY <1>4, <2>1, SumRemove
  <2>3. SumFunctionOnSet(g, new) = amount + SumFunctionOnSet(f, old)
    BY <1>10, <1>11, <2>1, <2>2
  <2> QED
    BY <1>3, <1>4, <1>5, <1>12, <2>3 DEF amount
<1>13. CASE w # v
  <2>1. new = old
    BY <1>6, <1>7, <1>8, <1>13
  <2> QED
    BY <1>3, <1>4, <1>5, <1>11, <1>13, <2>1
<1> QED
  BY <1>12, <1>13

\* A sweep moves money once: all that was left to save goes to one vehicle that
\* was neither full nor archived, and to no other, so a second click, or one that
\* follows an uncleared entry, finds only what is left
\* (services/forecast.go EndOfMonthTransfer, engine/savings.go).
THEOREM SweepsCountOnce == Spec => SweepCountsOnce
<1>1. ASSUME TypeInv, Next, vars' # vars, NEW a \in Sweeps, NEW p \in Periods, NEW today \in Dates,
             NEW gross \in Snapshots, SweepResidual(a, p, today, gross)
      PROVE  LET moved == ToSave(a, p) - (ToSave(a, p))'
                 gain(v) == (VehicleBalance(v, p, gross))' - VehicleBalance(v, p, gross)
             IN  /\ 0 < moved /\ moved <= ToSave(a, p)
                 /\ \E v \in Savings \ archivedAccounts :
                       /\ ~VehicleFull(v, p, gross)
                       /\ \A w \in Savings : gain(w) = IF w = v THEN moved ELSE 0
  <2> DEFINE moved == ToSave(a, p) - (ToSave(a, p))'
             gain(v) == (VehicleBalance(v, p, gross))' - VehicleBalance(v, p, gross)
  <2> SUFFICES /\ 0 < moved /\ moved <= ToSave(a, p)
               /\ \E v \in Savings \ archivedAccounts :
                     /\ ~VehicleFull(v, p, gross)
                     /\ \A w \in Savings : gain(w) = IF w = v THEN moved ELSE 0
    OBVIOUS
  <2>1. TypeOK /\ TypeOK'
    BY <1>1, NextType DEF TypeInv
  <2>2. UNCHANGED <<monthVars, configVars, allocations>>
    BY <1>1 DEF SweepResidual, EndOfMonthTransfer
  <2>3. transactions' # transactions
    BY <1>1, <2>2 DEF vars
  <2>4. /\ ToSave(a, p) > 0 /\ UNCHANGED <<periodState, allocations>>
        /\ \E v \in CascadeTarget(p, gross) : \E t : Adds(t, SweepRow(a, v, p, today))
    BY <1>1, <2>1, <2>3, SweepInserts
  <2>5. PICK v \in CascadeTarget(p, gross) : \E u : Adds(u, SweepRow(a, v, p, today))
    BY <2>4
  <2> PICK t : Adds(t, SweepRow(a, v, p, today))
    BY <2>5
  <2>6. (ToSave(a, p))' = 0 /\ ToSave(a, p) \in Int
    BY <1>1, <2>1, <2>4, <2>5, SweepLeavesNothing
  <2>7. moved = ToSave(a, p)
    BY <2>6
  <2>8. \A w \in Savings : gain(w) = IF w = v THEN ToSave(a, p) ELSE 0
    BY <2>1, <2>5, <2>6, SweepFillsOne
  <2>9. v \in Savings \ archivedAccounts /\ ~VehicleFull(v, p, gross)
    BY <2>5, TargetIsOpen
  <2> HIDE DEF moved, gain
  <2> QED
    BY <2>4, <2>6, <2>7, <2>8, <2>9
<1>2. TypeInv /\ [Next]_vars =>
        [\A a \in Sweeps, p \in Periods, today \in Dates, gross \in Snapshots :
          SweepResidual(a, p, today, gross) =>
            LET moved == ToSave(a, p) - (ToSave(a, p))'
                gain(v) == (VehicleBalance(v, p, gross))' - VehicleBalance(v, p, gross)
            IN  /\ 0 < moved /\ moved <= ToSave(a, p)
                /\ \E v \in Savings \ archivedAccounts :
                      /\ ~VehicleFull(v, p, gross)
                      /\ \A w \in Savings : gain(w) = IF w = v THEN moved ELSE 0]_vars
  BY <1>1
<1> QED
  BY <1>2, TypeInvariant, PTL DEF Spec, SweepCountsOnce

----------------------------------------------------------------------------
(* One month, by flow and by line *)

Moves(a, p, statuses) == {t \in MovesOf(a, p) : transactions[t].status \in statuses}
Transfers(rows) == {t \in rows : transactions[t].flow = "transfer"}

\* The rows an account pays or receives itself, of one flow.
FlowRows(a, p, flow, statuses) ==
    {t \in RowsOf(p) : /\ transactions[t].acc = a /\ transactions[t].flow = flow
                       /\ transactions[t].status \in statuses}

Lines(a, flow) == {e \in EnvelopeIds : envelopes[e].acc = a /\ FlowOf(e) = flow}
LineRows(e, p, statuses) == {t \in RowsUnder(e, p) : transactions[t].status \in statuses}

LEMMA FlowRowsType ==
    ASSUME TypeOK, NEW a, NEW p, NEW flow, NEW statuses
    PROVE  /\ FlowRows(a, p, flow, statuses) \in SUBSET RowIds
           /\ IsFiniteSet(FlowRows(a, p, flow, statuses))
           /\ \A t \in FlowRows(a, p, flow, statuses) :
                 RowAmounts[t] \in Int /\ AmountsFor(a)[t] = RowAmounts[t]
           /\ SumFunctionOnSet(RowAmounts, FlowRows(a, p, flow, statuses)) \in Int
<1> DEFINE rows == FlowRows(a, p, flow, statuses)
<1>1. rows \in SUBSET RowIds
  BY RowSets DEF FlowRows
<1>2. IsFiniteSet(rows)
  BY <1>1, RowSets
<1>3. \A t \in rows : RowAmounts[t] \in Int /\ AmountsFor(a)[t] = RowAmounts[t]
  BY <1>1, RowParts DEF FlowRows, RowAmounts, AmountsFor, AmountFor
<1>4. SumFunctionOnSet(RowAmounts, rows) \in Int
  <2> HIDE DEF rows
  <2> QED BY <1>2, <1>3, SumType
<1> QED
  BY <1>1, <1>2, <1>3, <1>4

\* What moves an account is its transfers, its income and its expenses.
LEMMA MovesByFlow ==
    ASSUME TypeOK, NEW a, NEW p, NEW statuses
    PROVE  /\ TotalFor(Moves(a, p, statuses), a)
                = TotalFor(Transfers(Moves(a, p, statuses)), a)
                    + SumFunctionOnSet(RowAmounts, FlowRows(a, p, "income", statuses))
                    + SumFunctionOnSet(RowAmounts, FlowRows(a, p, "expense", statuses))
           /\ TotalFor(Transfers(Moves(a, p, statuses)), a) \in Int
<1> DEFINE all == Moves(a, p, statuses)
           transfers == Transfers(all)
           income == FlowRows(a, p, "income", statuses)
           expense == FlowRows(a, p, "expense", statuses)
           f == AmountsFor(a)
<1>1. all \in SUBSET RowIds /\ transfers \in SUBSET all /\ transfers \in SUBSET RowIds
  BY RowSets DEF Moves, Transfers
<1>2. /\ TotalFor(all, a) = SumFunctionOnSet(f, all)
      /\ TotalFor(transfers, a) = SumFunctionOnSet(f, transfers)
      /\ TotalFor(transfers, a) \in Int
      /\ \A t \in all : f[t] \in Int
      /\ IsFiniteSet(all) /\ IsFiniteSet(all \ transfers)
  <2> HIDE DEF all, transfers, f
  <2>1. IsFiniteSet(all) /\ IsFiniteSet(all \ transfers)
    BY <1>1, RowSets, FS_Subset
  <2> QED
    BY <1>1, <2>1, TotalForIs DEF f
<1>3. income \in SUBSET (all \ transfers) /\ (all \ transfers) \ income = expense
  <2>1. \A t \in all : transactions[t].flow \in {"expense", "income", "transfer"}
    BY <1>1, RowParts DEF Flows
  <2>2. \A t : t \in all \ transfers <=> t \in income \/ t \in expense
    BY <2>1 DEF Moves, Transfers, MovesOf, Touches, FlowRows
  <2>3. \A t : ~(t \in income /\ t \in expense)
    BY DEF FlowRows
  <2> HIDE DEF all, transfers, income, expense
  <2> QED BY <2>2, <2>3
<1>4. /\ \A t \in income : RowAmounts[t] = f[t]
      /\ \A t \in expense : RowAmounts[t] = f[t]
      /\ IsFiniteSet(income) /\ IsFiniteSet(expense)
  BY FlowRowsType
<1> HIDE DEF all, transfers, income, expense, f
<1>5. SumFunctionOnSet(f, all) = SumFunctionOnSet(f, transfers) + SumFunctionOnSet(f, all \ transfers)
  BY <1>1, <1>2, SumSplit
<1>6. SumFunctionOnSet(f, all \ transfers) = SumFunctionOnSet(f, income) + SumFunctionOnSet(f, expense)
  BY <1>2, <1>3, SumSplit
<1>7. /\ SumFunctionOnSet(f, income) = SumFunctionOnSet(RowAmounts, income)
      /\ SumFunctionOnSet(f, expense) = SumFunctionOnSet(RowAmounts, expense)
  BY <1>4, SumSame
<1>8. SumFunctionOnSet(RowAmounts, income) \in Int /\ SumFunctionOnSet(RowAmounts, expense) \in Int
  BY FlowRowsType DEF income, expense
<1> QED
  BY <1>2, <1>5, <1>6, <1>7, <1>8 DEF all, transfers, income, expense

\* Cleared and pending rows are two parts of what was spent or received.
LEMMA FlowRowsSplit ==
    ASSUME TypeOK, NEW a, NEW p, NEW flow
    PROVE  SumFunctionOnSet(RowAmounts, FlowRows(a, p, flow, {"cleared", "pending"}))
             = SumFunctionOnSet(RowAmounts, FlowRows(a, p, flow, {"cleared"}))
                 + SumFunctionOnSet(RowAmounts, FlowRows(a, p, flow, {"pending"}))
<1> DEFINE both == FlowRows(a, p, flow, {"cleared", "pending"})
           one == FlowRows(a, p, flow, {"cleared"})
           two == FlowRows(a, p, flow, {"pending"})
<1>1. one \in SUBSET both /\ both \ one = two
  BY DEF FlowRows
<1>2. IsFiniteSet(both) /\ \A t \in both : RowAmounts[t] \in Int
  BY FlowRowsType
<1> HIDE DEF both, one, two
<1> QED
  BY <1>1, <1>2, SumSplit DEF both, one, two

\* In a budgeted month the rows of a flow are those of the lines of the flow,
\* each under one line.
LEMMA FlowByLine ==
    ASSUME TypeOK, EnvelopesIntact, NEW a \in Accounts, NEW p \in Periods, Budgeted(a, p),
           NEW flow \in {"income", "expense"}, NEW statuses
    PROVE  /\ SumFunctionOnSet(RowAmounts, FlowRows(a, p, flow, statuses))
                = SumFunctionOnSet(
                    [e \in Lines(a, flow) |-> SumFunctionOnSet(RowAmounts, LineRows(e, p, statuses))],
                    Lines(a, flow))
           /\ IsFiniteSet(Lines(a, flow))
<1> DEFINE rows == FlowRows(a, p, flow, statuses)
           lines == Lines(a, flow)
           key == [t \in rows |-> CHOOSE e \in lines : t \in RowsUnder(e, p)]
<1>1. IsFiniteSet(lines)
  BY LedgerAssumption, FS_Subset DEF Lines, EnvelopeIds
<1>2. ASSUME NEW t \in rows
      PROVE  \E e \in lines : t \in RowsUnder(e, p)
  <2>1. t \in MovesOf(a, p) /\ transactions[t].flow # "transfer"
    BY DEF FlowRows, MovesOf, Touches
  <2>2. PICK e \in EnvelopeIds : t \in RowsUnder(e, p) /\ FlowOf(e) = transactions[t].flow
    BY <2>1 DEF Budgeted
  <2>3. e \in lines
    BY <2>2 DEF Lines, RowsUnder, FlowRows
  <2> QED
    BY <2>2, <2>3
<1>3. ASSUME NEW e \in lines, NEW t
      PROVE  t \in LineRows(e, p, statuses) <=> t \in rows /\ t \in RowsUnder(e, p)
  <2>1. t \in rows /\ t \in RowsUnder(e, p) => t \in LineRows(e, p, statuses)
    BY DEF LineRows, FlowRows
  <2>2. ASSUME t \in RowsUnder(e, p)
        PROVE  transactions[t].acc = a /\ transactions[t].flow = flow /\ t \in RowsOf(p)
    <3>1. /\ e \in EnvelopeIds /\ envelopes[e].acc = a /\ FlowOf(e) = flow
          /\ t \in RowsOf(p)
          /\ transactions[t].cat = envelopes[e].cat /\ transactions[t].acc = a
      BY <2>2 DEF Lines, RowsUnder
    <3>2. envelopes[e].cat # None
      BY <3>1, EnvelopeType, RowAssumption DEF EnvelopeRow
    <3>3. t \in MovesOf(a, p)
      BY <3>1 DEF MovesOf, Touches
    <3>4. transactions[t].flow # "transfer"
      BY <3>1, <3>2, <3>3 DEF Budgeted
    <3>5. PICK x \in EnvelopeIds : t \in RowsUnder(x, p) /\ FlowOf(x) = transactions[t].flow
      BY <3>3, <3>4 DEF Budgeted
    <3>6. envelopes[x].cat = envelopes[e].cat
      BY <3>1, <3>5 DEF RowsUnder
    <3> QED
      BY <3>1, <3>5, <3>6 DEF FlowOf
  <2> QED
    BY <2>1, <2>2 DEF LineRows, FlowRows
<1>4. ASSUME NEW t \in rows, NEW e \in lines, NEW x \in lines, t \in RowsUnder(e, p), t \in RowsUnder(x, p)
      PROVE  e = x
  BY <1>4 DEF EnvelopesIntact, Lines, RowsUnder
<1>5. \A t \in rows : RowAmounts[t] \in Int /\ key[t] \in lines /\ t \in RowsUnder(key[t], p)
  <2> HIDE DEF rows, lines
  <2>1. \A t \in rows : RowAmounts[t] \in Int
    BY FlowRowsType DEF rows
  <2> QED BY <1>2, <2>1
<1>6. IsFiniteSet(rows)
  BY FlowRowsType
<1> HIDE DEF rows, lines, key
<1>7. ASSUME NEW e \in lines
      PROVE  {t \in rows : key[t] = e} = LineRows(e, p, statuses)
  <2>1. \A t \in rows : key[t] = e <=> t \in RowsUnder(e, p)
    BY <1>4, <1>5
  <2> QED
    BY <1>3, <2>1
<1>8. SumFunctionOnSet(RowAmounts, rows)
        = SumFunctionOnSet([e \in lines |-> SumFunctionOnSet(RowAmounts, {t \in rows : key[t] = e})], lines)
  BY <1>1, <1>5, <1>6, SumByKey
<1>9. [e \in lines |-> SumFunctionOnSet(RowAmounts, {t \in rows : key[t] = e})]
        = [e \in lines |-> SumFunctionOnSet(RowAmounts, LineRows(e, p, statuses))]
  BY <1>7
<1> QED
  BY <1>1, <1>8, <1>9 DEF rows, lines

\* What a line consumed is the sum of its rows, spending counted positive.
LEMMA ConsumedIs ==
    ASSUME TypeOK, NEW e, NEW p, NEW statuses
    PROVE  /\ ConsumedBy(e, p, statuses)
                = IF FlowOf(e) = "expense"
                  THEN -SumFunctionOnSet(RowAmounts, LineRows(e, p, statuses))
                  ELSE SumFunctionOnSet(RowAmounts, LineRows(e, p, statuses))
           /\ SumFunctionOnSet(RowAmounts, LineRows(e, p, statuses)) \in Int
<1> DEFINE rows == LineRows(e, p, statuses)
           f == [t \in rows |-> Consumption(e, t)]
<1>1. rows \in SUBSET RowIds
  BY RowSets DEF LineRows, RowsUnder
<1>2. IsFiniteSet(rows) /\ \A t \in rows : RowAmounts[t] \in Int /\ RowAmounts[t] = transactions[t].amount
  BY <1>1, RowSets, RowParts DEF RowAmounts
<1>3. ConsumedBy(e, p, statuses) = SumFunctionOnSet(f, rows)
  BY SumFunctionIs DEF ConsumedBy, LineRows
<1>4. \A t \in rows : f[t] = IF FlowOf(e) = "expense" THEN -RowAmounts[t] ELSE RowAmounts[t]
  BY <1>2 DEF Consumption
<1> HIDE DEF f, rows
<1>5. SumFunctionOnSet(RowAmounts, rows) \in Int
  BY <1>2, SumType
<1>6. SumFunctionOnSet(f, rows)
        = IF FlowOf(e) = "expense" THEN -SumFunctionOnSet(RowAmounts, rows)
          ELSE SumFunctionOnSet(RowAmounts, rows)
  <2>1. CASE FlowOf(e) = "expense"
    BY <1>2, <1>4, <2>1, SumNegate
  <2>2. CASE FlowOf(e) # "expense"
    BY <1>2, <1>4, <2>2, SumSame
  <2> QED BY <2>1, <2>2
<1> QED
  BY <1>3, <1>5, <1>6 DEF rows

----------------------------------------------------------------------------
(* One month on two screens *)

\* The rows of a flow in an account's journal, and those among them that are
\* another account's.
JournalRows(a, p, flow, statuses) ==
    {t \in RowsOf(p) : /\ InScope(transactions[t], a) /\ transactions[t].flow = flow
                       /\ transactions[t].status \in statuses}
GuestRows(a, p, flow, statuses) ==
    {t \in Guests(a, p) : transactions[t].flow = flow /\ transactions[t].status \in statuses}

Amount(rows) == SumFunctionOnSet(RowAmounts, rows)

LEMMA AmountIs ==
    ASSUME TypeOK, NEW rows \in SUBSET RowIds
    PROVE  /\ IsFiniteSet(rows) /\ \A t \in rows : RowAmounts[t] \in Int
           /\ Amount(rows) \in Int
           /\ SumFunction([t \in rows |-> transactions[t].amount]) = Amount(rows)
<1> DEFINE f == [t \in rows |-> transactions[t].amount]
<1>1. IsFiniteSet(rows)
  BY RowSets
<1>2. \A t \in rows : f[t] = RowAmounts[t] /\ RowAmounts[t] \in Int
  BY AmountType DEF RowAmounts
<1>3. SumFunction(f) = SumFunctionOnSet(f, rows)
  BY SumFunctionIs
<1> HIDE DEF f
<1>4. SumFunctionOnSet(f, rows) = SumFunctionOnSet(RowAmounts, rows)
  BY <1>1, <1>2, SumSame
<1>5. SumFunctionOnSet(RowAmounts, rows) \in Int
  BY <1>1, <1>2, SumType
<1> QED
  BY <1>1, <1>2, <1>3, <1>4, <1>5 DEF f, Amount

\* A set of rows in two parts.
LEMMA AmountOfParts ==
    ASSUME TypeOK, NEW rows \in SUBSET RowIds, NEW part \in SUBSET rows
    PROVE  Amount(rows) = Amount(part) + Amount(rows \ part)
<1>1. IsFiniteSet(rows) /\ \A t \in rows : RowAmounts[t] \in Int
  BY AmountIs
<1> QED
  BY <1>1, SumSplit DEF Amount

\* What a journal counts in a flow is the account's own rows and its guests'.
LEMMA JournalRowsSplit ==
    ASSUME TypeOK, NEW a \in Accounts, NEW p, NEW flow, flow # "transfer", NEW statuses
    PROVE  /\ Amount(JournalRows(a, p, flow, statuses))
                = Amount(FlowRows(a, p, flow, statuses)) + Amount(GuestRows(a, p, flow, statuses))
           /\ JournalRows(a, p, flow, statuses) \in SUBSET RowIds
           /\ GuestRows(a, p, flow, statuses) \in SUBSET RowIds
           /\ Amount(FlowRows(a, p, flow, statuses)) \in Int
           /\ Amount(GuestRows(a, p, flow, statuses)) \in Int
<1> DEFINE all == JournalRows(a, p, flow, statuses)
           own == FlowRows(a, p, flow, statuses)
           guests == GuestRows(a, p, flow, statuses)
<1>1. all \in SUBSET RowIds /\ guests \in SUBSET RowIds /\ own \in SUBSET RowIds
  BY RowSets DEF JournalRows, GuestRows, Guests, FlowRows
<1>2. own \in SUBSET all /\ all \ own = guests
  BY DEF JournalRows, GuestRows, Guests, FlowRows, InScope
<1> HIDE DEF all, own, guests
<1>3. Amount(all) = Amount(own) + Amount(guests)
  BY <1>1, <1>2, AmountOfParts
<1>4. Amount(own) \in Int /\ Amount(guests) \in Int
  BY <1>1, AmountIs
<1> QED
  BY <1>1, <1>3, <1>4 DEF all, own, guests

\* Cleared and pending guests are two parts of them, income and expenses too.
LEMMA GuestsSplit ==
    ASSUME TypeOK, NEW a \in Accounts, NEW p
    PROVE  /\ Amount(GuestRows(a, p, "expense", {"cleared", "pending"}))
                = Amount(GuestRows(a, p, "expense", {"cleared"}))
                    + Amount(GuestRows(a, p, "expense", {"pending"}))
           /\ Amount({t \in Guests(a, p) : transactions[t].status = "cleared"
                                           /\ transactions[t].flow \in Flows})
                = Amount(GuestRows(a, p, "income", {"cleared"}))
                    + Amount(GuestRows(a, p, "expense", {"cleared"}))
<1> DEFINE both == GuestRows(a, p, "expense", {"cleared", "pending"})
           one == GuestRows(a, p, "expense", {"cleared"})
           two == GuestRows(a, p, "expense", {"pending"})
           all == {t \in Guests(a, p) : transactions[t].status = "cleared"
                                        /\ transactions[t].flow \in Flows}
           income == GuestRows(a, p, "income", {"cleared"})
<1>1. both \in SUBSET RowIds /\ all \in SUBSET RowIds
  BY RowSets DEF GuestRows, Guests
<1>2. one \in SUBSET both /\ both \ one = two
  BY DEF GuestRows
<1>3. income \in SUBSET all /\ all \ income = one
  BY DEF GuestRows, Guests, Flows
<1> HIDE DEF both, one, two, all, income
<1> QED
  BY <1>1, <1>2, <1>3, AmountOfParts DEF both, one, two, all, income

\* The summary adds up the rows in scope.
LEMMA SummaryIs ==
    ASSUME TypeOK, NEW a \in Accounts, NEW p
    PROVE  /\ Summary(a, p).received = Amount(JournalRows(a, p, "income", {"cleared"}))
           /\ Summary(a, p).net
                = Amount(JournalRows(a, p, "income", {"cleared"}))
                    - (-Amount(JournalRows(a, p, "expense", {"cleared", "pending"})))
           /\ Summary(a, p).pending = -Amount(JournalRows(a, p, "expense", {"pending"}))
<1> DEFINE rows(flows, statuses) ==
              {t \in RowsOf(p) : /\ InScope(transactions[t], a)
                                 /\ transactions[t].flow \in flows
                                 /\ transactions[t].status \in statuses}
           total(set) == SumFunction([t \in set |-> transactions[t].amount])
<1>1. ASSUME NEW flow, flow # "transfer", NEW statuses
      PROVE  total(rows({flow}, statuses)) = Amount(JournalRows(a, p, flow, statuses))
  <2> DEFINE set == JournalRows(a, p, flow, statuses)
  <2>1. rows({flow}, statuses) = set
    BY DEF JournalRows
  <2>2. set \in SUBSET RowIds
    BY <1>1, JournalRowsSplit
  <2> HIDE DEF rows, set
  <2> QED
    BY <2>1, <2>2, AmountIs DEF set
<1>2. ExpenseStatuses = {"cleared", "pending"}
  BY DEF ExpenseStatuses
<1>3. /\ Summary(a, p).received = total(rows({"income"}, {"cleared"}))
      /\ Summary(a, p).net = total(rows({"income"}, {"cleared"})) - (-total(rows({"expense"}, ExpenseStatuses)))
      /\ Summary(a, p).pending = -total(rows({"expense"}, {"pending"}))
  BY DEF Summary
<1> HIDE DEF rows, total
<1> QED
  BY <1>1, <1>2, <1>3

\* In a budgeted month the income of the envelopes is that of the rows.
LEMMA ReceivedIncomeIs ==
    ASSUME TypeOK, EnvelopesIntact, NEW a \in Accounts, NEW p \in Periods, Budgeted(a, p)
    PROVE  ReceivedIncome(a, p) = SumFunctionOnSet(RowAmounts, FlowRows(a, p, "income", {"cleared"}))
<1> DEFINE lines == Lines(a, "income")
           f == [e \in lines |-> Real(e, p)]
           g == [e \in lines |-> SumFunctionOnSet(RowAmounts, LineRows(e, p, {"cleared"}))]
<1>1. \A e \in lines : Real(e, p) = SumFunctionOnSet(RowAmounts, LineRows(e, p, {"cleared"}))
  BY ConsumedIs DEF Lines, Real
<1>2. f = g
  BY <1>1
<1>3. ReceivedIncome(a, p) = SumFunctionOnSet(f, lines)
  BY SumFunctionIs DEF ReceivedIncome, Lines
<1>4. SumFunctionOnSet(RowAmounts, FlowRows(a, p, "income", {"cleared"})) = SumFunctionOnSet(g, lines)
  BY FlowByLine
<1> HIDE DEF f, g, lines
<1> QED
  BY <1>2, <1>3, <1>4

\* The journal's net and the amount to sweep are the same money, up to the
\* transfers, the pending expenses and the entries of other accounts the journal
\* shows; what the journal received is, up to such entries, the income the
\* forecast shows in a budgeted month (services/journal.go inScope,
\* accumulateSummary, engine/savings.go, forecast.go).
THEOREM JournalsAgree == Spec => []JournalAgrees
<1>1. ASSUME TypeOK, EnvelopesIntact, NEW a \in Accounts, NEW p \in Periods
      PROVE  LET cleared(rows, flows) ==
                     {t \in rows : transactions[t].status = "cleared" /\ transactions[t].flow \in flows}
                 total(rows) == SumFunction([t \in rows |-> transactions[t].amount])
                 summary == Summary(a, p)
             IN  /\ ToSave(a, p) - Start[p][a]
                      = summary.net + summary.pending
                          + TotalFor(cleared(MovesOf(a, p), {"transfer"}), a)
                          - total(cleared(Guests(a, p), Flows))
                 /\ Budgeted(a, p) =>
                      summary.received
                          = ReceivedIncome(a, p) + total(cleared(Guests(a, p), {"income"}))
  <2> USE <1>1
  <2> DEFINE moves == Moves(a, p, {"cleared"})
             transfers == TotalFor(Transfers(moves), a)
             income == Amount(FlowRows(a, p, "income", {"cleared"}))
             spent(statuses) == Amount(FlowRows(a, p, "expense", statuses))
             guestIncome == Amount(GuestRows(a, p, "income", {"cleared"}))
             guestSpent(statuses) == Amount(GuestRows(a, p, "expense", statuses))
             guests == {t \in Guests(a, p) : transactions[t].status = "cleared"
                                             /\ transactions[t].flow \in Flows}
             cleared(rows, flows) ==
                 {t \in rows : transactions[t].status = "cleared" /\ transactions[t].flow \in flows}
             total(rows) == SumFunction([t \in rows |-> transactions[t].amount])
  <2> SUFFICES /\ ToSave(a, p) - Start[p][a]
                    = Summary(a, p).net + Summary(a, p).pending
                        + TotalFor(cleared(MovesOf(a, p), {"transfer"}), a)
                        - total(cleared(Guests(a, p), Flows))
               /\ Budgeted(a, p) =>
                    Summary(a, p).received
                        = ReceivedIncome(a, p) + total(cleared(Guests(a, p), {"income"}))
    OBVIOUS
  <2>1. /\ cleared(MovesOf(a, p), {"transfer"}) = Transfers(moves)
        /\ cleared(Guests(a, p), Flows) = guests
        /\ cleared(Guests(a, p), {"income"}) = GuestRows(a, p, "income", {"cleared"})
        /\ {t \in MovesOf(a, p) : transactions[t].status = "cleared"} = moves
    BY DEF Moves, Transfers, GuestRows
  <2>2. /\ guests \in SUBSET RowIds
        /\ GuestRows(a, p, "income", {"cleared"}) \in SUBSET RowIds
    BY RowSets DEF GuestRows, Guests
  <2>3. total(guests) = Amount(guests) /\ total(GuestRows(a, p, "income", {"cleared"})) = guestIncome
    <3> HIDE DEF guests
    <3> QED BY <2>2, AmountIs
  <2>4. ToSave(a, p) = Start[p][a] + TotalFor(moves, a)
    <3> HIDE DEF moves
    <3> QED BY <2>1 DEF ToSave
  <2>5. TotalFor(moves, a) = transfers + income + spent({"cleared"}) /\ transfers \in Int
    BY MovesByFlow DEF Amount
  <2>6. spent({"cleared", "pending"}) = spent({"cleared"}) + spent({"pending"})
    BY FlowRowsSplit DEF Amount
  <2>7. /\ guestSpent({"cleared", "pending"}) = guestSpent({"cleared"}) + guestSpent({"pending"})
        /\ Amount(guests) = guestIncome + guestSpent({"cleared"})
    BY GuestsSplit
  <2>8. /\ Summary(a, p).received = income + guestIncome
        /\ Summary(a, p).net = income + guestIncome
                                 - (-(spent({"cleared", "pending"}) + guestSpent({"cleared", "pending"})))
        /\ Summary(a, p).pending = -(spent({"pending"}) + guestSpent({"pending"}))
    <3>1. \A flow \in {"income", "expense"} : \A statuses :
             Amount(JournalRows(a, p, flow, statuses))
               = Amount(FlowRows(a, p, flow, statuses)) + Amount(GuestRows(a, p, flow, statuses))
      BY JournalRowsSplit
    <3>2. /\ Amount(JournalRows(a, p, "income", {"cleared"})) = income + guestIncome
          /\ \A statuses : Amount(JournalRows(a, p, "expense", statuses))
                             = spent(statuses) + guestSpent(statuses)
      BY <3>1
    <3>3. /\ Summary(a, p).received = Amount(JournalRows(a, p, "income", {"cleared"}))
          /\ Summary(a, p).net
               = Amount(JournalRows(a, p, "income", {"cleared"}))
                   - (-Amount(JournalRows(a, p, "expense", {"cleared", "pending"})))
          /\ Summary(a, p).pending = -Amount(JournalRows(a, p, "expense", {"pending"}))
      BY SummaryIs
    <3>4. /\ Amount(JournalRows(a, p, "expense", {"cleared", "pending"}))
               = spent({"cleared", "pending"}) + guestSpent({"cleared", "pending"})
          /\ Amount(JournalRows(a, p, "expense", {"pending"}))
               = spent({"pending"}) + guestSpent({"pending"})
      BY <3>2
    <3>5. /\ income \in Int /\ guestIncome \in Int
          /\ \A statuses : spent(statuses) \in Int /\ guestSpent(statuses) \in Int
      BY JournalRowsSplit
    <3> HIDE DEF income, spent, guestIncome, guestSpent
    <3> QED
      BY <3>2, <3>3, <3>4, <3>5
  <2>9. /\ income \in Int /\ guestIncome \in Int /\ Start[p][a] \in Int
        /\ spent({"cleared"}) \in Int /\ spent({"pending"}) \in Int
        /\ guestSpent({"cleared"}) \in Int /\ guestSpent({"pending"}) \in Int
    BY JournalRowsSplit, BalanceIs
  <2>10. Budgeted(a, p) => ReceivedIncome(a, p) = income
    BY ReceivedIncomeIs DEF Amount
  <2> HIDE DEF moves, transfers, income, spent, guestIncome, guestSpent, guests, cleared, total
  <2>11. ToSave(a, p) - Start[p][a]
           = Summary(a, p).net + Summary(a, p).pending + transfers - total(guests)
    BY <2>3, <2>4, <2>5, <2>6, <2>7, <2>8, <2>9
  <2>12. ToSave(a, p) - Start[p][a]
           = Summary(a, p).net + Summary(a, p).pending
               + TotalFor(cleared(MovesOf(a, p), {"transfer"}), a)
               - total(cleared(Guests(a, p), Flows))
    BY <2>1, <2>11 DEF transfers
  <2>13. Budgeted(a, p) =>
           Summary(a, p).received = ReceivedIncome(a, p) + total(cleared(Guests(a, p), {"income"}))
    BY <2>1, <2>3, <2>8, <2>10
  <2> QED
    BY <2>12, <2>13
<1>2. TypeOK /\ EnvelopesIntact => JournalAgrees
  BY <1>1 DEF JournalAgrees
<1>3. TypeInv => TypeOK
  BY DEF TypeInv
<1> QED
  BY <1>2, <1>3, TypeInvariant, EnvelopesStayIntact, PTL

----------------------------------------------------------------------------
(* Prudence meets the plan *)

LEMMA LineRowsSplit ==
    ASSUME TypeOK, NEW e, NEW p
    PROVE  SumFunctionOnSet(RowAmounts, LineRows(e, p, {"cleared", "pending"}))
             = SumFunctionOnSet(RowAmounts, LineRows(e, p, {"cleared"}))
                 + SumFunctionOnSet(RowAmounts, LineRows(e, p, {"pending"}))
<1> DEFINE both == LineRows(e, p, {"cleared", "pending"})
           one == LineRows(e, p, {"cleared"})
           two == LineRows(e, p, {"pending"})
<1>1. one \in SUBSET both /\ both \ one = two
  BY DEF LineRows
<1>2. both \in SUBSET RowIds
  BY RowSets DEF LineRows, RowsUnder
<1>3. IsFiniteSet(both) /\ \A t \in both : RowAmounts[t] \in Int
  BY <1>2, RowSets, RowParts DEF RowAmounts
<1> HIDE DEF both, one, two
<1> QED
  BY <1>1, <1>3, SumSplit DEF both, one, two

LEMMA PlannedType ==
    ASSUME TypeOK, NEW e \in Envelopes, NEW p \in Periods
    PROVE  Planned(e, p) \in Nat
<1>1. allocations[e] \in [Periods -> Magnitudes \cup {0, None}]
  BY DEF TypeOK
<1>2. \/ allocations[e][p] = None
      \/ allocations[e][p] = 0
      \/ allocations[e][p] \in Magnitudes
  BY <1>1
<1>3. \A m \in Magnitudes : m \in Nat
  BY LedgerAssumption
<1>4. allocations[e][p] # None => allocations[e][p] \in Nat
  BY <1>2, <1>3
<1> QED
  BY <1>4 DEF Planned

\* An income line as planned brought its budget, an expense line that is not
\* overrun spent no more than its own.
LEMMA LineAsPlanned ==
    ASSUME TypeOK, NEW e \in EnvelopeIds, NEW p \in Periods, AsPlanned(e, p)
    PROVE  /\ FlowOf(e) = "income" =>
                SumFunctionOnSet(RowAmounts, LineRows(e, p, {"cleared", "pending"})) = Planned(e, p)
           /\ FlowOf(e) = "expense" =>
                /\ SumFunctionOnSet(RowAmounts, LineRows(e, p, {"cleared", "pending"})) = -Real(e, p)
                /\ Real(e, p) \in Int
                /\ Real(e, p) <= Planned(e, p)
<1> DEFINE sum(statuses) == SumFunctionOnSet(RowAmounts, LineRows(e, p, statuses))
<1>1. /\ \A statuses : sum(statuses) \in Int
      /\ \A statuses : ConsumedBy(e, p, statuses) = IF FlowOf(e) = "expense" THEN -sum(statuses) ELSE sum(statuses)
  BY ConsumedIs
<1>2. sum({"cleared", "pending"}) = sum({"cleared"}) + sum({"pending"})
  BY LineRowsSplit
<1>3. Planned(e, p) \in Nat
  BY EnvelopeType, PlannedType
<1> HIDE DEF sum
<1>4. FlowOf(e) = "income" => sum({"cleared", "pending"}) = Planned(e, p)
  BY <1>1, <1>2 DEF AsPlanned, Real
<1>5. FlowOf(e) = "expense" => Real(e, p) = -sum({"cleared", "pending"}) /\ Real(e, p) \in Int
  BY <1>1 DEF Real
<1>6. FlowOf(e) = "expense" => Real(e, p) <= Planned(e, p)
  <2>1. ASSUME NEW real \in Int, NEW planned \in Nat, real = Real(e, p), planned = Planned(e, p),
               EnvelopeState(e, p) # "overrun"
        PROVE  real <= planned
    BY <2>1 DEF EnvelopeState
  <2> QED
    BY <1>3, <1>5, <2>1 DEF AsPlanned
<1>7. FlowOf(e) = "expense" => sum({"cleared", "pending"}) = -Real(e, p)
  BY <1>1, <1>5
<1> QED
  BY <1>4, <1>5, <1>6, <1>7 DEF sum

\* The badge of an expense line and the amounts beside it tell one story: it is
\* overrun exactly when less than nothing remains, paid exactly when its budget is
\* used to the unit, partial only while some of it remains, expected only when a
\* row is expected and no spending is counted (engine/envelope.go envelopeState).
THEOREM BadgeMatchesRemaining ==
    ASSUME TypeOK, NEW e \in EnvelopeIds, NEW p \in Periods, FlowOf(e) = "expense"
    PROVE  LET state == EnvelopeState(e, p)
           IN  /\ state = "overrun" <=> Remaining(e, p) < 0
               /\ state = "paid" <=> Planned(e, p) > 0 /\ Remaining(e, p) = 0
               /\ state = "partial" => Planned(e, p) > 0 /\ Remaining(e, p) > 0
               /\ state = "expected" => Awaited(e, p) > 0 /\ Remaining(e, p) >= Planned(e, p)
               /\ state = "none" => Awaited(e, p) <= 0 /\ Remaining(e, p) >= Planned(e, p)
<1>1. PICK planned \in Nat : planned = Planned(e, p)
  BY EnvelopeType, PlannedType
<1>2. \A statuses : ConsumedBy(e, p, statuses) \in Int
  BY ConsumedIs
<1>3. PICK real \in Int : real = Real(e, p)
  BY <1>2 DEF Real
<1>4. PICK awaited \in Int : awaited = Awaited(e, p)
  BY <1>2 DEF Awaited
<1>5. Remaining(e, p) = planned - real
  BY <1>1, <1>3 DEF Remaining
<1>6. EnvelopeState(e, p) =
        IF planned = 0
        THEN CASE real > 0 -> "overrun"
               [] real <= 0 /\ awaited > 0 -> "expected"
               [] OTHER -> "none"
        ELSE CASE real = 0 /\ awaited = 0 -> "none"
               [] real = 0 /\ awaited > 0 -> "expected"
               [] real = planned -> "paid"
               [] real > planned -> "overrun"
               [] OTHER -> "partial"
  BY <1>1, <1>3, <1>4 DEF EnvelopeState
<1>7. CASE planned = 0
  BY <1>1, <1>4, <1>5, <1>6, <1>7
<1>8. CASE planned # 0
  BY <1>1, <1>4, <1>5, <1>6, <1>8
<1> QED
  BY <1>7, <1>8

LEMMA SecuredIsPlan ==
    ASSUME TypeOK, EnvelopesIntact, NEW a \in Accounts, NEW p \in Periods, NEW today \in Dates,
           PlainMonth(a, p, today), \A e \in EnvelopeIds : envelopes[e].acc = a => AsPlanned(e, p)
    PROVE  SavingsSecured(a, p, today, FALSE)
             = SavingsProjected(a, p) + CountedTransfers(a, p, today)
<1> DEFINE statuses == {"cleared", "pending"}
           moves == Moves(a, p, statuses)
           incomes == Lines(a, "income")
           expenses == Lines(a, "expense")
           rows(e) == SumFunctionOnSet(RowAmounts, LineRows(e, p, statuses))
           planned == [e \in Envelopes |-> Planned(e, p)]
           left == [e \in expenses |-> IF Remaining(e, p) > 0 THEN Remaining(e, p) ELSE 0]
           real == [e \in expenses |-> Real(e, p)]
           received == [e \in incomes |-> rows(e)]
           spent == [e \in expenses |-> rows(e)]
<1>1. CountedMoves(a, p, today) = moves
  <2>1. \A t \in MovesOf(a, p) : transactions[t].status \in {"awaited", "pending", "cleared"}
    BY RowSets, RowParts DEF Statuses
  <2> QED
    BY <2>1 DEF PlainMonth, CountedMoves, Counted, Moves
<1>2. /\ RealBalance(a, p, today) = Start[p][a] + TotalFor(moves, a)
      /\ CountedTransfers(a, p, today) = TotalFor(Transfers(moves), a)
      /\ Start[p][a] \in Int
  <2> HIDE DEF moves
  <2> QED BY <1>1, BalanceIs DEF RealBalance, CountedTransfers, Transfers
<1>3. /\ TotalFor(moves, a) = TotalFor(Transfers(moves), a)
           + SumFunctionOnSet(received, incomes) + SumFunctionOnSet(spent, expenses)
      /\ TotalFor(Transfers(moves), a) \in Int
      /\ IsFiniteSet(incomes) /\ IsFiniteSet(expenses)
  BY MovesByFlow, FlowByLine DEF PlainMonth
<1>4. \A e \in incomes : received[e] = planned[e] /\ planned[e] \in Int
  BY EnvelopeType, PlannedType, LineAsPlanned DEF Lines
<1>5. \A e \in expenses :
        /\ planned[e] \in Int /\ real[e] \in Int /\ left[e] \in Int
        /\ planned[e] = left[e] + real[e]
        /\ spent[e] = -real[e]
  <2> SUFFICES ASSUME NEW e \in expenses
      PROVE  /\ planned[e] \in Int /\ real[e] \in Int /\ left[e] \in Int
             /\ planned[e] = left[e] + real[e]
             /\ spent[e] = -real[e]
    OBVIOUS
  <2>1. /\ e \in Envelopes /\ rows(e) = -Real(e, p) /\ Real(e, p) \in Int /\ Real(e, p) <= Planned(e, p)
        /\ Planned(e, p) \in Nat
    BY EnvelopeType, PlannedType, LineAsPlanned DEF Lines
  <2>2. /\ planned[e] = Planned(e, p) /\ real[e] = Real(e, p) /\ spent[e] = rows(e)
        /\ left[e] = IF Remaining(e, p) > 0 THEN Remaining(e, p) ELSE 0
    BY <2>1
  <2>3. Remaining(e, p) = Planned(e, p) - Real(e, p)
    BY DEF Remaining
  <2> HIDE DEF planned, real, spent, left, rows
  <2> QED
    BY <2>1, <2>2, <2>3
<1>6. SavingsSecured(a, p, today, FALSE) = RealBalance(a, p, today) - SumFunctionOnSet(left, expenses)
  <2>1. {e \in EnvelopeIds : /\ envelopes[e].acc = a
                             /\ FlowOf(e) = "expense"
                             /\ FALSE => IsRecurring(e)} = expenses
    BY DEF Lines
  <2>2. SavingsSecured(a, p, today, FALSE) = RealBalance(a, p, today) - SumFunction(left)
    <3> HIDE DEF expenses
    <3> QED BY <2>1 DEF SavingsSecured
  <2> QED
    BY <2>2, SumFunctionIs
<1>7. SavingsProjected(a, p)
        = Start[p][a] + SumFunctionOnSet(planned, incomes) - SumFunctionOnSet(planned, expenses)
  BY DEF SavingsProjected, SavingsPlan, Lines
<1> HIDE DEF moves, incomes, expenses, planned, left, real, received, spent
<1>8. SumFunctionOnSet(received, incomes) = SumFunctionOnSet(planned, incomes)
  BY <1>3, <1>4, SumSame
<1>9. SumFunctionOnSet(planned, expenses) = SumFunctionOnSet(left, expenses) + SumFunctionOnSet(real, expenses)
  BY <1>3, <1>5, SumPlus
<1>10. SumFunctionOnSet(spent, expenses) = -SumFunctionOnSet(real, expenses)
  BY <1>3, <1>5, SumNegate
<1>11. /\ SumFunctionOnSet(planned, incomes) \in Int /\ SumFunctionOnSet(left, expenses) \in Int
       /\ SumFunctionOnSet(real, expenses) \in Int
  BY <1>3, <1>4, <1>5, SumType
<1> HIDE DEF rows
<1>12. /\ TotalFor(moves, a)
             = TotalFor(Transfers(moves), a) + SumFunctionOnSet(planned, incomes)
                 - SumFunctionOnSet(real, expenses)
       /\ TotalFor(moves, a) \in Int
  BY <1>3, <1>8, <1>10, <1>11
<1>13. \A s, m, t, i, r, l \in Int : m = t + i - r => (s + m) - l = (s + i - (l + r)) + t
  OBVIOUS
<1>14. SavingsSecured(a, p, today, FALSE) = (Start[p][a] + TotalFor(moves, a)) - SumFunctionOnSet(left, expenses)
  BY <1>2, <1>6
<1>15. SavingsProjected(a, p) = Start[p][a] + SumFunctionOnSet(planned, incomes)
          - (SumFunctionOnSet(left, expenses) + SumFunctionOnSet(real, expenses))
  BY <1>7, <1>9
<1>16. (Start[p][a] + TotalFor(moves, a)) - SumFunctionOnSet(left, expenses)
         = (Start[p][a] + SumFunctionOnSet(planned, incomes)
              - (SumFunctionOnSet(left, expenses) + SumFunctionOnSet(real, expenses)))
             + TotalFor(Transfers(moves), a)
  BY <1>2, <1>3, <1>11, <1>12, <1>13
<1> QED
  BY <1>2, <1>14, <1>15, <1>16

\* Prudence meets the plan: once the income came in as planned and nothing is
\* overrun, the secured savings equal the projected ones, up to the transfers
\* made (engine/savings.go).
THEOREM SecuredSavingsMeetPlan == Spec => []SecuredMeetsPlan
<1>1. ASSUME TypeOK, EnvelopesIntact PROVE SecuredMeetsPlan
  BY <1>1, SecuredIsPlan, FiguresAssumption DEF SecuredMeetsPlan
<1>2. TypeInv => TypeOK
  BY DEF TypeInv
<1> QED
  BY <1>1, <1>2, TypeInvariant, EnvelopesStayIntact, PTL

----------------------------------------------------------------------------
(* The curve and the projection *)

\* Today's real balance and the movements to come make up the projected end.
LEMMA CurveEnds ==
    ASSUME TypeOK, NEW a \in Accounts, NEW p \in Periods, NEW today, NEW order
    PROVE  LET curve == Curve(a, p, today, order)
               n == Cardinality(ToCome(a, p, today))
           IN  /\ n \in Nat /\ DOMAIN curve = 0..n /\ Cardinality(DOMAIN curve) - 1 = n
               /\ \A i \in 0..n : curve[i] \in Int
               /\ curve[n] = ProjectedEnd(a, p)
<1> DEFINE moves == ToCome(a, p, today)
           n == Cardinality(moves)
           curve == Curve(a, p, today, order)
           all == MovesOf(a, p)
           counted == CountedMoves(a, p, today)
           upTo(i) == {t \in moves : Place(t, moves, order) <= i}
           f == AmountsFor(a)
<1> SUFFICES /\ n \in Nat /\ DOMAIN curve = 0..n /\ Cardinality(DOMAIN curve) - 1 = n
             /\ \A i \in 0..n : curve[i] \in Int
             /\ curve[n] = ProjectedEnd(a, p)
  OBVIOUS
<1>1. /\ all \in SUBSET RowIds /\ moves \in SUBSET all /\ counted \in SUBSET all
      /\ all \ counted = moves /\ \A i : upTo(i) \in SUBSET moves
  <2>1. all \in SUBSET RowIds
    BY RowSets
  <2> QED
    BY <2>1 DEF ToCome, CountedMoves, Counted
<1>2. IsFiniteSet(all) /\ IsFiniteSet(moves) /\ n \in Nat
  <2> HIDE DEF all, moves
  <2>1. IsFiniteSet(all) /\ IsFiniteSet(moves)
    BY <1>1, RowSets
  <2> QED
    BY <2>1, FS_CardinalityType
<1>3. /\ curve = [i \in 0..n |-> RealBalance(a, p, today) + TotalFor(upTo(i), a)]
      /\ RealBalance(a, p, today) = Start[p][a] + TotalFor(counted, a)
      /\ ProjectedEnd(a, p) = Start[p][a] + TotalFor(all, a)
  <2> DEFINE place == [t \in moves |-> Place(t, moves, order)]
  <2>1. \A i : {t \in moves : place[t] <= i} = upTo(i)
    OBVIOUS
  <2>2. curve = [i \in 0..n |-> RealBalance(a, p, today) + TotalFor({t \in moves : place[t] <= i}, a)]
    BY DEF Curve
  <2>3. curve = [i \in 0..n |-> RealBalance(a, p, today) + TotalFor(upTo(i), a)]
    <3> HIDE DEF moves, n, curve, place, upTo
    <3> QED BY <2>1, <2>2
  <2> QED
    BY <2>3 DEF RealBalance, ProjectedEnd
<1>4. \A t \in moves : Place(t, moves, order) <= n
  <2> SUFFICES ASSUME NEW t \in moves PROVE Place(t, moves, order) <= n
    OBVIOUS
  <2>1. {u \in moves : u = t \/ Precedes(u, t, order)} \in SUBSET moves
    OBVIOUS
  <2> HIDE DEF moves
  <2> QED
    BY <1>2, <2>1, FS_Subset DEF Place
<1>5. upTo(n) = moves
  BY <1>4
<1>6. /\ TotalFor(all, a) = SumFunctionOnSet(f, all)
      /\ TotalFor(counted, a) = SumFunctionOnSet(f, counted)
      /\ TotalFor(moves, a) = SumFunctionOnSet(f, moves)
      /\ TotalFor(counted, a) \in Int /\ TotalFor(moves, a) \in Int
      /\ \A i : TotalFor(upTo(i), a) \in Int
      /\ \A t \in all : f[t] \in Int
  <2>1. /\ all \in SUBSET RowIds /\ counted \in SUBSET RowIds /\ moves \in SUBSET RowIds
        /\ \A i : upTo(i) \in SUBSET RowIds
    <3> HIDE DEF all, counted, moves, upTo
    <3> QED BY <1>1
  <2> HIDE DEF all, counted, moves, upTo
  <2> QED
    BY <2>1, TotalForIs DEF f
<1>7. Start[p][a] \in Int
  BY BalanceIs
<1> HIDE DEF moves, n, curve, all, counted, upTo, f
<1>8. SumFunctionOnSet(f, all) = SumFunctionOnSet(f, counted) + SumFunctionOnSet(f, all \ counted)
  BY <1>1, <1>2, <1>6, SumSplit
<1>9. DOMAIN curve = 0..n /\ Cardinality(DOMAIN curve) - 1 = n
  <2>1. DOMAIN curve = 0..n
    BY <1>3
  <2>2. Cardinality(0..n) = n + 1
    BY <1>2, FS_Interval
  <2> QED
    BY <1>2, <2>1, <2>2
<1>10. RealBalance(a, p, today) \in Int
  BY <1>3, <1>6, <1>7
<1>11. \A i \in 0..n : curve[i] = RealBalance(a, p, today) + TotalFor(upTo(i), a)
  BY <1>3
<1>12. \A i \in 0..n : curve[i] \in Int
  BY <1>6, <1>10, <1>11
<1>13. curve[n] = RealBalance(a, p, today) + TotalFor(moves, a)
  BY <1>2, <1>5, <1>11
<1>14. TotalFor(all, a) = TotalFor(counted, a) + TotalFor(moves, a)
  BY <1>1, <1>6, <1>8
<1> QED
  BY <1>2, <1>3, <1>6, <1>7, <1>9, <1>12, <1>13, <1>14

\* Every movement is counted once, in today's real balance or on the timeline:
\* whatever today is, the curve leads from one to the projected end
\* (engine/lowpoint.go, engine/balances.go).
THEOREM CurvesMeetProjections == Spec => []CurveMeetsProjection
<1>1. TypeInv => CurveMeetsProjection
  BY CurveEnds DEF CurveMeetsProjection, TypeInv
<1> QED
  BY <1>1, TypeInvariant, PTL

----------------------------------------------------------------------------
(* The low points *)

\* A low point is the least value of its curve, and no end is below it.
LEMMA LowPointIs ==
    ASSUME TypeOK, NEW a \in Accounts, NEW p \in Periods, NEW today, NEW order
    PROVE  LET curve == Curve(a, p, today, order)
           IN  /\ LowPoint(a, p, today, order) = Min({curve[i] : i \in DOMAIN curve})
               /\ LowPoint(a, p, today, order) \in Int
               /\ LowPoint(a, p, today, order) <= ProjectedEnd(a, p)
               /\ curve[Cardinality(DOMAIN curve) - 1] = ProjectedEnd(a, p)
<1> DEFINE curve == Curve(a, p, today, order)
           n == Cardinality(ToCome(a, p, today))
           values == {curve[i] : i \in DOMAIN curve}
           low == LowPoint(a, p, today, order)
<1> SUFFICES low = Min(values) /\ low \in Int /\ low <= ProjectedEnd(a, p)
               /\ curve[Cardinality(DOMAIN curve) - 1] = ProjectedEnd(a, p)
  OBVIOUS
<1>1. /\ n \in Nat /\ DOMAIN curve = 0..n /\ Cardinality(DOMAIN curve) - 1 = n
      /\ \A i \in 0..n : curve[i] \in Int
      /\ curve[n] = ProjectedEnd(a, p)
  BY CurveEnds
<1>2. low = Min(values)
  BY DEF LowPoint
<1> HIDE DEF curve, n, low
<1>3. IsFiniteSet(DOMAIN curve) /\ DOMAIN curve # {} /\ n \in DOMAIN curve
  <2>1. IsFiniteSet(0..n)
    BY <1>1, FS_Interval
  <2>2. n \in 0..n
    BY <1>1
  <2> QED
    BY <1>1, <2>1, <2>2
<1>4. PICK i \in DOMAIN curve : \A j \in DOMAIN curve : curve[i] <= curve[j]
  BY <1>1, <1>3, LeastValue
<1>5. \E x \in values : \A y \in values : x <= y
  BY <1>4
<1>6. Min(values) \in values /\ \A y \in values : Min(values) <= y
  <2> HIDE DEF values
  <2> QED BY <1>5 DEF Min
<1>7. curve[n] \in values /\ \A y \in values : y \in Int
  BY <1>1, <1>3
<1> HIDE DEF values
<1> QED
  BY <1>1, <1>2, <1>6, <1>7

LEMMA ScopeFacts ==
    ASSUME NEW scope \in Scopes
    PROVE  /\ scope.accounts \in SUBSET Accounts /\ IsFiniteSet(scope.accounts)
           /\ scope.kind = "carry" => \E a \in Accounts : scope.accounts = {a}
<1>1. CurrentAccounts \in SUBSET Accounts
  BY DEF CurrentAccounts
<1>2. scope.accounts \in SUBSET Accounts /\ (scope.kind = "carry" => \E a \in Accounts : scope.accounts = {a})
  BY <1>1 DEF Scopes, SingleScopes
<1> QED
  BY <1>2, LedgerAssumption, FS_Subset

\* The curve drawn is that of an account of the scope no other is below.
LEMMA WorstIs ==
    ASSUME TypeOK, NEW scope \in Scopes, scope.accounts # {}, NEW p \in Periods, NEW today, NEW order
    PROVE  LET worst == WorstAccounts(scope, p, today, order)
           IN  /\ worst \in SUBSET scope.accounts /\ worst # {}
               /\ \A a \in worst, b \in scope.accounts :
                     LowPoint(a, p, today, order) <= LowPoint(b, p, today, order)
               /\ \E a \in worst : TimelineCurve(scope, p, today, order) = Curve(a, p, today, order)
<1> DEFINE S == scope.accounts
           low == [a \in S |-> LowPoint(a, p, today, order)]
           worst == {a \in S : \A b \in S : low[a] <= low[b]}
           any == CHOOSE x \in worst : TRUE
           lows == LowPoints(scope, p, today, order)
<1>1. \A a \in S : low[a] = LowPoint(a, p, today, order) /\ low[a] \in Int
  BY ScopeFacts, LowPointIs
<1>2. worst # {}
  <2> HIDE DEF low
  <2> QED BY <1>1, ScopeFacts, LeastValue
<1>3. WorstAccounts(scope, p, today, order) = worst
  <2>1. /\ \A a \in S : low[a] \in lows
        /\ \A x \in lows : \E a \in S : x = low[a]
    BY DEF LowPoints
  <2>2. WorstAccounts(scope, p, today, order) = {a \in S : low[a] = Min(lows)}
    BY DEF WorstAccounts
  <2>3. PICK w \in S : \A b \in S : low[w] <= low[b]
    BY <1>2
  <2> HIDE DEF low, lows, S
  <2>4. \E x \in lows : \A y \in lows : x <= y
    BY <2>1, <2>3
  <2>5. Min(lows) \in lows /\ \A y \in lows : Min(lows) <= y
    BY <2>4 DEF Min
  <2>6. \A x \in lows : x \in Int
    BY <1>1, <2>1
  <2>7. \A a \in S : low[a] = Min(lows) <=> \A b \in S : low[a] <= low[b]
    BY <1>1, <2>1, <2>5, <2>6
  <2> QED
    BY <2>2, <2>7
<1>4. worst \in SUBSET S /\ \A a \in worst, b \in S : LowPoint(a, p, today, order) <= LowPoint(b, p, today, order)
  <2> HIDE DEF low
  <2> QED BY <1>1
<1>5. TimelineCurve(scope, p, today, order) = Curve(any, p, today, order)
  <2> HIDE DEF worst
  <2> QED BY <1>3 DEF TimelineCurve
<1>6. any \in worst
  <2> HIDE DEF worst
  <2> QED BY <1>2
<1> HIDE DEF worst, any
<1> QED
  BY <1>3, <1>2, <1>4, <1>5, <1>6

\* The panel and the curve drawn beside it tell one story: the low point is the
\* minimum of the curve, no account of the scope ends below it, and an account
\* that carries its balance over ends where the curve does
\* (services/forecast.go figures, timeline).
THEOREM LowPointsTellOneStory == Spec => []LowPointsAgree
<1>1. ASSUME TypeOK, NEW scope \in Scopes, NEW p \in Periods, NEW today \in Dates, NEW order \in IdOrders,
             scope.accounts # {}
      PROVE  LET curve == TimelineCurve(scope, p, today, order)
                 low == Min({curve[i] : i \in DOMAIN curve})
                 panel == Panel(scope, p, today, order)
             IN  IF scope.kind = "carry"
                 THEN panel.end = {curve[Cardinality(DOMAIN curve) - 1]}
                 ELSE /\ panel.low = {low}
                      /\ \A a \in scope.accounts : low <= ProjectedEnd(a, p)
  <2> USE <1>1
  <2> DEFINE S == scope.accounts
             worst == WorstAccounts(scope, p, today, order)
             curve == TimelineCurve(scope, p, today, order)
             least == Min({curve[i] : i \in DOMAIN curve})
             panel == Panel(scope, p, today, order)
  <2> SUFFICES IF scope.kind = "carry"
               THEN panel.end = {curve[Cardinality(DOMAIN curve) - 1]}
               ELSE panel.low = {least} /\ \A a \in S : least <= ProjectedEnd(a, p)
    OBVIOUS
  <2>1. /\ worst \in SUBSET S /\ S \in SUBSET Accounts
        /\ \A a \in worst, b \in S : LowPoint(a, p, today, order) <= LowPoint(b, p, today, order)
    BY WorstIs, ScopeFacts
  <2>2. PICK w \in worst : curve = Curve(w, p, today, order)
    BY WorstIs
  <2>3. w \in Accounts /\ w \in S
    BY <2>1, <2>2
  <2>4. /\ least = LowPoint(w, p, today, order)
        /\ curve[Cardinality(DOMAIN curve) - 1] = ProjectedEnd(w, p)
    <3> HIDE DEF curve
    <3> QED BY <2>2, <2>3, LowPointIs
  <2>5. \A a \in S : LowPoint(a, p, today, order) \in Int /\ LowPoint(a, p, today, order) <= ProjectedEnd(a, p)
    BY <2>1, LowPointIs
  <2>6. \A a \in S : ProjectedEnd(a, p) \in Int
    BY <2>1, BalanceIs
  <2>7. CASE scope.kind = "carry"
    <3>1. panel.end = {SumFunction([a \in S |-> ProjectedEnd(a, p)])}
      BY <2>7 DEF Panel
    <3>2. S = {w}
      BY <2>3, <2>7, ScopeFacts
    <3> DEFINE f == [a \in S |-> ProjectedEnd(a, p)]
    <3>3. SumFunction(f) = SumFunctionOnSet(f, S)
      BY SumFunctionIs
    <3>4. f[w] = ProjectedEnd(w, p) /\ f[w] \in Int /\ IsFiniteSet(S)
      BY <2>3, <2>6, ScopeFacts
    <3>5. SumFunctionOnSet(f, S) = f[w]
      <4> HIDE DEF f, S
      <4> QED BY <2>3, <3>2, <3>4, SumOne
    <3> QED
      BY <2>4, <2>7, <3>1, <3>3, <3>4, <3>5
  <2>8. CASE scope.kind # "carry"
    <3>1. panel.low = {LowPoint(a, p, today, order) : a \in worst}
      BY <2>8 DEF Panel
    <3>2. \A a \in worst : LowPoint(a, p, today, order) = least
      BY <2>1, <2>2, <2>3, <2>4, <2>5
    <3>3. panel.low = {least}
      <4> HIDE DEF worst, panel, least
      <4> QED BY <2>2, <3>1, <3>2
    <3>4. \A a \in S : least <= ProjectedEnd(a, p)
      <4> SUFFICES ASSUME NEW a \in S PROVE least <= ProjectedEnd(a, p)
        OBVIOUS
      <4>1. /\ LowPoint(w, p, today, order) <= LowPoint(a, p, today, order)
            /\ LowPoint(a, p, today, order) <= ProjectedEnd(a, p)
            /\ LowPoint(w, p, today, order) \in Int /\ LowPoint(a, p, today, order) \in Int
            /\ ProjectedEnd(a, p) \in Int
        BY <2>1, <2>2, <2>3, <2>5, <2>6
      <4> HIDE DEF least
      <4> QED BY <2>4, <4>1
    <3> QED
      BY <2>8, <3>3, <3>4
  <2> QED
    BY <2>7, <2>8
<1>2. TypeInv => LowPointsAgree
  BY <1>1 DEF LowPointsAgree, TypeInv
<1> QED
  BY <1>2, TypeInvariant, PTL

----------------------------------------------------------------------------
(* The curve is the running balance of the sorted movements *)

LEMMA OrderingDayType ==
    ASSUME TypeOK, NEW t \in RowIds
    PROVE  OrderingDay(t) \in Int
<1> DEFINE row == transactions[t]
           date == ExpectedDate(row)
<1>1. row.period \in Nat /\ (row.date = None \/ row.date \in Dates)
  <2>1. row.period \in Periods /\ row.date \in Dates \cup {None}
    BY RowType DEF TransactionRow
  <2> QED
    BY <2>1, LedgerAssumption
<1>2. MonthLength \in Nat /\ \A d \in Dates : d.period \in Nat /\ d.day \in Nat
  BY LedgerAssumption DEF Dates
<1>3. date.period \in Nat /\ date.day \in Nat
  <2>1. CASE row.date # None
    BY <1>1, <1>2, <2>1 DEF ExpectedDate
  <2>2. CASE row.date = None
    <3> DEFINE lines == {e \in EnvelopeIds :
                           /\ envelopes[e].mode = "fixed_recurring"
                           /\ envelopes[e].day # None
                           /\ envelopes[e].cat = row.cat
                           /\ envelopes[e].acc = row.acc}
               clamped == {IF envelopes[e].day > MonthLength THEN MonthLength ELSE envelopes[e].day :
                             e \in lines}
               day == IF clamped = {} THEN MonthLength ELSE CHOOSE d \in clamped : TRUE
    <3>1. date = [period |-> row.period, day |-> day]
      BY <2>2 DEF ExpectedDate
    <3>2. \A d \in clamped : d \in Nat
      <4>1. \A e \in lines : envelopes[e].day \in Nat
        BY EnvelopeType, LedgerAssumption DEF EnvelopeRow
      <4> QED
        BY <1>2, <4>1
    <3>3. day \in Nat
      <4> HIDE DEF clamped
      <4> QED BY <1>2, <3>2
    <3> HIDE DEF day
    <3> QED
      BY <1>1, <3>1, <3>3
  <2> QED
    BY <2>1, <2>2
<1> HIDE DEF date
<1>4. date.period * MonthLength \in Int
  BY <1>2, <1>3
<1> QED
  BY <1>3, <1>4 DEF OrderingDay, DayNumber, date

\* The places of the movements are 1, 2, 3... in the order of their days, rows
\* of one day by id, and each point of the curve adds the movement of its place
\* to the point before (engine/lowpoint.go LowPoint).
THEOREM CurveRunsInOrder ==
    ASSUME TypeOK, NEW a \in Accounts, NEW p \in Periods, NEW today, NEW order \in IdOrders
    PROVE  LET moves == ToCome(a, p, today)
               place(t) == Place(t, moves, order)
               curve == Curve(a, p, today, order)
           IN  \A t \in moves :
                 /\ place(t) \in 1..Cardinality(moves)
                 /\ \A u \in moves : t # u => (place(t) < place(u) <=> Precedes(t, u, order))
                 /\ \A u \in moves : t # u => place(t) # place(u)
                 /\ curve[place(t)] = curve[place(t) - 1] + AmountFor(transactions[t], a)
<1> DEFINE moves == ToCome(a, p, today)
           n == Cardinality(moves)
           upTo(t) == {u \in moves : u = t \/ Precedes(u, t, order)}
           place(t) == Place(t, moves, order)
           curve == Curve(a, p, today, order)
           within(i) == {t \in moves : place(t) <= i}
<1>1. moves \in SUBSET RowIds /\ IsFiniteSet(moves) /\ n \in Nat
  <2>1. moves \in SUBSET RowIds
    BY RowSets DEF ToCome
  <2> HIDE DEF moves
  <2>2. IsFiniteSet(moves)
    BY <2>1, RowSets
  <2> QED
    BY <2>1, <2>2, FS_CardinalityType
<1>2. \A t \in moves : OrderingDay(t) \in Int /\ order[t] \in Int
  <2>1. \A t \in moves : OrderingDay(t) \in Int
    BY <1>1, OrderingDayType
  <2>2. order \in [TxnIds -> 1..Cardinality(TxnIds)]
    BY DEF IdOrders, Bijection, Injection
  <2>3. \A t \in moves : order[t] \in 1..Cardinality(TxnIds)
    BY <1>1, <2>2 DEF RowIds
  <2> QED
    BY <2>1, <2>3
<1>3. \A t, u \in moves : order[t] = order[u] => t = u
  BY <1>1 DEF IdOrders, Bijection, Injection, RowIds, IsInjective
<1>4. \A t, u \in moves : t # u => (Precedes(t, u, order) <=> ~ Precedes(u, t, order))
  BY <1>2, <1>3 DEF Precedes
<1>5. \A t, u, x \in moves : Precedes(t, u, order) /\ Precedes(u, x, order) => Precedes(t, x, order)
  BY <1>2 DEF Precedes
<1>6. \A t \in moves : /\ upTo(t) \in SUBSET moves /\ t \in upTo(t) /\ IsFiniteSet(upTo(t))
                       /\ place(t) = Cardinality(upTo(t)) /\ place(t) \in 1..n
  <2> SUFFICES ASSUME NEW t \in moves
      PROVE  /\ upTo(t) \in SUBSET moves /\ t \in upTo(t) /\ IsFiniteSet(upTo(t))
             /\ place(t) = Cardinality(upTo(t)) /\ place(t) \in 1..n
    OBVIOUS
  <2>1. upTo(t) \in SUBSET moves /\ t \in upTo(t) /\ place(t) = Cardinality(upTo(t))
    BY DEF Place
  <2> HIDE DEF moves, upTo, place
  <2>2. IsFiniteSet(upTo(t)) /\ Cardinality(upTo(t)) <= n /\ Cardinality(upTo(t)) \in Nat
    BY <1>1, <2>1, FS_Subset, FS_CardinalityType DEF n
  <2>3. Cardinality(upTo(t)) # 0
    BY <2>1, <2>2, FS_EmptySet
  <2> HIDE DEF n
  <2> QED
    BY <1>1, <2>1, <2>2, <2>3
<1>7. ASSUME NEW t \in moves, NEW u \in moves, t # u, Precedes(t, u, order)
      PROVE  place(t) < place(u)
  <2>1. upTo(t) \in SUBSET upTo(u)
    BY <1>5, <1>7
  <2>2. u \in upTo(u) /\ u \notin upTo(t)
    BY <1>4, <1>7
  <2> HIDE DEF upTo, place, moves, n
  <2>3. Cardinality(upTo(t)) <= Cardinality(upTo(u)) /\ Cardinality(upTo(t)) # Cardinality(upTo(u))
    BY <1>6, <1>7, <2>1, <2>2, FS_Subset
  <2> QED
    BY <1>1, <1>6, <1>7, <2>3
<1>8. \A t, u \in moves : t # u => (place(t) < place(u) <=> Precedes(t, u, order)) /\ place(t) # place(u)
  <2> HIDE DEF place, moves, n, upTo
  <2>1. \A t \in moves : place(t) \in Int
    BY <1>1, <1>6
  <2> QED BY <1>4, <1>7, <2>1
<1>9. ASSUME NEW t \in moves
      PROVE  curve[place(t)] = curve[place(t) - 1] + AmountFor(transactions[t], a)
  <2> DEFINE k == place(t)
             f == AmountsFor(a)
  <2>1. k \in 1..n /\ k \in 0..n /\ k - 1 \in 0..n
    <3>1. k \in 1..n
      BY <1>6
    <3> HIDE DEF k, n
    <3> QED BY <1>1, <3>1
  <2>2. curve = [i \in 0..n |-> RealBalance(a, p, today) + TotalFor(within(i), a)]
    <3> DEFINE places == [u \in moves |-> Place(u, moves, order)]
    <3>1. \A i : {u \in moves : places[u] <= i} = within(i)
      OBVIOUS
    <3>2. curve = [i \in 0..n |-> RealBalance(a, p, today) + TotalFor({u \in moves : places[u] <= i}, a)]
      BY DEF Curve
    <3> HIDE DEF moves, n, curve, places, within
    <3> QED BY <3>1, <3>2
  <2>3. t \in within(k) /\ within(k) \ {t} = within(k - 1)
    <3> HIDE DEF moves, place, n
    <3>1. \A u \in moves : place(u) \in Int /\ (u # t => place(u) # place(t))
      <4>1. \A u \in moves : place(u) \in Int
        <5>1. \A u \in moves : place(u) \in 1..n
          BY <1>6
        <5> QED BY <1>1, <5>1
      <4>2. \A u \in moves : u # t => place(u) # place(t)
        BY <1>8
      <4> QED BY <4>1, <4>2
    <3>2. \A u \in moves : place(u) <= k - 1 <=> place(u) <= k /\ u # t
      BY <3>1
    <3> QED BY <3>1, <3>2
  <2>4. within(k) \in SUBSET RowIds /\ within(k - 1) \in SUBSET RowIds /\ IsFiniteSet(within(k))
    <3>1. within(k) \in SUBSET RowIds /\ within(k - 1) \in SUBSET RowIds
      <4> HIDE DEF moves, place
      <4> QED BY <1>1
    <3> HIDE DEF within
    <3> QED BY <3>1, RowSets
  <2>5. f[t] = AmountFor(transactions[t], a) /\ f[t] \in Int
    BY <1>1, AmountType DEF AmountsFor
  <2> HIDE DEF within, k, f, curve, place, moves, n
  <2>6. /\ TotalFor(within(k), a) = SumFunctionOnSet(f, within(k))
        /\ TotalFor(within(k - 1), a) = SumFunctionOnSet(f, within(k - 1))
        /\ TotalFor(within(k - 1), a) \in Int
        /\ \A u \in within(k) : f[u] \in Int
    BY <2>4, TotalForIs DEF f
  <2>7. SumFunctionOnSet(f, within(k)) = f[t] + SumFunctionOnSet(f, within(k) \ {t})
    BY <2>3, <2>4, <2>6, SumRemove
  <2>8. TotalFor(within(k), a) = f[t] + TotalFor(within(k - 1), a)
    BY <2>3, <2>6, <2>7
  <2>9. curve[k] = RealBalance(a, p, today) + TotalFor(within(k), a)
        /\ curve[k - 1] = RealBalance(a, p, today) + TotalFor(within(k - 1), a)
    BY <2>1, <2>2
  <2>10. RealBalance(a, p, today) \in Int
    <3>1. CountedMoves(a, p, today) \in SUBSET RowIds
      BY RowSets DEF CountedMoves
    <3> QED BY <3>1, BalanceIs, TotalForIs DEF RealBalance
  <2>11. curve[k] = curve[k - 1] + AmountFor(transactions[t], a)
    BY <2>5, <2>6, <2>8, <2>9, <2>10
  <2> QED
    BY <2>11 DEF k
<1> QED
  BY <1>6, <1>8, <1>9

----------------------------------------------------------------------------
(* The footer, where it is right *)

\* The keys of a table: the lines that stand alone, and the groups of the others
\* under which their values are added up.
GroupsLines(v, w, lines, top, groups, members, keys) ==
    /\ IsFiniteSet(lines) /\ IsFiniteSet(groups)
    /\ top \in SUBSET lines /\ groups \cap top = {} /\ keys = top \cup groups
    /\ members \in [groups -> SUBSET (lines \ top)]
    /\ \A e \in lines \ top : \E g \in groups : e \in members[g]
    /\ \A g, h \in groups : g # h => members[g] \cap members[h] = {}
    /\ \A e \in lines : v[e] \in Int
    /\ \A e \in top : w[e] = v[e]
    /\ \A g \in groups : w[g] = SumFunctionOnSet(v, members[g])

\* A sum over the keys is the sum over the lines.
LEMMA GroupedSum ==
    ASSUME NEW v, NEW w, NEW lines, NEW top, NEW groups, NEW members, NEW keys,
           GroupsLines(v, w, lines, top, groups, members, keys)
    PROVE  SumFunctionOnSet(w, keys) = SumFunctionOnSet(v, lines)
<1> USE DEF GroupsLines
<1> DEFINE rest == lines \ top
           group == [e \in rest |-> CHOOSE g \in groups : e \in members[g]]
           byGroup == [g \in groups |-> SumFunctionOnSet(v, {e \in rest : group[e] = g})]
<1>10. /\ \A e \in rest : group[e] \in groups /\ e \in members[group[e]]
       /\ \A g \in groups : \A e : e \in members[g] <=> e \in rest /\ group[e] = g
  <2>1. \A e \in rest : group[e] \in groups /\ e \in members[group[e]]
    OBVIOUS
  <2> HIDE DEF group
  <2> QED BY <2>1
<1> HIDE DEF group
<1>0. \A g \in groups : w[g] = SumFunctionOnSet(v, {e \in rest : group[e] = g})
  <2> SUFFICES ASSUME NEW g \in groups
               PROVE  w[g] = SumFunctionOnSet(v, {e \in rest : group[e] = g})
    OBVIOUS
  <2>1. members[g] = {e \in rest : group[e] = g}
    BY <1>10
  <2> QED BY <2>1
<1>1. IsFiniteSet(rest) /\ IsFiniteSet(top) /\ IsFiniteSet(keys)
  BY FS_Subset, FS_Union
<1>2. \A g \in groups : w[g] \in Int
  <2> SUFFICES ASSUME NEW g \in groups PROVE w[g] \in Int
    OBVIOUS
  <2> DEFINE fiber == {e \in rest : group[e] = g}
  <2>1. IsFiniteSet(fiber) /\ \A e \in fiber : v[e] \in Int
    BY <1>1, FS_Subset
  <2>2. w[g] = SumFunctionOnSet(v, fiber)
    BY <1>0
  <2> HIDE DEF fiber
  <2> QED BY <2>1, <2>2, SumType
<1>3. \A k \in keys : w[k] \in Int
  BY <1>2
<1>4. top \in SUBSET keys /\ keys \ top = groups
  OBVIOUS
<1>5. SumFunctionOnSet(w, keys) = SumFunctionOnSet(w, top) + SumFunctionOnSet(w, groups)
  BY <1>1, <1>3, <1>4, SumSplit
<1>6. SumFunctionOnSet(w, top) = SumFunctionOnSet(v, top)
  BY <1>1, SumSame
<1>7. SumFunctionOnSet(w, groups) = SumFunctionOnSet(byGroup, groups)
  <2>1. \A g \in groups : w[g] = byGroup[g]
    BY <1>0
  <2> HIDE DEF byGroup
  <2> QED BY <2>1, SumSame
<1>8. SumFunctionOnSet(v, rest) = SumFunctionOnSet(byGroup, groups)
  <2>1. \A e \in rest : v[e] \in Int /\ group[e] \in groups
    BY <1>10
  <2> HIDE DEF rest
  <2> QED BY <1>1, <2>1, SumByKey
<1>9. SumFunctionOnSet(v, lines) = SumFunctionOnSet(v, top) + SumFunctionOnSet(v, rest)
  BY SumSplit
<1> QED
  BY <1>5, <1>6, <1>7, <1>8, <1>9

LEMMA LeafFacts ==
    ASSUME TypeOK, NEW scope, NEW p \in Periods
    PROVE  /\ IsFiniteSet(LeafEnvelopes(scope)) /\ LeafEnvelopes(scope) \in SUBSET Envelopes
           /\ \A e \in LeafEnvelopes(scope) :
                 /\ e \in EnvelopeIds /\ envelopes[e].cat \in Categories
                 /\ Planned(e, p) \in Int /\ Real(e, p) \in Int
                 /\ Remaining(e, p) = Planned(e, p) - Real(e, p)
                 /\ Remaining(e, p) \in Int
<1> DEFINE leaves == LeafEnvelopes(scope)
<1>1. leaves \in SUBSET EnvelopeIds /\ leaves \in SUBSET Envelopes
  BY DEF LeafEnvelopes, EnvelopeIds
<1>2. IsFiniteSet(leaves)
  BY <1>1, LedgerAssumption, FS_Subset
<1>3. ASSUME NEW e \in leaves
      PROVE  /\ e \in EnvelopeIds /\ envelopes[e].cat \in Categories
             /\ Planned(e, p) \in Int /\ Real(e, p) \in Int
             /\ Remaining(e, p) = Planned(e, p) - Real(e, p)
             /\ Remaining(e, p) \in Int
  <2>1. e \in EnvelopeIds /\ e \in Envelopes /\ envelopes[e].cat \in Categories
    BY <1>1, EnvelopeType DEF EnvelopeRow
  <2>2. Planned(e, p) \in Int
    BY <2>1, PlannedType
  <2>3. Real(e, p) \in Int
    <3>1. \A statuses : ConsumedBy(e, p, statuses) \in Int
      BY ConsumedIs
    <3> QED BY <3>1 DEF Real
  <2> QED
    BY <2>1, <2>2, <2>3 DEF Remaining
<1> QED
  BY <1>1, <1>2, <1>3

\* One column of the footer, the others being alike.
LEMMA FooterColumn ==
    ASSUME TypeOK, NEW scope, NEW p \in Periods, NEW parent \in Parents,
           \A g \in Groups : \A e \in ChildrenIn(scope, parent, g) : FlowOf(e) = "expense",
           NEW v, NEW w, NEW keys,
           keys = {k \in DOMAIN TreeRows(scope, p, parent) :
                     TreeRows(scope, p, parent)[k].flow = "expense"},
           \A e \in LeafEnvelopes(scope) : v[e] \in Int,
           \A e \in ChildrenIn(scope, parent, None) : FlowOf(e) = "expense" => w[e] = v[e],
           \A g \in Groups : ChildrenIn(scope, parent, g) # {} =>
              w[g] = SumFunctionOnSet(v, ChildrenIn(scope, parent, g))
    PROVE  SumFunctionOnSet(w, keys)
             = SumFunctionOnSet(v, {e \in LeafEnvelopes(scope) : FlowOf(e) = "expense"})
<1> DEFINE leaves == LeafEnvelopes(scope)
           lines == {e \in leaves : FlowOf(e) = "expense"}
           alone == ChildrenIn(scope, parent, None)
           top == {e \in alone : FlowOf(e) = "expense"}
           groups == {g \in Groups : ChildrenIn(scope, parent, g) # {}}
           group == [e \in leaves |-> parent[envelopes[e].cat]]
           rows == TreeRows(scope, p, parent)
           members == [g \in groups |-> ChildrenIn(scope, parent, g)]
<1>1. IsFiniteSet(leaves) /\ leaves \in SUBSET Envelopes /\ \A e \in leaves : envelopes[e].cat \in Categories
  BY LeafFacts
<1>2. \A e \in leaves : group[e] \in Groups \cup {None}
  BY <1>1 DEF Parents
<1>3. \A g : ChildrenIn(scope, parent, g) = {e \in leaves : group[e] = g}
  BY DEF ChildrenIn
<1>4. /\ IsFiniteSet(lines) /\ IsFiniteSet(groups) /\ top \in SUBSET lines
      /\ groups \cap alone = {} /\ groups \cap top = {}
  <2>1. IsFiniteSet(lines) /\ IsFiniteSet(groups)
    <3>1. lines \in SUBSET leaves /\ groups \in SUBSET Groups
      OBVIOUS
    <3> HIDE DEF lines, leaves, groups
    <3> QED BY <1>1, <3>1, GroupsAssumption, FS_Subset
  <2> QED
    BY <1>1, <1>3, <2>1, GroupsAssumption
<1>5. keys = top \cup groups
  <2>1. DOMAIN rows = alone \cup groups
    BY DEF TreeRows
  <2>2. \A k \in alone : rows[k].flow = FlowOf(k)
    BY DEF TreeRows, LeafRow
  <2>3. \A k \in groups : rows[k].flow = "expense"
    BY <1>4 DEF TreeRows, RollupParent
  <2> HIDE DEF rows, alone, groups
  <2> QED
    BY <2>1, <2>2, <2>3 DEF rows
<1>6. \A e \in lines \ top : group[e] \in groups
  <2> SUFFICES ASSUME NEW e \in lines \ top PROVE group[e] \in groups
    OBVIOUS
  <2>1. e \in leaves /\ group[e] # None
    BY <1>3
  <2>2. group[e] \in Groups /\ e \in ChildrenIn(scope, parent, group[e])
    BY <1>2, <1>3, <2>1
  <2> QED
    BY <2>2
<1>7. \A g \in groups : \A e : e \in members[g] <=> e \in lines \ top /\ group[e] = g
  <2> SUFFICES ASSUME NEW g \in groups, NEW e
               PROVE  e \in members[g] <=> e \in lines \ top /\ group[e] = g
    OBVIOUS
  <2>1. g \in Groups /\ g # None /\ members[g] = ChildrenIn(scope, parent, g)
    BY GroupsAssumption
  <2>2. e \in ChildrenIn(scope, parent, g) => FlowOf(e) = "expense"
    BY <2>1
  <2>3. /\ e \in ChildrenIn(scope, parent, g) <=> e \in leaves /\ group[e] = g
        /\ e \in ChildrenIn(scope, parent, None) <=> e \in leaves /\ group[e] = None
    <3> HIDE DEF leaves, group
    <3> QED BY <1>3
  <2>4. e \in lines \ top <=> e \in leaves /\ FlowOf(e) = "expense" /\ group[e] # None
    <3> HIDE DEF leaves, group
    <3> QED BY <2>3
  <2> HIDE DEF leaves, lines, top, group, members, groups
  <2> QED
    BY <2>1, <2>2, <2>3, <2>4
<1>8. \A e \in top : w[e] = v[e]
  OBVIOUS
<1>9. \A g \in groups : w[g] = SumFunctionOnSet(v, members[g])
  OBVIOUS
<1>10. \A e \in lines : v[e] \in Int
  OBVIOUS
<1> SUFFICES SumFunctionOnSet(w, keys) = SumFunctionOnSet(v, lines)
  OBVIOUS
<1> HIDE DEF leaves, lines, alone, top, groups, group, rows, members
<1>11. /\ IsFiniteSet(lines) /\ IsFiniteSet(groups) /\ groups \cap top = {}
       /\ top \in SUBSET lines
  BY <1>4
<1>12. SumFunctionOnSet(w, keys) = SumFunctionOnSet(v, lines)
  <2>1. members \in [groups -> SUBSET (lines \ top)]
    BY <1>7 DEF members
  <2>2. \A e \in lines \ top : \E g \in groups : e \in members[g]
    BY <1>6, <1>7
  <2>3. \A g, h \in groups : g # h => members[g] \cap members[h] = {}
    BY <1>7
  <2>4. GroupsLines(v, w, lines, top, groups, members, keys)
    BY <1>5, <1>8, <1>9, <1>10, <1>11, <2>1, <2>2, <2>3 DEF GroupsLines
  <2> QED
    BY <2>4, GroupedSum
<1> QED
  BY <1>12

\* Unless an income envelope is grouped under a parent category, the footer of
\* an account is the plan and the spending of its expense envelopes: the wrong
\* totals come from that grouping and from nothing else (services/forecast.go
\* rollupParent, ForecastTotals).
THEOREM FooterRightWhenGroupsSpend ==
    ASSUME TypeOK, NEW scope, NEW p \in Periods, NEW parent \in Parents,
           \A g \in Groups : \A e \in ChildrenIn(scope, parent, g) : FlowOf(e) = "expense"
    PROVE  LET lines == {e \in LeafEnvelopes(scope) : FlowOf(e) = "expense"}
           IN  ExpenseTotal(TreeRows(scope, p, parent))
                 = [planned |-> SumFunction([e \in lines |-> Planned(e, p)]),
                    real |-> SumFunction([e \in lines |-> Real(e, p)]),
                    remaining |-> SumFunction([e \in lines |-> Remaining(e, p)])]
<1> DEFINE leaves == LeafEnvelopes(scope)
           lines == {e \in leaves : FlowOf(e) = "expense"}
           children(g) == ChildrenIn(scope, parent, g)
           groups == {g \in Groups : children(g) # {}}
           rows == TreeRows(scope, p, parent)
           keys == {k \in DOMAIN rows : rows[k].flow = "expense"}
           planned == [e \in leaves |-> Planned(e, p)]
           real == [e \in leaves |-> Real(e, p)]
           remaining == [e \in leaves |-> Remaining(e, p)]
<1>1. /\ IsFiniteSet(leaves) /\ lines \in SUBSET leaves
      /\ \A g : children(g) \in SUBSET leaves
      /\ \A e \in leaves : /\ planned[e] \in Int /\ real[e] \in Int /\ remaining[e] \in Int
                           /\ remaining[e] = planned[e] - real[e]
                           /\ planned[e] = remaining[e] + real[e]
  <2>1. \A e \in leaves : /\ Planned(e, p) \in Int /\ Real(e, p) \in Int /\ Remaining(e, p) \in Int
                          /\ Remaining(e, p) = Planned(e, p) - Real(e, p)
    BY LeafFacts
  <2> QED
    BY <2>1, LeafFacts DEF ChildrenIn
<1>2. /\ \A e \in children(None) : /\ rows[e].planned = planned[e] /\ rows[e].real = real[e]
                                   /\ rows[e].remaining = remaining[e]
  BY <1>1 DEF TreeRows, LeafRow
<1>3. ASSUME NEW f, NEW S \in SUBSET leaves, \A e \in leaves : f[e] \in Int
      PROVE  /\ SumFunction([e \in S |-> f[e]]) = SumFunctionOnSet(f, S)
             /\ SumFunctionOnSet(f, S) \in Int
  <2> DEFINE g == [e \in S |-> f[e]]
  <2>1. IsFiniteSet(S) /\ \A e \in S : g[e] = f[e] /\ f[e] \in Int
    BY <1>1, <1>3, FS_Subset
  <2>2. SumFunction(g) = SumFunctionOnSet(g, S)
    BY SumFunctionIs
  <2> HIDE DEF g, leaves
  <2>3. SumFunctionOnSet(g, S) = SumFunctionOnSet(f, S) /\ SumFunctionOnSet(f, S) \in Int
    BY <2>1, SumSame, SumType
  <2> QED
    BY <2>2, <2>3 DEF g
<1>4. ASSUME NEW g \in groups
      PROVE  /\ rows[g].planned = SumFunctionOnSet(planned, children(g))
             /\ rows[g].real = SumFunctionOnSet(real, children(g))
             /\ rows[g].remaining = SumFunctionOnSet(remaining, children(g))
  <2> DEFINE S == children(g)
  <2>1. S \in SUBSET leaves /\ IsFiniteSet(S)
    BY <1>1, FS_Subset
  <2>2. g \in DOMAIN rows /\ g \notin children(None)
    <3>1. g \notin leaves
      BY LeafFacts, GroupsAssumption
    <3> QED
      BY <1>1, <3>1 DEF TreeRows
  <2>3. rows[g] = RollupParent(S, p)
    BY <2>2 DEF TreeRows
  <2>4. /\ [e \in S |-> Planned(e, p)] = [e \in S |-> planned[e]]
        /\ [e \in S |-> Real(e, p)] = [e \in S |-> real[e]]
    BY <2>1
  <2> HIDE DEF S, rows, planned, real, remaining, leaves
  <2>5. /\ rows[g].planned = SumFunction([e \in S |-> planned[e]])
        /\ rows[g].real = SumFunction([e \in S |-> real[e]])
        /\ rows[g].remaining = rows[g].planned - rows[g].real
    BY <2>3, <2>4 DEF RollupParent
  <2>6. /\ rows[g].planned = SumFunctionOnSet(planned, S) /\ SumFunctionOnSet(planned, S) \in Int
        /\ rows[g].real = SumFunctionOnSet(real, S) /\ SumFunctionOnSet(real, S) \in Int
        /\ SumFunctionOnSet(remaining, S) \in Int
    BY <1>1, <1>3, <2>1, <2>5
  <2>7. SumFunctionOnSet(planned, S) = SumFunctionOnSet(remaining, S) + SumFunctionOnSet(real, S)
    BY <1>1, <2>1, SumPlus
  <2>8. rows[g].remaining = SumFunctionOnSet(remaining, S)
    BY <2>5, <2>6, <2>7
  <2> QED
    BY <2>6, <2>8 DEF S
<1> DEFINE wp == [k \in keys |-> rows[k].planned]
           wr == [k \in keys |-> rows[k].real]
           wm == [k \in keys |-> rows[k].remaining]
<1>5. ExpenseTotal(rows) = [planned |-> SumFunctionOnSet(wp, keys), real |-> SumFunctionOnSet(wr, keys),
                            remaining |-> SumFunctionOnSet(wm, keys)]
  <2>1. ExpenseTotal(rows) = [planned |-> SumFunction(wp), real |-> SumFunction(wr), remaining |-> SumFunction(wm)]
    BY DEF ExpenseTotal
  <2> QED
    BY <2>1, SumFunctionIs
<1>6. /\ \A k \in keys : wp[k] = rows[k].planned /\ wr[k] = rows[k].real /\ wm[k] = rows[k].remaining
      /\ \A e \in children(None) : FlowOf(e) = "expense" => e \in keys
      /\ groups \in SUBSET keys
  <2>1. \A e \in children(None) : e \in DOMAIN rows /\ rows[e].flow = FlowOf(e)
    BY DEF TreeRows, LeafRow
  <2>2. groups \cap children(None) = {}
    BY <1>1, LeafFacts, GroupsAssumption
  <2>3. \A g \in groups : g \in DOMAIN rows /\ rows[g].flow = "expense"
    BY <2>2 DEF TreeRows, RollupParent
  <2> HIDE DEF rows, groups, children
  <2> QED
    BY <2>1, <2>3
<1>7. /\ SumFunctionOnSet(wp, keys) = SumFunctionOnSet(planned, lines)
      /\ SumFunctionOnSet(wr, keys) = SumFunctionOnSet(real, lines)
      /\ SumFunctionOnSet(wm, keys) = SumFunctionOnSet(remaining, lines)
  <2>1. /\ \A e \in children(None) : FlowOf(e) = "expense" =>
              wp[e] = planned[e] /\ wr[e] = real[e] /\ wm[e] = remaining[e]
        /\ \A g \in groups : /\ wp[g] = SumFunctionOnSet(planned, children(g))
                             /\ wr[g] = SumFunctionOnSet(real, children(g))
                             /\ wm[g] = SumFunctionOnSet(remaining, children(g))
    <3> HIDE DEF wp, wr, wm, keys, rows, planned, real, remaining, children, groups
    <3> QED BY <1>2, <1>4, <1>6
  <2>2. keys = {k \in DOMAIN TreeRows(scope, p, parent) : TreeRows(scope, p, parent)[k].flow = "expense"}
    OBVIOUS
  <2> HIDE DEF wp, wr, wm, keys, planned, real, remaining
  <2>3. SumFunctionOnSet(wp, keys) = SumFunctionOnSet(planned, lines)
    BY <1>1, <2>1, <2>2, FooterColumn
  <2>4. SumFunctionOnSet(wr, keys) = SumFunctionOnSet(real, lines)
    BY <1>1, <2>1, <2>2, FooterColumn
  <2>5. SumFunctionOnSet(wm, keys) = SumFunctionOnSet(remaining, lines)
    BY <1>1, <2>1, <2>2, FooterColumn
  <2> QED BY <2>3, <2>4, <2>5
<1>8. /\ \A e \in lines : planned[e] = Planned(e, p) /\ real[e] = Real(e, p) /\ remaining[e] = Remaining(e, p)
      /\ [e \in lines |-> Planned(e, p)] = [e \in lines |-> planned[e]]
      /\ [e \in lines |-> Real(e, p)] = [e \in lines |-> real[e]]
      /\ [e \in lines |-> Remaining(e, p)] = [e \in lines |-> remaining[e]]
  OBVIOUS
<1>9. /\ SumFunction([e \in lines |-> planned[e]]) = SumFunctionOnSet(planned, lines)
      /\ SumFunction([e \in lines |-> real[e]]) = SumFunctionOnSet(real, lines)
      /\ SumFunction([e \in lines |-> remaining[e]]) = SumFunctionOnSet(remaining, lines)
  <2> HIDE DEF planned, real, remaining, lines, leaves
  <2> QED BY <1>1, <1>3
<1> SUFFICES ExpenseTotal(rows)
               = [planned |-> SumFunction([e \in lines |-> Planned(e, p)]),
                  real |-> SumFunction([e \in lines |-> Real(e, p)]),
                  remaining |-> SumFunction([e \in lines |-> Remaining(e, p)])]
  OBVIOUS
<1> HIDE DEF planned, real, remaining, lines, rows, wp, wr, wm, keys
<1> QED
  BY <1>5, <1>7, <1>8, <1>9
=============================================================================
