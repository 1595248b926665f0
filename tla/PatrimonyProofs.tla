-------------------------- MODULE PatrimonyProofs --------------------------
(***************************************************************************)
(* Theorems about Patrimony that hold for any workers, forms, months,       *)
(* amounts, rates and bounds.                                               *)
(***************************************************************************)
EXTENDS Patrimony, SumLemmas

----------------------------------------------------------------------------
(* Rounding and the social charge, for any amounts *)

\* The rounding rule is the one its name says, for any amount and divisor: the
\* result is a nearest integer, the even one when two are as near
\* (engine/money.go RoundHalfEvenDiv).
THEOREM RoundsToNearestEven ==
    ASSUME NEW num \in Int, NEW den \in Nat \ {0}
    PROVE  LET rounded == RoundHalfEvenDiv(num, den)
               twiceOff == 2 * (num - rounded * den)
           IN  /\ rounded \in Int
               /\ -den <= twiceOff /\ twiceOff <= den
               /\ twiceOff \in {-den, den} => rounded % 2 = 0
  <1> DEFINE q == num \div den
             m == num % den
  <1>1. q \in Int /\ m \in 0..(den - 1) /\ num = q * den + m
    OBVIOUS
  <1> HIDE DEF q, m
  <1>2. q % 2 \in {0, 1} /\ (q % 2 = 1 => (q + 1) % 2 = 0)
    BY <1>1
  <1>3. RoundHalfEvenDiv(num, den) = IF 2 * m < den \/ (2 * m = den /\ q % 2 = 0) THEN q ELSE q + 1
    BY DEF RoundHalfEvenDiv, q, m
  <1>4. PICK d \in Int : d = q * den
    BY <1>1
  <1>5. (q + 1) * den = d + den
    BY <1>1, <1>4
  <1> QED
    BY <1>1, <1>2, <1>3, <1>4, <1>5

LEMMA RoundingSteps ==
    ASSUME NEW n \in Int, NEW m \in Int, NEW d \in Nat,
           n <= m, m < n + d * BasisPointsDivisor
    PROVE  /\ RoundHalfEvenDiv(n, BasisPointsDivisor) \in Int
           /\ RoundHalfEvenDiv(m, BasisPointsDivisor)
                <= RoundHalfEvenDiv(n, BasisPointsDivisor) + d
  BY DEF RoundHalfEvenDiv, BasisPointsDivisor

LEMMA ProductBounds ==
    ASSUME NEW x \in Nat, NEW r \in Nat, r < 10000, x > 0
    PROVE  x * r \in Int /\ 0 <= x * r /\ x * r < x * 10000
  <1>1. x * r \in Int /\ 0 <= x * r
    OBVIOUS
  <1>2. x * (10000 - r) = x * 10000 - x * r
    OBVIOUS
  <1>3. 0 < x * (10000 - r)
    <2> DEFINE y == 10000 - r
    <2>1. y \in Nat /\ y > 0
      OBVIOUS
    <2> HIDE DEF y
    <2>2. 0 < x * y
      BY <2>1
    <2> QED
      BY <2>2 DEF y
  <1> QED
    BY <1>1, <1>2, <1>3

LEMMA ChargeType ==
    ASSUME NEW g \in Int, NEW rate \in Nat, rate < 10000
    PROVE  ApplyRate(g, rate) \in Int
  <1>1. g * rate \in Int
    OBVIOUS
  <1> DEFINE n == g * rate
  <1> HIDE DEF n
  <1>2. RoundHalfEvenDiv(n, 10000) \in Int
    BY <1>1 DEF RoundHalfEvenDiv, n
  <1> QED
    BY <1>2 DEF ApplyRate, BasisPointsDivisor, n

LEMMA ChargeGrows ==
    ASSUME NEW g \in Int, NEW h \in Int, g < h, NEW rate \in Nat, rate < 10000
    PROVE  ApplyRate(h, rate) <= ApplyRate(g, rate) + (h - g)
  <1>1. PICK d \in Nat : d > 0 /\ h = g + d /\ d = h - g
    <2> WITNESS h - g \in Nat
    <2> QED
      OBVIOUS
  <1> DEFINE n == g * rate
             m == h * rate
  <1>2. n \in Int /\ m \in Int
    OBVIOUS
  <1>3. m = n + d * rate
    BY <1>1
  <1>4. d * rate \in Int /\ 0 <= d * rate /\ d * rate < d * 10000
    BY <1>1, ProductBounds
  <1> HIDE DEF n, m
  <1>5. n <= m /\ m < n + d * BasisPointsDivisor
    BY <1>1, <1>2, <1>3, <1>4 DEF BasisPointsDivisor
  <1>6. RoundHalfEvenDiv(m, BasisPointsDivisor)
          <= RoundHalfEvenDiv(n, BasisPointsDivisor) + d
    BY <1>2, <1>5, RoundingSteps
  <1> QED
    BY <1>1, <1>6 DEF ApplyRate, n, m

LEMMA NothingIsNotCharged ==
    ASSUME NEW rate \in Nat, rate < 10000
    PROVE  ApplyRate(0, rate) = 0
  <1>1. 0 * rate = 0
    OBVIOUS
  <1>2. RoundHalfEvenDiv(0, 10000) = 0
    BY DEF RoundHalfEvenDiv
  <1> QED
    BY <1>1, <1>2 DEF ApplyRate, BasisPointsDivisor

LEMMA NetGrowsWithGross ==
    ASSUME NEW g \in Int, NEW h \in Int, g <= h, NEW initial \in Int,
           NEW rate \in Nat, rate < 10000
    PROVE  PEANet(g, initial, rate) <= PEANet(h, initial, rate)
  <1>1. PICK x \in Int : x = g - initial
    OBVIOUS
  <1>2. PICK y \in Int : y = h - initial
    OBVIOUS
  <1>3. ApplyRate(x, rate) \in Int /\ ApplyRate(y, rate) \in Int
    BY ChargeType
  <1>4. /\ PEANet(g, initial, rate) = IF x < 0 THEN g ELSE g - ApplyRate(x, rate)
        /\ PEANet(h, initial, rate) = IF y < 0 THEN h ELSE h - ApplyRate(y, rate)
    BY <1>1, <1>2 DEF PEANet
  <1>5. CASE x = y
    BY <1>1, <1>2, <1>3, <1>4, <1>5
  <1>6. CASE x < y /\ y < 0
    BY <1>1, <1>2, <1>3, <1>4, <1>6
  <1>7. CASE x < y /\ ~(x < 0)
    <2>1. ApplyRate(y, rate) <= ApplyRate(x, rate) + (y - x)
      BY <1>7, ChargeGrows
    <2> QED
      BY <1>1, <1>2, <1>3, <1>4, <1>7, <2>1
  <1>8. CASE x < 0 /\ ~(y < 0)
    <2>1. ApplyRate(y, rate) <= y
      <3>1. CASE y = 0
        BY <3>1, NothingIsNotCharged
      <3>2. CASE 0 < y
        <4>1. ApplyRate(y, rate) <= ApplyRate(0, rate) + (y - 0)
          BY <3>2, ChargeGrows
        <4> QED
          BY <4>1, <1>3, NothingIsNotCharged
      <3> QED
        BY <1>8, <3>1, <3>2
    <2> QED
      BY <1>1, <1>2, <1>3, <1>4, <1>8, <2>1
  <1> QED
    BY <1>1, <1>2, <1>5, <1>6, <1>7, <1>8
----------------------------------------------------------------------------
(* The invariant *)

\* What the two UNIQUE indexes keep of names, what every row waiting to be
\* written back already satisfies, and that no order was refused so far.
NamesDiffer ==
    \A a, b \in DOMAIN accounts : a # b => accounts[a].name # accounts[b].name

WritesFit == \A w \in Workers : At(w, "writing") => PolicyFits(requests[w].row)

PatrimonyInv ==
    /\ TypeOK /\ NamesDiffer /\ PolicyFollowsType /\ WritesFit
    /\ OrderAlwaysAccepted

LEMMA RequestParts ==
    ASSUME NEW r \in Request
    PROVE  /\ r.at = "archiving" => r.account \in AccountIds
           /\ r.at = "writing" => r.account \in AccountIds /\ r.row \in AccountRow
           /\ r.at = "saving" => r.row \in SettingsRow
  BY DEF Request

LEMMA RequestForms ==
    /\ Idle \in Request
    /\ \A a \in AccountIds : [at |-> "archiving", account |-> a] \in Request
    /\ \A a \in AccountIds, row \in AccountRow :
         [at |-> "writing", account |-> a, row |-> row] \in Request
    /\ \A row \in SettingsRow : [at |-> "saving", row |-> row] \in Request
  BY DEF Request, Idle

LEMMA AccountTable ==
    ASSUME TypeOK
    PROVE  /\ MaxAccounts \in Nat /\ lastId \in Nat
           /\ DOMAIN accounts \subseteq AccountIds
           /\ IsFiniteSet(DOMAIN accounts)
           /\ Cardinality(DOMAIN accounts) \in 0..MaxAccounts
  <1>1. MaxAccounts \in Nat /\ lastId \in Nat /\ lastId <= MaxAccounts
    BY AccountsAssumption DEF TypeOK
  <1>2. DOMAIN accounts \subseteq AccountIds
    BY <1>1 DEF TypeOK, AccountIds
  <1>3. IsFiniteSet(AccountIds) /\ Cardinality(AccountIds) = MaxAccounts
    BY <1>1, FS_Interval DEF AccountIds
  <1>4. /\ IsFiniteSet(DOMAIN accounts)
        /\ Cardinality(DOMAIN accounts) <= MaxAccounts
    BY <1>2, <1>3, FS_Subset
  <1> QED
    BY <1>1, <1>2, <1>4, FS_CardinalityType

----------------------------------------------------------------------------
(* The cascade: the first pass clears every rank, so the second never meets *)
(* one of its own twice                                                     *)

LEMMA OrderFacts ==
    ASSUME TypeOK, NEW order \in Orders
    PROVE  /\ Len(order) \in 0..MaxAccounts /\ DOMAIN order = 1..Len(order)
           /\ \A n \in DOMAIN order : order[n] \in DOMAIN accounts
           /\ \A m, n \in DOMAIN order : order[m] = order[n] => m = n
  <1>1. PICK n \in 0..Cardinality(DOMAIN accounts) :
          order \in [1..n -> DOMAIN accounts] /\ IsInjective(order)
    BY DEF Orders
  <1>2. n \in 0..MaxAccounts
    BY <1>1, AccountTable
  <1>3. DOMAIN order = 1..n /\ Len(order) = n
    BY <1>1, <1>2
  <1> QED
    BY <1>1, <1>2, <1>3 DEF IsInjective

LEMMA RanksGiven ==
    ASSUME TypeOK, NEW order \in Orders, NEW n \in 0..Len(order),
           NEW table, table = AssignRanks(ClearRanks, order, n)
    PROVE  /\ DOMAIN table = DOMAIN accounts
           /\ \A k \in 1..n :
                table[order[k]] = [accounts[order[k]] EXCEPT !.rank = k]
           /\ \A a \in DOMAIN accounts :
                (\A k \in 1..n : order[k] # a)
                  => table[a] = [accounts[a] EXCEPT !.rank = 0]
  <1>1. /\ DOMAIN order = 1..Len(order) /\ Len(order) \in Nat
        /\ \A k \in DOMAIN order : order[k] \in DOMAIN accounts
        /\ \A k, l \in DOMAIN order : order[k] = order[l] => k = l
    BY OrderFacts, AccountTable
  <1>2. DOMAIN table = DOMAIN accounts
    BY DEF AssignRanks, ClearRanks
  <1>3. ASSUME NEW k \in 1..n
        PROVE  table[order[k]] = [accounts[order[k]] EXCEPT !.rank = k]
    <2>1. k \in DOMAIN order /\ order[k] \in DOMAIN accounts
      BY <1>1
    <2>2. \A l \in 1..n : order[l] = order[k] => l = k
      BY <1>1, <2>1
    <2>3. (CHOOSE l \in 1..n : order[l] = order[k]) = k
      BY <2>2
    <2> QED
      BY <2>1, <2>3 DEF AssignRanks, ClearRanks
  <1>4. ASSUME NEW a \in DOMAIN accounts, \A k \in 1..n : order[k] # a
        PROVE  table[a] = [accounts[a] EXCEPT !.rank = 0]
    BY <1>4 DEF AssignRanks, ClearRanks
  <1> QED
    BY <1>2, <1>3, <1>4

LEMMA RanksType ==
    ASSUME TypeOK, NEW order \in Orders, NEW n \in 0..Len(order),
           NEW table, table = AssignRanks(ClearRanks, order, n),
           NEW a \in DOMAIN accounts
    PROVE  /\ table[a] \in AccountRow
           /\ table[a].name = accounts[a].name
           /\ table[a].type = accounts[a].type
           /\ table[a].policy = accounts[a].policy
           /\ table[a].rank # 0 =>
                /\ table[a].rank \in 1..n /\ order[table[a].rank] = a
  <1>0. accounts[a] \in AccountRow /\ MaxAccounts \in Nat
    BY AccountTable DEF TypeOK
  <1>1. PICK r \in 0..n : /\ table[a] = [accounts[a] EXCEPT !.rank = r]
                          /\ r # 0 => order[r] = a
    <2>1. CASE \E k \in 1..n : order[k] = a
      <3>1. PICK k \in 1..n : order[k] = a
        BY <2>1
      <3>2. table[a] = [accounts[a] EXCEPT !.rank = k]
        BY <3>1, RanksGiven
      <3>3. Len(order) \in Nat
        BY OrderFacts, AccountTable
      <3> QED
        BY <3>1, <3>2, <3>3
    <2>2. CASE \A k \in 1..n : order[k] # a
      <3>1. table[a] = [accounts[a] EXCEPT !.rank = 0]
        BY <2>2, RanksGiven
      <3>2. Len(order) \in Nat
        BY OrderFacts, AccountTable
      <3> QED
        BY <3>1, <3>2
    <2> QED
      BY <2>1, <2>2
  <1>2. r \in 0..MaxAccounts /\ n \in Nat
    BY <1>0, OrderFacts
  <1> QED
    BY <1>0, <1>1, <1>2 DEF AccountRow

LEMMA NoOrderRefused ==
    ASSUME TypeOK, NamesDiffer, NEW order \in Orders, NEW n \in DOMAIN order
    PROVE  ~Refused(ClearRanks, order, n)
  <1> DEFINE before == AssignRanks(ClearRanks, order, n - 1)
             after == AssignRanks(ClearRanks, order, n)
             a == order[n]
  <1>1. /\ n \in 1..Len(order) /\ Len(order) \in Nat
        /\ n \in 0..Len(order) /\ n - 1 \in 0..Len(order)
    BY OrderFacts, AccountTable
  <1>2. a \in DOMAIN accounts /\ \A k \in DOMAIN order : order[k] = a => k = n
    BY OrderFacts
  <1>3. after[a].rank = n /\ after[a].name = accounts[a].name
    <2>1. after[a] = [accounts[a] EXCEPT !.rank = n]
      BY <1>1, RanksGiven
    <2>2. accounts[a] \in AccountRow
      BY <1>2 DEF TypeOK
    <2> QED
      BY <2>1, <2>2 DEF AccountRow
  <1>4. DOMAIN before = DOMAIN accounts
    BY DEF AssignRanks, ClearRanks
  <1>5. ASSUME NEW b \in DOMAIN accounts \ {a}
        PROVE  before[b].name # after[a].name /\ before[b].rank # n
    <2>1. /\ before[b].name = accounts[b].name
          /\ before[b].rank # 0 => before[b].rank \in 1..(n - 1)
      BY <1>1, RanksType
    <2>2. accounts[b].name # accounts[a].name
      BY <1>2 DEF NamesDiffer
    <2> QED
      BY <1>1, <1>3, <2>1, <2>2
  <1>6. Unique(before, a, after[a])
    BY <1>3, <1>4, <1>5 DEF Unique
  <1> QED
    BY <1>6 DEF Refused
LEMMA ReorderStays ==
    ASSUME PatrimonyInv, ReorderCascade
    PROVE  PatrimonyInv'
  <1>0. TypeOK /\ NamesDiffer
    BY DEF PatrimonyInv
  <1>1. PICK order \in Orders :
          IF \E n \in DOMAIN order : Refused(ClearRanks, order, n)
          THEN reply' = "conflict" /\ UNCHANGED accounts
          ELSE /\ reply' = "ok"
               /\ accounts' = AssignRanks(ClearRanks, order, Len(order))
    BY DEF ReorderCascade
  <1>2. /\ reply' = "ok"
        /\ accounts' = AssignRanks(ClearRanks, order, Len(order))
    BY <1>0, <1>1, NoOrderRefused
  <1>3. Len(order) \in 0..Len(order)
    BY <1>0, OrderFacts, AccountTable
  <1>4. DOMAIN accounts' = DOMAIN accounts
    BY <1>2 DEF AssignRanks, ClearRanks
  <1>5. \A a \in DOMAIN accounts :
          /\ accounts'[a] \in AccountRow
          /\ accounts'[a].name = accounts[a].name
          /\ accounts'[a].type = accounts[a].type
          /\ accounts'[a].policy = accounts[a].policy
    BY <1>0, <1>2, <1>3, RanksType
  <1>6. UNCHANGED <<lastId, references, settings, snapshots, requests>>
    BY DEF ReorderCascade
  <1>7. TypeOK'
    BY <1>0, <1>2, <1>4, <1>5, <1>6 DEF TypeOK
  <1>8. NamesDiffer'
    BY <1>4, <1>5 DEF PatrimonyInv, NamesDiffer
  <1>9. PolicyFollowsType' /\ WritesFit'
    BY <1>4, <1>5, <1>6
    DEF PatrimonyInv, PolicyFollowsType, WritesFit, PolicyFits, IsSavings, At
  <1> QED
    BY <1>2, <1>7, <1>8, <1>9 DEF PatrimonyInv, OrderAlwaysAccepted

----------------------------------------------------------------------------
(* Requests that write rows back *)

\* Every write of one row that the UNIQUE indexes let through keeps what the
\* invariant says of the table.
LEMMA RowWritten ==
    ASSUME PatrimonyInv, NEW a, NEW row \in AccountRow, PolicyFits(row),
           Unique(accounts, a, row), accounts' = Put(accounts, a, row)
    PROVE  /\ DOMAIN accounts' = DOMAIN accounts \cup {a}
           /\ \A b \in DOMAIN accounts' : accounts'[b] \in AccountRow
           /\ NamesDiffer' /\ PolicyFollowsType'
  <1>1. /\ DOMAIN accounts' = DOMAIN accounts \cup {a} /\ accounts'[a] = row
        /\ \A b \in DOMAIN accounts \ {a} : accounts'[b] = accounts[b]
    BY DEF Put
  <1>2. \A b \in DOMAIN accounts \ {a} :
          accounts[b] \in AccountRow /\ accounts[b].name # row.name
    BY DEF PatrimonyInv, TypeOK, Unique
  <1>3. NamesDiffer'
    BY <1>1, <1>2 DEF PatrimonyInv, NamesDiffer
  <1>4. PolicyFollowsType'
    BY <1>1 DEF PatrimonyInv, PolicyFollowsType, PolicyFits, IsSavings
  <1> QED
    BY <1>1, <1>2, <1>3, <1>4

LEMMA FormRow ==
    ASSUME NEW f \in AccountForms, ValidAccount(f), NEW rank \in 0..MaxAccounts,
           NEW active \in BOOLEAN, NEW row,
           row = [name |-> f.name, type |-> f.type, policy |-> f.policy,
                  rank |-> rank, active |-> active]
    PROVE  row \in AccountRow /\ PolicyFits(row)
  <1>1. f.name \in Names
    BY DEF Names
  <1> QED
    BY <1>1 DEF ValidAccount, AccountRow, PolicyFits, IsSavings

LEMMA Advances ==
    ASSUME PatrimonyInv, NEW w \in Workers, NEW stage \in Request,
           stage.at = "writing" => PolicyFits(stage.row),
           Become(w, stage),
           UNCHANGED <<accounts, lastId, references, settings, snapshots, reply>>
    PROVE  PatrimonyInv'
  <1>1. requests \in [Workers -> Request]
    BY DEF PatrimonyInv, TypeOK
  <1>2. requests' \in [Workers -> Request] /\ TypeOK'
    BY <1>1 DEF PatrimonyInv, TypeOK, Become
  <1>3. WritesFit'
    BY <1>1 DEF PatrimonyInv, WritesFit, At, Become, PolicyFits, IsSavings
  <1>4. NamesDiffer' /\ PolicyFollowsType' /\ OrderAlwaysAccepted'
    BY DEF PatrimonyInv, NamesDiffer, PolicyFollowsType, PolicyFits, IsSavings,
           OrderAlwaysAccepted
  <1> QED
    BY <1>2, <1>3, <1>4 DEF PatrimonyInv

LEMMA CreateStays ==
    ASSUME PatrimonyInv, CreateAccount
    PROVE  PatrimonyInv'
  <1>0. TypeOK
    BY DEF PatrimonyInv
  <1>1. PICK f \in {x \in AccountForms : ValidAccount(x)} :
          LET row == [name |-> f.name, type |-> f.type, policy |-> f.policy,
                      rank |-> 0, active |-> TRUE]
          IN  /\ Unique(accounts, lastId + 1, row)
              /\ accounts' = Put(accounts, lastId + 1, row)
    BY DEF CreateAccount
  <1> DEFINE row == [name |-> f.name, type |-> f.type, policy |-> f.policy,
                     rank |-> 0, active |-> TRUE]
  <1>2. MaxAccounts \in Nat /\ lastId \in Nat /\ lastId < MaxAccounts /\ lastId' = lastId + 1
    BY <1>0, AccountTable DEF CreateAccount
  <1>3. row \in AccountRow /\ PolicyFits(row)
    <2>1. f \in AccountForms /\ ValidAccount(f) /\ 0 \in 0..MaxAccounts /\ TRUE \in BOOLEAN
      BY <1>2
    <2> QED
      BY <2>1, FormRow
  <1>4. /\ Unique(accounts, lastId + 1, row)
        /\ accounts' = Put(accounts, lastId + 1, row)
    BY <1>1
  <1> HIDE DEF row
  <1>5. /\ DOMAIN accounts' = DOMAIN accounts \cup {lastId + 1}
        /\ \A b \in DOMAIN accounts' : accounts'[b] \in AccountRow
        /\ NamesDiffer' /\ PolicyFollowsType'
    BY <1>3, <1>4, RowWritten
  <1>6. UNCHANGED <<references, settings, snapshots, requests, reply>>
    BY DEF CreateAccount
  <1>7. lastId' \in 0..MaxAccounts /\ DOMAIN accounts' \subseteq 1..lastId'
    BY <1>0, <1>2, <1>5 DEF TypeOK
  <1>8. TypeOK'
    BY <1>0, <1>5, <1>6, <1>7 DEF TypeOK
  <1>9. WritesFit' /\ OrderAlwaysAccepted'
    BY <1>6 DEF PatrimonyInv, WritesFit, At, PolicyFits, IsSavings, OrderAlwaysAccepted
  <1> QED
    BY <1>5, <1>8, <1>9 DEF PatrimonyInv

LEMMA ReadForUpdateStays ==
    ASSUME PatrimonyInv, NEW w \in Workers, ReadForUpdate(w)
    PROVE  PatrimonyInv'
  <1>1. PICK a \in DOMAIN accounts, f \in {x \in AccountForms : ValidAccount(x)} :
          Become(w, [at |-> "writing", account |-> a,
                     row |-> Fill(accounts[a], f)])
    BY DEF ReadForUpdate
  <1> DEFINE row == Fill(accounts[a], f)
  <1>2. accounts[a] \in AccountRow /\ a \in AccountIds
    BY AccountTable DEF PatrimonyInv, TypeOK
  <1>3. row = [name |-> f.name, type |-> f.type, policy |-> f.policy,
               rank |-> accounts[a].rank, active |-> accounts[a].active]
    BY DEF Fill
  <1>4. accounts[a].rank \in 0..MaxAccounts /\ accounts[a].active \in BOOLEAN
    BY <1>2 DEF AccountRow
  <1>5. row \in AccountRow /\ PolicyFits(row)
    BY <1>3, <1>4, FormRow
  <1> HIDE DEF row
  <1> DEFINE stage == [at |-> "writing", account |-> a, row |-> row]
  <1>6. stage \in Request /\ stage.row = row /\ Become(w, stage)
    BY <1>1, <1>2, <1>5, RequestForms DEF row
  <1>7. UNCHANGED <<accounts, lastId, references, settings, snapshots, reply>>
    BY DEF ReadForUpdate
  <1> HIDE DEF stage
  <1> QED
    BY <1>5, <1>6, <1>7, Advances

LEMMA ActiveRow ==
    ASSUME PatrimonyInv, NEW a \in DOMAIN accounts, NEW active \in BOOLEAN
    PROVE  /\ [accounts[a] EXCEPT !.active = active] \in AccountRow
           /\ PolicyFits([accounts[a] EXCEPT !.active = active])
           /\ a \in AccountIds
  <1>1. accounts[a] \in AccountRow /\ PolicyFits(accounts[a]) /\ a \in AccountIds
    BY AccountTable DEF PatrimonyInv, TypeOK, PolicyFollowsType
  <1> QED
    BY <1>1 DEF AccountRow, PolicyFits, IsSavings

LEMMA ReadForStatusStays ==
    ASSUME PatrimonyInv, NEW w \in Workers, ReadForStatus(w)
    PROVE  PatrimonyInv'
  <1>1. UNCHANGED <<accounts, lastId, references, settings, snapshots, reply>>
    BY DEF ReadForStatus
  <1>2. CASE \E a \in DOMAIN accounts, active \in BOOLEAN :
               Become(w, [at |-> "writing", account |-> a,
                          row |-> [accounts[a] EXCEPT !.active = active]])
    <2>1. PICK a \in DOMAIN accounts, active \in BOOLEAN :
               Become(w, [at |-> "writing", account |-> a,
                          row |-> [accounts[a] EXCEPT !.active = active]])
      BY <1>2
    <2> DEFINE row == [accounts[a] EXCEPT !.active = active]
               stage == [at |-> "writing", account |-> a, row |-> row]
    <2>2. row \in AccountRow /\ PolicyFits(row) /\ a \in AccountIds
      BY ActiveRow
    <2> HIDE DEF row
    <2>3. stage \in Request /\ stage.row = row /\ Become(w, stage)
      BY <2>1, <2>2, RequestForms DEF row
    <2> HIDE DEF stage
    <2> QED
      BY <1>1, <2>2, <2>3, Advances
  <1>3. CASE Answer(w)
    <2>1. Idle \in Request /\ Idle.at # "writing"
      BY RequestForms DEF Idle
    <2> QED
      BY <1>1, <1>3, <2>1, Advances DEF Answer
  <1> QED
    BY <1>2, <1>3 DEF ReadForStatus

LEMMA WriteStays ==
    ASSUME PatrimonyInv, NEW w \in Workers, WriteAccount(w)
    PROVE  PatrimonyInv'
  <1>1. requests[w] \in Request /\ requests[w].at = "writing"
    BY DEF PatrimonyInv, TypeOK, WriteAccount, At
  <1> DEFINE a == requests[w].account
             row == requests[w].row
  <1>2. row \in AccountRow /\ PolicyFits(row)
    BY <1>1, RequestParts DEF PatrimonyInv, WritesFit, At
  <1>3. UNCHANGED <<lastId, references, settings, snapshots, reply>> /\ Become(w, Idle)
    BY DEF WriteAccount, Answer
  <1>4. Idle \in Request /\ Idle.at # "writing"
    BY RequestForms DEF Idle
  <1>5. CASE a \in DOMAIN accounts /\ Unique(accounts, a, row)
    <2>1. accounts' = [accounts EXCEPT ![a] = row]
      BY <1>5 DEF WriteAccount
    <2> HIDE DEF a, row
    <2>2. accounts' = Put(accounts, a, row) /\ DOMAIN accounts \cup {a} = DOMAIN accounts
      BY <1>5, <2>1 DEF Put
    <2>3. /\ DOMAIN accounts' = DOMAIN accounts
          /\ \A b \in DOMAIN accounts' : accounts'[b] \in AccountRow
          /\ NamesDiffer' /\ PolicyFollowsType'
      BY <1>2, <1>5, <2>2, RowWritten
    <2>4. requests' \in [Workers -> Request]
      BY <1>3, <1>4 DEF PatrimonyInv, TypeOK, Become
    <2>5. TypeOK'
      BY <1>3, <2>3, <2>4 DEF PatrimonyInv, TypeOK
    <2>6. WritesFit' /\ OrderAlwaysAccepted'
      BY <1>3, <1>4 DEF PatrimonyInv, TypeOK, WritesFit, At, Become, PolicyFits,
         IsSavings, OrderAlwaysAccepted
    <2> QED
      BY <2>3, <2>5, <2>6 DEF PatrimonyInv
  <1>6. CASE ~(a \in DOMAIN accounts /\ Unique(accounts, a, row))
    <2>1. UNCHANGED accounts
      BY <1>6 DEF WriteAccount
    <2> QED
      BY <1>3, <1>4, <2>1, Advances
  <1> QED
    BY <1>5, <1>6

LEMMA DeleteStays ==
    ASSUME PatrimonyInv, NEW w \in Workers, DeleteAccount(w)
    PROVE  PatrimonyInv'
  <1>1. UNCHANGED <<lastId, references, settings, snapshots, reply>>
    BY DEF DeleteAccount
  <1>2. PICK a \in DOMAIN accounts :
          IF Referenced(a)
          THEN Become(w, [at |-> "archiving", account |-> a]) /\ UNCHANGED accounts
          ELSE accounts' = Without(accounts, a) /\ UNCHANGED requests
    BY DEF DeleteAccount
  <1>3. CASE Referenced(a)
    <2> DEFINE stage == [at |-> "archiving", account |-> a]
    <2>1. stage \in Request /\ stage.at # "writing" /\ Become(w, stage)
      BY <1>2, <1>3, AccountTable, RequestForms DEF PatrimonyInv
    <2> HIDE DEF stage
    <2>2. UNCHANGED accounts
      BY <1>2, <1>3
    <2> QED
      BY <1>1, <2>1, <2>2, Advances
  <1>4. CASE ~Referenced(a)
    <2>1. /\ DOMAIN accounts' = DOMAIN accounts \ {a} /\ UNCHANGED requests
          /\ \A b \in DOMAIN accounts' : accounts'[b] = accounts[b]
      BY <1>2, <1>4 DEF Without
    <2>2. a \notin references /\ \A p \in Periods : <<a, p>> \notin DOMAIN snapshots
      BY <1>4 DEF Referenced
    <2>3. TypeOK'
      BY <1>1, <2>1, <2>2 DEF PatrimonyInv, TypeOK
    <2>4. /\ NamesDiffer' /\ PolicyFollowsType' /\ WritesFit'
          /\ OrderAlwaysAccepted'
      BY <1>1, <2>1 DEF PatrimonyInv, NamesDiffer, PolicyFollowsType, WritesFit,
         At, PolicyFits, IsSavings, OrderAlwaysAccepted
    <2> QED
      BY <2>3, <2>4 DEF PatrimonyInv
  <1> QED
    BY <1>3, <1>4

----------------------------------------------------------------------------
(* Settings, snapshots and the rest of the budget *)

LEMMA SettingsStay ==
    ASSUME PatrimonyInv, NEW w \in Workers, ReadSettings(w) \/ WriteSettings(w)
    PROVE  PatrimonyInv'
  <1>1. settings \in SettingsRow /\ MaxAccounts \in Nat
    BY AccountTable DEF PatrimonyInv, TypeOK
  <1>2. CASE ReadSettings(w)
    <2>1. PICK row \in SettingsRow : Become(w, [at |-> "saving", row |-> row])
      <3>1. CASE \E a \in DOMAIN accounts \cup {0} :
                   Become(w, [at |-> "saving", row |-> [settings EXCEPT !.default = a]])
        <4>1. PICK a \in DOMAIN accounts \cup {0} :
                   Become(w, [at |-> "saving", row |-> [settings EXCEPT !.default = a]])
          BY <3>1
        <4>2. a \in 0..MaxAccounts
          BY <1>1, AccountTable DEF PatrimonyInv, AccountIds
        <4>3. [settings EXCEPT !.default = a] \in SettingsRow
          BY <1>1, <4>2 DEF SettingsRow
        <4> QED
          BY <4>1, <4>3
      <3>2. CASE \E d \in Deposits, r \in Rates :
                   Become(w, [at |-> "saving",
                              row |-> [settings EXCEPT !.deposit = d, !.rate = r]])
        <4>1. PICK d \in Deposits, r \in Rates :
                   Become(w, [at |-> "saving",
                              row |-> [settings EXCEPT !.deposit = d, !.rate = r]])
          BY <3>2
        <4>2. [settings EXCEPT !.deposit = d, !.rate = r] \in SettingsRow
          BY <1>1 DEF SettingsRow
        <4> QED
          BY <4>1, <4>2
      <3> QED
        BY <1>2, <3>1, <3>2 DEF ReadSettings
    <2> DEFINE stage == [at |-> "saving", row |-> row]
    <2>2. stage \in Request /\ stage.at # "writing"
      BY RequestForms
    <2>3. UNCHANGED <<accounts, lastId, references, settings, snapshots, reply>>
      BY <1>2 DEF ReadSettings
    <2> QED
      BY <2>1, <2>2, <2>3, Advances
  <1>3. CASE WriteSettings(w)
    <2>1. /\ settings' = requests[w].row /\ requests[w].at = "saving"
          /\ Become(w, Idle)
          /\ UNCHANGED <<accounts, lastId, references, snapshots, reply>>
      BY <1>3 DEF WriteSettings, At, Answer
    <2>2. requests \in [Workers -> Request] /\ settings' \in SettingsRow
      BY <2>1, RequestParts DEF PatrimonyInv, TypeOK
    <2>3. Idle \in Request /\ Idle.at # "writing"
      BY RequestForms DEF Idle
    <2>4. requests' \in [Workers -> Request]
      BY <2>1, <2>2, <2>3 DEF Become
    <2>5. TypeOK'
      BY <2>1, <2>2, <2>4 DEF PatrimonyInv, TypeOK
    <2>6. WritesFit'
      BY <2>1, <2>2, <2>3 DEF PatrimonyInv, WritesFit, At, Become, PolicyFits, IsSavings
    <2>7. NamesDiffer' /\ PolicyFollowsType' /\ OrderAlwaysAccepted'
      BY <2>1 DEF PatrimonyInv, NamesDiffer, PolicyFollowsType, PolicyFits, IsSavings,
         OrderAlwaysAccepted
    <2> QED
      BY <2>5, <2>6, <2>7 DEF PatrimonyInv
  <1> QED
    BY <1>2, <1>3

LEMMA OthersStay ==
    ASSUME PatrimonyInv,
           \/ UpsertSnapshot \/ DeleteSnapshot \/ Reference \/ UNCHANGED vars
    PROVE  PatrimonyInv'
  <1>1. UNCHANGED <<accounts, lastId, settings, requests, reply>>
    BY DEF UpsertSnapshot, DeleteSnapshot, Reference, vars
  <1>2. /\ references' \subseteq DOMAIN accounts
        /\ DOMAIN snapshots' \subseteq (DOMAIN accounts) \X Periods
        /\ \A k \in DOMAIN snapshots' : snapshots'[k] \in GrossValues
    <2>1. /\ references \subseteq DOMAIN accounts
          /\ DOMAIN snapshots \subseteq (DOMAIN accounts) \X Periods
          /\ \A k \in DOMAIN snapshots : snapshots[k] \in GrossValues
      BY DEF PatrimonyInv, TypeOK
    <2>2. CASE UpsertSnapshot
      <3>1. PICK a \in DOMAIN accounts, p \in Periods, g \in GrossValues :
              snapshots' = Put(snapshots, <<a, p>>, g)
        BY <2>2 DEF UpsertSnapshot
      <3>2. UNCHANGED references
        BY <2>2 DEF UpsertSnapshot
      <3> QED
        BY <2>1, <3>1, <3>2 DEF Put
    <2>3. CASE DeleteSnapshot
      BY <2>1, <2>3 DEF DeleteSnapshot, Without
    <2>4. CASE Reference
      BY <2>1, <2>4 DEF Reference
    <2>5. CASE UNCHANGED vars
      BY <2>1, <2>5 DEF vars
    <2> QED
      BY <2>2, <2>3, <2>4, <2>5
  <1>3. TypeOK'
    BY <1>1, <1>2 DEF PatrimonyInv, TypeOK
  <1>4. /\ NamesDiffer' /\ PolicyFollowsType' /\ WritesFit'
        /\ OrderAlwaysAccepted'
    BY <1>1 DEF PatrimonyInv, NamesDiffer, PolicyFollowsType, WritesFit, At,
       PolicyFits, IsSavings, OrderAlwaysAccepted
  <1> QED
    BY <1>3, <1>4 DEF PatrimonyInv

----------------------------------------------------------------------------
(* The theorems *)

LEMMA PatrimonyInvariant == Spec => []PatrimonyInv
  <1>1. AccountsInit => PatrimonyInv
    <2> SUFFICES ASSUME AccountsInit PROVE PatrimonyInv
      OBVIOUS
    <2>1. /\ DOMAIN accounts = {} /\ DOMAIN snapshots = {} /\ references = {}
          /\ lastId = 0 /\ reply = "ok" /\ requests = [w \in Workers |-> Idle]
      BY DEF AccountsInit
    <2>2. settings \in SettingsRow /\ lastId \in 0..MaxAccounts
      BY <2>1, AccountsAssumption DEF AccountsInit, SettingsRow
    <2>3. TypeOK
      BY <2>1, <2>2, RequestForms DEF TypeOK
    <2>4. WritesFit
      BY <2>1 DEF WritesFit, At, Idle
    <2> QED
      BY <2>1, <2>3, <2>4
      DEF PatrimonyInv, NamesDiffer, PolicyFollowsType, OrderAlwaysAccepted
  <1>2. PatrimonyInv /\ [AccountsNext]_vars => PatrimonyInv'
    BY CreateStays, ReorderStays, ReadForUpdateStays, ReadForStatusStays,
       WriteStays, DeleteStays, SettingsStay, OthersStay DEF AccountsNext
  <1> QED
    BY <1>1, <1>2, PTL DEF Spec

\* Rows, requests in progress, settings and snapshots stay well typed: no row
\* written back late, and no deletion, leaves a snapshot or a reference behind
\* without its account.
THEOREM PatrimonyTypeCorrect == Spec => []TypeOK
  <1>1. PatrimonyInv => TypeOK
    BY DEF PatrimonyInv
  <1> QED
    BY <1>1, PatrimonyInvariant, PTL

\* The policy of every account fits its type, whatever whole rows cross.
THEOREM PoliciesFollowTypes == Spec => []PolicyFollowsType
  <1>1. PatrimonyInv => PolicyFollowsType
    BY DEF PatrimonyInv
  <1> QED
    BY <1>1, PatrimonyInvariant, PTL

\* ReorderCascade refuses no order of savings accounts, whatever ranks the
\* table holds when it starts, because it clears them all before it assigns.
THEOREM OrdersAreAccepted == Spec => []OrderAlwaysAccepted
  <1>1. PatrimonyInv => OrderAlwaysAccepted
    BY DEF PatrimonyInv
  <1> QED
    BY <1>1, PatrimonyInvariant, PTL

\* Half-even rounding and the charge on gains keep the order of gross values,
\* for every rate under 100 % and every initial deposit.
THEOREM NetFollowsGross == Spec => []MoreGrossMoreNet
  <1>1. PatrimonyInv => MoreGrossMoreNet
    <2> SUFFICES ASSUME PatrimonyInv, NEW a \in Supports,
                        NEW g \in GrossValues, NEW h \in GrossValues, g <= h
                 PROVE  SupportValue(a, g) <= SupportValue(a, h)
      BY DEF MoreGrossMoreNet
    <2>1. g \in Int /\ h \in Int
      BY AccountsAssumption
    <2>2. /\ settings.deposit \in Int /\ settings.rate \in Nat
          /\ settings.rate < 10000
      <3>1. settings.deposit \in Deposits /\ settings.rate \in Rates
        BY DEF PatrimonyInv, TypeOK, SettingsRow
      <3>2. settings.rate \in Nat /\ settings.rate < 10000 /\ settings.deposit \in Nat
        BY <3>1, AccountsAssumption
      <3> QED
        BY <3>2
    <2>3. PEANet(g, settings.deposit, settings.rate)
            <= PEANet(h, settings.deposit, settings.rate)
      BY <2>1, <2>2, NetGrowsWithGross
    <2> QED
      BY <2>3 DEF SupportValue
  <1> QED
    BY <1>1, PatrimonyInvariant, PTL

----------------------------------------------------------------------------
(* The figures, for any recorded months *)

LEMMA SupportFacts ==
    ASSUME TypeOK
    PROVE  /\ IsFiniteSet(Supports) /\ \A S \in SUBSET Supports : IsFiniteSet(S)
           /\ \A p : Valued(p) \in SUBSET Supports /\ Passbooks(p) \in SUBSET Supports
<1>1. IsFiniteSet(Supports)
  BY AccountTable, FS_Subset DEF Supports
<1>2. \A S \in SUBSET Supports : IsFiniteSet(S)
  BY <1>1, FS_Subset
<1> QED
  BY <1>1, <1>2 DEF Valued, Passbooks

LEMMA ValueType ==
    ASSUME TypeOK, NEW a, NEW p, HasSnapshot(a, p)
    PROVE  p \in Nat /\ p \in Periods /\ ValueAt(a, p) \in Int
<1>1. p \in Periods /\ snapshots[<<a, p>>] \in GrossValues
  BY DEF HasSnapshot, TypeOK
<1>2. snapshots[<<a, p>>] \in Nat /\ p \in Nat
  BY <1>1, AccountsAssumption
<1>3. settings.deposit \in Int /\ settings.rate \in Nat /\ settings.rate < 10000
  <2>1. settings.deposit \in Deposits /\ settings.rate \in Rates
    BY DEF TypeOK, SettingsRow
  <2>2. settings.rate \in Nat /\ settings.rate < 10000 /\ settings.deposit \in Nat
    BY <2>1, AccountsAssumption
  <2> QED
    BY <2>2
<1>4. PEANet(snapshots[<<a, p>>], settings.deposit, settings.rate) \in Int
  <2>1. PICK g \in Nat : g = snapshots[<<a, p>>]
    BY <1>2
  <2>2. PICK x \in Int : x = g - settings.deposit
    BY <1>3
  <2>3. ApplyRate(x, settings.rate) \in Int
    BY <1>3, ChargeType
  <2> QED
    BY <2>1, <2>2, <2>3, <1>3 DEF PEANet
<1> QED
  BY <1>1, <1>2, <1>4 DEF ValueAt, SupportValue

\* The most recent earlier snapshot, and the ones before it.
LEMMA LatestEarlier ==
    ASSUME TypeOK, NEW a, NEW p \in Nat, Earlier(a, p) # {}
    PROVE  /\ Max(Earlier(a, p)) \in Earlier(a, p)
           /\ \A q \in Earlier(a, p) : q <= Max(Earlier(a, p))
           /\ Earlier(a, p)
                = Earlier(a, Max(Earlier(a, p))) \cup {Max(Earlier(a, p))}
<1> DEFINE S == Earlier(a, p)
           m == Max(S)
<1>1. S \in SUBSET Nat /\ S # {} /\ \A q \in S : q <= p
  BY ValueType DEF Earlier
<1>2. \E x \in S : \A y \in S : x >= y
  <2> HIDE DEF S
  <2> QED BY <1>1, GreatestNat
<1>3. m \in S /\ \A q \in S : m >= q
  BY <1>2 DEF Max
<1> HIDE DEF m
<1>4. m \in Nat /\ m < p
  BY <1>1, <1>3 DEF Earlier
<1>5. S = Earlier(a, m) \cup {m}
  <2>1. ASSUME NEW q \in S PROVE q \in Earlier(a, m) \cup {m}
    BY <1>1, <1>3, <1>4 DEF Earlier
  <2>2. ASSUME NEW q \in Earlier(a, m) PROVE q \in S
    <3>1. q \in Nat /\ q < m
      BY ValueType DEF Earlier
    <3> QED
      BY <1>4, <3>1 DEF Earlier
  <2> QED
    BY <1>3, <2>1, <2>2
<1>6. \A q \in S : q <= m
  <2> HIDE DEF S
  <2> QED BY <1>1, <1>3, <1>4
<1> QED
  BY <1>3, <1>5, <1>6 DEF m

LEMMA EarlierFacts ==
    ASSUME TypeOK, NEW a, NEW p \in Nat
    PROVE  /\ IsFiniteSet(Earlier(a, p)) /\ p \notin Earlier(a, p)
           /\ \A q \in Earlier(a, p) : q \in Nat /\ HasSnapshot(a, q)
<1>1. \A q \in Earlier(a, p) : q \in Nat /\ HasSnapshot(a, q) /\ q < p
  BY ValueType DEF Earlier
<1>2. Earlier(a, p) \subseteq 0..p
  BY <1>1
<1>3. IsFiniteSet(0..p)
  BY FS_Interval
<1> QED
  BY <1>1, <1>2, <1>3, FS_Subset

LEMMA DeltaType ==
    ASSUME TypeOK, NEW a, NEW p, HasSnapshot(a, p)
    PROVE  PrevValue(a, p) \in Int /\ Delta(a, p) \in Int
<1>1. p \in Nat /\ ValueAt(a, p) \in Int
  BY ValueType
<1>2. PrevValue(a, p) \in Int
  <2>1. CASE Earlier(a, p) = {}
    BY <2>1 DEF PrevValue
  <2>2. CASE Earlier(a, p) # {}
    <3>1. HasSnapshot(a, Max(Earlier(a, p)))
      BY <1>1, <2>2, LatestEarlier, EarlierFacts
    <3> QED
      BY <2>2, <3>1, ValueType DEF PrevValue
  <2> QED
    BY <2>1, <2>2
<1> QED
  BY <1>1, <1>2 DEF Delta

Deltas(a) == [q \in Periods |-> Delta(a, q)]
Recorded(a, p) == Earlier(a, p) \cup {p}

LEMMA RecordedFacts ==
    ASSUME TypeOK, NEW a, NEW p, HasSnapshot(a, p)
    PROVE  /\ IsFiniteSet(Recorded(a, p))
           /\ \A q \in Recorded(a, p) : Deltas(a)[q] = Delta(a, q) /\ Deltas(a)[q] \in Int
           /\ p \in Recorded(a, p) /\ Recorded(a, p) \ {p} = Earlier(a, p)
<1>1. p \in Nat /\ p \in Periods
  BY ValueType
<1>2. IsFiniteSet(Earlier(a, p)) /\ p \notin Earlier(a, p)
  BY <1>1, EarlierFacts
<1>3. \A q \in Recorded(a, p) : HasSnapshot(a, q) /\ q \in Periods
  BY <1>1 DEF Recorded, Earlier
<1> QED
  BY <1>2, <1>3, DeltaType, FS_AddElement DEF Recorded, Deltas

\* By induction on the recorded months: the changes telescope.
LEMMA ChangesTelescope ==
    ASSUME TypeOK, NEW a, NEW p, HasSnapshot(a, p)
    PROVE  SumFunctionOnSet(Deltas(a), Recorded(a, p)) = ValueAt(a, p)
<1> DEFINE sum(q) == SumFunctionOnSet(Deltas(a), Recorded(a, q))
           Bad == {q \in Nat : HasSnapshot(a, q) /\ sum(q) # ValueAt(a, q)}
<1> SUFFICES ASSUME Bad # {} PROVE FALSE
  BY ValueType
<1>1. PICK q \in Bad : \A m \in Bad : ~ (m < q)
  <2>1. Bad \in SUBSET Nat /\ Bad # {}
    OBVIOUS
  <2> HIDE DEF Bad
  <2> QED BY <2>1, LeastNat
<1>2. q \in Nat /\ HasSnapshot(a, q) /\ sum(q) # ValueAt(a, q)
  BY <1>1
<1>3. sum(q) = Delta(a, q) + SumFunctionOnSet(Deltas(a), Earlier(a, q))
  <2>1. sum(q) = Deltas(a)[q] + SumFunctionOnSet(Deltas(a), Recorded(a, q) \ {q})
    BY <1>2, RecordedFacts, SumRemove
  <2> QED
    BY <1>2, <2>1, RecordedFacts
<1>4. ValueAt(a, q) \in Int
  BY <1>2, ValueType
<1>5. CASE Earlier(a, q) = {}
  <2>1. Delta(a, q) = ValueAt(a, q) - 0
    BY <1>5 DEF Delta, PrevValue
  <2>2. SumFunctionOnSet(Deltas(a), Earlier(a, q)) = 0
    BY <1>5, SumEmpty
  <2> HIDE DEF sum
  <2> QED
    BY <1>2, <1>3, <1>4, <2>1, <2>2
<1>6. CASE Earlier(a, q) # {}
  <2> DEFINE m == Max(Earlier(a, q))
  <2>1. m \in Earlier(a, q) /\ Earlier(a, q) = Recorded(a, m)
    BY <1>2, <1>6, LatestEarlier DEF Recorded
  <2>2. Delta(a, q) = ValueAt(a, q) - ValueAt(a, m)
    BY <1>6 DEF Delta, PrevValue
  <2> HIDE DEF m
  <2>3. m \in Nat /\ HasSnapshot(a, m) /\ m < q
    BY <1>2, <2>1, EarlierFacts DEF Earlier
  <2>4. sum(m) = ValueAt(a, m)
    BY <1>1, <2>3
  <2>5. ValueAt(a, m) \in Int
    BY <2>3, ValueType
  <2>6. SumFunctionOnSet(Deltas(a), Earlier(a, q)) = ValueAt(a, m)
    BY <2>1, <2>4
  <2> HIDE DEF sum
  <2> QED
    BY <1>2, <1>3, <1>4, <2>2, <2>5, <2>6
<1> QED
  BY <1>5, <1>6

\* The changes of a support add up to its value, across months without a
\* snapshot and after snapshots were corrected or deleted (engine/networth.go,
\* services/networth.go prevSupportValue).
THEOREM ChangesAddUp == Spec => []DeltasAddUp
<1>1. ASSUME TypeOK PROVE DeltasAddUp
  <2> USE <1>1
  <2> SUFFICES ASSUME NEW p \in Periods, NEW a \in Supports, HasSnapshot(a, p)
      PROVE  SumFunction([q \in Earlier(a, p) \cup {p} |-> Delta(a, q)]) = ValueAt(a, p)
    BY DEF DeltasAddUp
  <2> DEFINE rec == Recorded(a, p)
             f == [q \in rec |-> Delta(a, q)]
  <2>1. SumFunction(f) = SumFunctionOnSet(f, rec)
    BY DEF SumFunction
  <2>2. IsFiniteSet(rec) /\ \A q \in rec : f[q] = Deltas(a)[q]
    BY RecordedFacts
  <2>3. SumFunctionOnSet(f, rec) = SumFunctionOnSet(Deltas(a), rec)
    <3> HIDE DEF f, rec
    <3> QED BY <2>2, SumSame
  <2>4. SumFunctionOnSet(Deltas(a), rec) = ValueAt(a, p)
    BY ChangesTelescope
  <2>5. Earlier(a, p) \cup {p} = rec
    BY DEF Recorded
  <2> HIDE DEF rec
  <2> QED
    BY <2>1, <2>3, <2>4, <2>5
<1>2. PatrimonyInv => TypeOK
  BY DEF PatrimonyInv
<1> QED
  BY <1>1, <1>2, PatrimonyInvariant, PTL

\* A total is a sum over the supports recorded in the month.
LEMMA TotalIs ==
    ASSUME TypeOK, NEW p \in Periods
    PROVE  /\ IsFiniteSet(Valued(p))
           /\ \A a \in Valued(p) :
                 /\ a \in Supports /\ HasSnapshot(a, p)
                 /\ ValueAt(a, p) \in Int /\ PrevValue(a, p) \in Int
                 /\ Delta(a, p) = ValueAt(a, p) - PrevValue(a, p)
                 /\ Delta(a, p) \in Int
           /\ Total(p) = SumFunctionOnSet([a \in Valued(p) |-> ValueAt(a, p)], Valued(p))
           /\ Total(p) \in Int
           /\ TotalDelta(p) = SumFunctionOnSet([a \in Valued(p) |-> Delta(a, p)], Valued(p))
<1>1. IsFiniteSet(Valued(p))
  BY SupportFacts
<1>2. \A a \in Valued(p) :
        /\ a \in Supports /\ HasSnapshot(a, p)
        /\ ValueAt(a, p) \in Int /\ PrevValue(a, p) \in Int
        /\ Delta(a, p) = ValueAt(a, p) - PrevValue(a, p)
        /\ Delta(a, p) \in Int
  BY ValueType, DeltaType DEF Valued, Delta
<1>3. /\ Total(p) = SumFunctionOnSet([a \in Valued(p) |-> ValueAt(a, p)], Valued(p))
      /\ TotalDelta(p) = SumFunctionOnSet([a \in Valued(p) |-> Delta(a, p)], Valued(p))
  BY DEF Total, TotalDelta, SumFunction
<1>4. SumFunctionOnSet([a \in Valued(p) |-> ValueAt(a, p)], Valued(p)) \in Int
  <2> DEFINE f == [a \in Valued(p) |-> ValueAt(a, p)]
  <2>1. \A a \in Valued(p) : f[a] \in Int
    BY <1>2
  <2> HIDE DEF f
  <2>2. SumFunctionOnSet(f, Valued(p)) \in Int
    BY <1>1, <2>1, SumType
  <2> QED
    BY <2>2 DEF f
<1> QED
  BY <1>1, <1>2, <1>3, <1>4

\* The change of a total is the total less what its supports were worth before.
LEMMA TotalStep ==
    ASSUME TypeOK, NEW p \in Periods
    PROVE  TotalDelta(p)
             = Total(p) - SumFunctionOnSet([a \in Valued(p) |-> PrevValue(a, p)], Valued(p))
<1> DEFINE S == Valued(p)
           value == [a \in S |-> ValueAt(a, p)]
           prev == [a \in S |-> PrevValue(a, p)]
           delta == [a \in S |-> Delta(a, p)]
<1>1. /\ IsFiniteSet(S)
      /\ Total(p) = SumFunctionOnSet(value, S)
      /\ TotalDelta(p) = SumFunctionOnSet(delta, S)
      /\ \A a \in S : delta[a] \in Int /\ prev[a] \in Int /\ value[a] = delta[a] + prev[a]
  <2>1. \A a \in S : delta[a] \in Int /\ prev[a] \in Int /\ value[a] = delta[a] + prev[a]
    <3>1. \A a \in S : /\ ValueAt(a, p) \in Int /\ PrevValue(a, p) \in Int /\ Delta(a, p) \in Int
                       /\ Delta(a, p) = ValueAt(a, p) - PrevValue(a, p)
      BY TotalIs
    <3> QED BY <3>1
  <2> QED
    BY <2>1, TotalIs
<1> SUFFICES TotalDelta(p) = Total(p) - SumFunctionOnSet(prev, S)
  OBVIOUS
<1> HIDE DEF S, value, prev, delta
<1>2. SumFunctionOnSet(value, S) = SumFunctionOnSet(delta, S) + SumFunctionOnSet(prev, S)
  BY <1>1, SumPlus
<1>3. SumFunctionOnSet(delta, S) \in Int /\ SumFunctionOnSet(prev, S) \in Int
  BY <1>1, SumType
<1> QED
  BY <1>1, <1>2, <1>3

\* Where no support recorded before is missing and all were last recorded in q,
\* what they were worth before is the total of q.
LEMMA PreviousTotal ==
    ASSUME TypeOK, NEW p \in Periods, NEW q,
           \A a \in Supports : Earlier(a, p) # {} => HasSnapshot(a, p) /\ Max(Earlier(a, p)) = q
    PROVE  SumFunctionOnSet([a \in Valued(p) |-> PrevValue(a, p)], Valued(p))
             = IF q < p THEN Total(q) ELSE 0
<1> DEFINE S == Valued(p)
           T == Valued(q)
           prev == [a \in S |-> PrevValue(a, p)]
           value == [a \in T |-> ValueAt(a, q)]
<1> SUFFICES SumFunctionOnSet(prev, S) = IF q < p THEN Total(q) ELSE 0
  OBVIOUS
<1>1. IsFiniteSet(S) /\ p \in Nat
  <2>1. IsFiniteSet(S)
    BY TotalIs
  <2>2. p \in Nat
    BY AccountsAssumption
  <2> QED BY <2>1, <2>2
<1>2. \A a \in Supports : Earlier(a, p) # {} => q \in Earlier(a, p)
  BY <1>1, LatestEarlier
<1>3. CASE q < p /\ q \in Periods
  <2>1. T \in SUBSET S
    BY <1>3 DEF Valued, Earlier
  <2>2. /\ \A a \in T : value[a] \in Int /\ value[a] = ValueAt(a, q)
        /\ Total(q) = SumFunctionOnSet(value, T)
    BY <1>3, TotalIs
  <2>3. \A a \in T : prev[a] = value[a]
    <3> SUFFICES ASSUME NEW a \in T PROVE prev[a] = value[a]
      OBVIOUS
    <3>1. a \in Supports /\ HasSnapshot(a, q) /\ a \in S
      BY <2>1 DEF Valued
    <3>2. Earlier(a, p) # {}
      BY <1>3, <3>1 DEF Earlier
    <3>3. PrevValue(a, p) = ValueAt(a, q)
      BY <3>1, <3>2 DEF PrevValue
    <3> QED
      BY <3>1, <3>3
  <2>4. \A a \in S \ T : prev[a] = 0
    <3> SUFFICES ASSUME NEW a \in S \ T PROVE prev[a] = 0
      OBVIOUS
    <3>1. Earlier(a, p) = {}
      BY <1>2 DEF Valued, Earlier
    <3> QED
      BY <3>1 DEF PrevValue
  <2> HIDE DEF S, T, prev, value
  <2>5. SumFunctionOnSet(value, T) = SumFunctionOnSet(prev, S)
    BY <1>1, <2>1, <2>2, <2>3, <2>4, SumRestrict
  <2> QED
    BY <1>3, <2>2, <2>5
<1>4. CASE ~(q < p /\ q \in Periods)
  <2>1. \A a \in S : prev[a] = 0
    <3>1. \A a \in S : Earlier(a, p) = {}
      BY <1>2, <1>4 DEF Valued, Earlier
    <3> QED
      BY <3>1 DEF PrevValue
  <2>2. SumFunctionOnSet(prev, S) = 0
    <3> HIDE DEF S, prev
    <3> QED BY <1>1, <2>1, SumZero
  <2>3. CASE q < p
    <3>1. T = {}
      BY <1>4, <2>3, ValueType DEF Valued
    <3>2. Total(q) = SumFunctionOnSet(value, T)
      BY DEF Total, SumFunction
    <3>3. Total(q) = 0
      <4> HIDE DEF T, value
      <4> QED BY <3>1, <3>2, SumEmpty
    <3> QED
      BY <2>2, <2>3, <3>3
  <2> QED
    BY <2>2, <2>3
<1> QED
  BY <1>3, <1>4

\* The synthesis and the engine agree on the passbooks, and where no support
\* recorded before is missing the change of the total is the step of the
\* register's curve (services/networth.go, engine/networth.go).
THEOREM SynthesisAndEngineAgree == Spec => []SynthesisAgrees
<1>1. ASSUME TypeOK, NEW p \in Periods
      PROVE  SubtotalDelta(p) = SumFunction([a \in Passbooks(p) |-> GrossDelta(a, p)])
  <2>1. ASSUME NEW a \in Passbooks(p)
        PROVE  Delta(a, p) = GrossDelta(a, p)
    BY DEF Passbooks, Valued, Delta, GrossDelta, Gross, PrevValue, PreviousGross, ValueAt, SupportValue
  <2>2. [a \in Passbooks(p) |-> Delta(a, p)] = [a \in Passbooks(p) |-> GrossDelta(a, p)]
    BY <2>1
  <2> QED
    BY <2>2 DEF SubtotalDelta
<1>2. ASSUME TypeOK, NEW p \in Periods, NEW q,
             \A a \in Supports : Earlier(a, p) # {} => HasSnapshot(a, p) /\ Max(Earlier(a, p)) = q
      PROVE  TotalDelta(p) = Total(p) - (IF q < p THEN Total(q) ELSE 0)
  BY <1>1, <1>2, TotalStep, PreviousTotal
<1>3. TypeOK => SynthesisAgrees
  BY <1>1, <1>2 DEF SynthesisAgrees
<1>4. PatrimonyInv => TypeOK
  BY DEF PatrimonyInv
<1> QED
  BY <1>3, <1>4, PatrimonyInvariant, PTL

\* The register's curves add up to the curve of the total over any window of
\* the recorded months (services/networth.go, engine/networth.go).
THEOREM RegisterCurvesAddUp == Spec => []CurvesAddUp
<1>1. ASSUME TypeOK, NEW width, NEW p \in Range(ClipRange(DistinctPeriods, width))
      PROVE  SumFunction([a \in Curves(ClipRange(DistinctPeriods, width)) |-> CurvePoint(a, p)]) = Total(p)
  <2> DEFINE window == ClipRange(DistinctPeriods, width)
             S == Curves(window)
             T == Valued(p)
             point == [a \in S |-> CurvePoint(a, p)]
             value == [a \in T |-> ValueAt(a, p)]
  <2> USE <1>1
  <2> SUFFICES SumFunction(point) = Total(p)
    OBVIOUS
  <2>1. IsFiniteSet(S) /\ T \in SUBSET S
    BY SupportFacts DEF Curves, InWindow, Valued
  <2>2. /\ \A a \in T : value[a] \in Int /\ point[a] = value[a]
        /\ \A a \in S \ T : point[a] = 0
    BY <2>1, ValueType DEF Curves, Valued, CurvePoint
  <2>3. SumFunction(point) = SumFunctionOnSet(point, S) /\ Total(p) = SumFunctionOnSet(value, T)
    BY DEF SumFunction, Total
  <2> HIDE DEF S, T, point, value
  <2> QED
    BY <2>1, <2>2, <2>3, SumRestrict
<1>2. TypeOK => CurvesAddUp
  BY <1>1 DEF CurvesAddUp
<1>3. PatrimonyInv => TypeOK
  BY DEF PatrimonyInv
<1> QED
  BY <1>2, <1>3, PatrimonyInvariant, PTL
=============================================================================
