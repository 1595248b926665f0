------------------------------ MODULE Accounts ------------------------------
(***************************************************************************)
(* The accounts of one user, the savings cascade, the settings row and the  *)
(* monthly snapshots, with the requests that change them.  Only the cascade *)
(* and the snapshots are written in transactions; the others read a whole   *)
(* row, change it and write the whole row back in a later statement.        *)
(*                                                                          *)
(* Refusals leave everything as it was and are left out, the one of a       *)
(* locked effective month included: the month is checked, never stored.     *)
(***************************************************************************)
EXTENDS Naturals, Sequences, FiniteSets, SequencesExt

CONSTANTS
    Workers,
    AccountForms,   \* the name, type and policy a form can carry
    Periods,        \* months, numbers in their order
    GrossValues, Deposits, Rates,
    \* Bounds of the model.
    MaxAccounts,
    Room            \* what may be recorded beside a number of requests

Types == {"current", "passbook", "securities", "employee_savings"}
Policies == {"sweep", "carry", "none"}
AccountIds == 1..MaxAccounts

ASSUME AccountsAssumption ==
    /\ MaxAccounts \in Nat
    /\ Room \in [0..Cardinality(Workers) -> Nat]
    /\ Periods \subseteq Nat /\ GrossValues \subseteq Nat
    /\ Deposits \subseteq Nat
    /\ \A r \in Rates : r \in Nat /\ r < 10000
    /\ \A f \in AccountForms :
          f = [name |-> f.name, type |-> f.type, policy |-> f.policy]

VARIABLES
    accounts,    \* a partial function from ids to rows
    lastId,      \* AUTOINCREMENT: ids are never given twice
    references,  \* the accounts an envelope or a transaction names
    settings,
    snapshots,   \* a partial function from <<account, month>> to gross values
    requests,    \* what each worker is in the middle of
    reply        \* whether the last valid cascade order was accepted

vars == <<accounts, lastId, references, settings, snapshots, requests, reply>>

----------------------------------------------------------------------------
(* Rows *)

IsSavings(row) == row.type # "current"

\* A current account is swept or carried over, a savings account neither.
PolicyFits(row) ==
    row.policy \in IF IsSavings(row) THEN {"none"} ELSE {"sweep", "carry"}

Names == {f.name : f \in AccountForms}

\* rank is fill_priority, 0 for NULL.
AccountRow ==
    [name : Names, type : Types, policy : Policies, rank : 0..MaxAccounts,
     active : BOOLEAN]

\* default is the default account, 0 for NULL; no foreign key holds it.
SettingsRow == [default : 0..MaxAccounts, deposit : Deposits, rate : Rates]

Request ==
         [at : {"idle"}]
    \cup [at : {"archiving"}, account : AccountIds]
    \cup [at : {"writing"}, account : AccountIds, row : AccountRow]
    \cup [at : {"saving"}, row : SettingsRow]

TypeOK ==
    /\ lastId \in 0..MaxAccounts
    /\ DOMAIN accounts \subseteq 1..lastId
    /\ \A a \in DOMAIN accounts : accounts[a] \in AccountRow
    /\ references \subseteq DOMAIN accounts
    /\ settings \in SettingsRow
    /\ DOMAIN snapshots \subseteq (DOMAIN accounts) \X Periods
    /\ \A k \in DOMAIN snapshots : snapshots[k] \in GrossValues
    /\ requests \in [Workers -> Request]
    /\ reply \in {"ok", "conflict"}

----------------------------------------------------------------------------
(* Statements *)

Put(table, key, row) ==
    [k \in DOMAIN table \cup {key} |-> IF k = key THEN row ELSE table[k]]

Without(table, key) == [k \in DOMAIN table \ {key} |-> table[k]]

\* The UNIQUE indexes on (user, name) and, where it is set, (user, rank).
Unique(table, a, row) ==
    \A b \in DOMAIN table \ {a} :
        /\ table[b].name # row.name
        /\ row.rank # 0 => table[b].rank # row.rank

\* Mutant: the snapshots have no foreign key.
ReferencedByBudget(a) == a \in references

\* The foreign keys of envelopes, transactions and snapshots.
Referenced(a) ==
    a \in references \/ \E p \in Periods : <<a, p>> \in DOMAIN snapshots

Idle == [at |-> "idle"]
At(w, stage) == requests[w].at = stage
Become(w, stage) == requests' = [requests EXCEPT ![w] = stage]
Answer(w) == Become(w, Idle)

\* Bound: snapshots, references and the default account.
Bounded ==
    Cardinality(DOMAIN snapshots) + Cardinality(references)
        + (IF settings.default = 0 THEN 0 ELSE 1)
      <= Room[Cardinality({w \in Workers : ~At(w, "idle")})]

AccountsInit ==
    /\ accounts = <<>> /\ lastId = 0 /\ references = {} /\ snapshots = <<>>
    /\ settings \in [default : {0}, deposit : Deposits, rate : Rates]
    /\ requests = [w \in Workers |-> Idle]
    /\ reply = "ok"

----------------------------------------------------------------------------
(* Accounts *)

ValidAccount(f) ==
    f.type \in Types /\ f.policy \in Policies /\ PolicyFits(f)

\* Mutant: the UPDATE leaves the policy out.
FillKeepingPolicy(row, f) == [row EXCEPT !.name = f.name, !.type = f.type]

\* The columns of the form; rank and status stay as they were read.
Fill(row, f) ==
    [name |-> f.name, type |-> f.type, policy |-> f.policy,
     rank |-> row.rank, active |-> row.active]

CreateAccount ==
    /\ lastId < MaxAccounts
    /\ \E f \in {x \in AccountForms : ValidAccount(x)} :
         LET row == [name |-> f.name, type |-> f.type, policy |-> f.policy,
                     rank |-> 0, active |-> TRUE]
         IN  /\ Unique(accounts, lastId + 1, row)
             /\ accounts' = Put(accounts, lastId + 1, row)
    /\ lastId' = lastId + 1
    /\ UNCHANGED <<references, settings, snapshots, requests, reply>>

ReadForUpdate(w) ==
    /\ At(w, "idle")
    /\ \E a \in DOMAIN accounts, f \in {x \in AccountForms : ValidAccount(x)} :
         Become(w, [at |-> "writing", account |-> a,
                    row |-> Fill(accounts[a], f)])
    /\ UNCHANGED <<accounts, lastId, references, settings, snapshots, reply>>
    /\ Bounded'

\* Archive and restore read the row; so does the deletion of a referenced
\* account, whose DELETE has just failed.
ReadForStatus(w) ==
    /\ \/ /\ At(w, "idle")
          /\ \E a \in DOMAIN accounts, active \in BOOLEAN :
               Become(w, [at |-> "writing", account |-> a,
                          row |-> [accounts[a] EXCEPT !.active = active]])
       \/ /\ At(w, "archiving")
          /\ LET a == requests[w].account
             IN  IF a \in DOMAIN accounts
                 THEN Become(w, [at |-> "writing", account |-> a,
                                 row |-> [accounts[a] EXCEPT !.active = FALSE]])
                 ELSE Answer(w)
    /\ UNCHANGED <<accounts, lastId, references, settings, snapshots, reply>>
    /\ Bounded'

\* UPDATE of the whole row: refused by a UNIQUE index, without effect when
\* the row is gone.
WriteAccount(w) ==
    /\ At(w, "writing")
    /\ LET r == requests[w]
       IN  IF r.account \in DOMAIN accounts /\ Unique(accounts, r.account, r.row)
           THEN accounts' = [accounts EXCEPT ![r.account] = r.row]
           ELSE UNCHANGED accounts
    /\ Answer(w)
    /\ UNCHANGED <<lastId, references, settings, snapshots, reply>>

DeleteAccount(w) ==
    /\ At(w, "idle")
    /\ \E a \in DOMAIN accounts :
         IF Referenced(a)
         THEN Become(w, [at |-> "archiving", account |-> a]) /\ UNCHANGED accounts
         ELSE accounts' = Without(accounts, a) /\ UNCHANGED requests
    /\ UNCHANGED <<lastId, references, settings, snapshots, reply>>
    /\ Bounded'

----------------------------------------------------------------------------
(* The savings cascade *)

Orders == UNION {{o \in [1..n -> DOMAIN accounts] : IsInjective(o)} :
                   n \in 0..Cardinality(DOMAIN accounts)}

\* Mutant: only savings accounts lose their rank.
ClearSavingsRanks ==
    [a \in DOMAIN accounts |->
       IF IsSavings(accounts[a]) THEN [accounts[a] EXCEPT !.rank = 0]
       ELSE accounts[a]]

\* The first pass: every rank back to NULL.
ClearRanks == [a \in DOMAIN accounts |-> [accounts[a] EXCEPT !.rank = 0]]

\* The second pass after its first n UPDATEs: the k-th account listed gets
\* rank k.
AssignRanks(table, order, n) ==
    [a \in DOMAIN table |->
       IF \E k \in 1..n : order[k] = a
       THEN [accounts[a] EXCEPT !.rank = CHOOSE k \in 1..n : order[k] = a]
       ELSE table[a]]

\* The n-th UPDATE meets the indexes as the ones before it left the table.
Refused(table, order, n) ==
    ~Unique(AssignRanks(table, order, n - 1), order[n],
            AssignRanks(table, order, n)[order[n]])

\* One transaction; a refused UPDATE rolls everything back.
ReorderCascade ==
    /\ DOMAIN accounts # {}
    /\ \E order \in Orders :
         /\ \A a \in Range(order) : IsSavings(accounts[a])
         /\ IF \E n \in DOMAIN order : Refused(ClearRanks, order, n)
            THEN reply' = "conflict" /\ UNCHANGED accounts
            ELSE /\ reply' = "ok"
                 /\ accounts' = AssignRanks(ClearRanks, order, Len(order))
    /\ UNCHANGED <<lastId, references, settings, snapshots, requests>>

----------------------------------------------------------------------------
(* Settings *)

\* The row is read, and the default account looked up.
ReadSettings(w) ==
    /\ At(w, "idle")
    /\ \/ \E a \in DOMAIN accounts \cup {0} :
            Become(w, [at |-> "saving", row |-> [settings EXCEPT !.default = a]])
       \/ \E d \in Deposits, r \in Rates :
            Become(w, [at |-> "saving",
                       row |-> [settings EXCEPT !.deposit = d, !.rate = r]])
    /\ UNCHANGED <<accounts, lastId, references, settings, snapshots, reply>>
    /\ Bounded'

WriteSettings(w) ==
    /\ At(w, "saving")
    /\ settings' = requests[w].row
    /\ Answer(w)
    /\ UNCHANGED <<accounts, lastId, references, snapshots, reply>>
    /\ Bounded'

----------------------------------------------------------------------------
(* Snapshots, and the rest of the budget *)

UpsertSnapshot ==
    /\ \E a \in DOMAIN accounts, p \in Periods, g \in GrossValues :
         /\ IsSavings(accounts[a])
         /\ snapshots' = Put(snapshots, <<a, p>>, g)
    /\ UNCHANGED <<accounts, lastId, references, settings, requests, reply>>
    /\ Bounded'

DeleteSnapshot ==
    /\ \E k \in DOMAIN snapshots : snapshots' = Without(snapshots, k)
    /\ UNCHANGED <<accounts, lastId, references, settings, requests, reply>>

\* Envelopes and transactions come to name an account, and cease to.
Reference ==
    /\ \E a \in DOMAIN accounts :
         references' \in {references \cup {a}, references \ {a}}
    /\ UNCHANGED <<accounts, lastId, settings, snapshots, requests, reply>>
    /\ Bounded'

AccountsNext ==
    \/ CreateAccount \/ ReorderCascade \/ UpsertSnapshot \/ DeleteSnapshot
    \/ Reference
    \/ \E w \in Workers :
         \/ ReadForUpdate(w) \/ ReadForStatus(w) \/ WriteAccount(w)
         \/ DeleteAccount(w) \/ ReadSettings(w) \/ WriteSettings(w)
=============================================================================
