-------------------------- MODULE EnvelopeConfig ---------------------------
(***************************************************************************)
(* The envelope configuration screen (services/envelopes.go) and the        *)
(* archiving of accounts, as far as the ledger depends on them: which       *)
(* budget lines exist, on which accounts, with which flow.  Names and       *)
(* parent categories are left out: an id of Categories stands for the leaf  *)
(* that find-or-create resolves a name to.                                  *)
(***************************************************************************)
EXTENDS LedgerState

\* The envelope form; `flow` is written to the shared leaf category.
EnvelopeForm ==
    [cat : Categories, flow : Flows, acc : Accounts, dest : Accounts \cup {None},
     mode : Modes, amount : Magnitudes \cup {None}, due : SUBSET Periods,
     day : Days \cup {None}]

\* A transfer names another account, a current one; no other flow names any.
ValidDest(form) ==
    IF form.flow = "transfer"
    THEN form.dest \in Accounts \ (Savings \cup {form.acc})
    ELSE form.dest = None

ValidEnvelope(form) ==
    /\ ValidDest(form)
    /\ form.mode = "residual" => form.amount = None

\* UNIQUE(user_id, category_id, account_id), over the rows other than e.
PairFree(e, cat, acc) ==
    \A x \in EnvelopeIds \ {e} : <<envelopes[x].cat, envelopes[x].acc>> # <<cat, acc>>

\* Only a fixed recurring line keeps its months and its expected day.
EnvelopeFrom(form, cat, status) ==
    LET fixed == form.mode = "fixed_recurring"
    IN  [cat |-> cat, acc |-> form.acc, dest |-> form.dest, mode |-> form.mode,
         amount |-> form.amount, due |-> IF fixed THEN form.due ELSE {},
         day |-> IF fixed THEN form.day ELSE None, status |-> status]

\* The leaf is found under the form's flow or created with it.  Row ids are
\* never reused, so an id some request still holds is not free.
CreateEnvelope(e, form) ==
    /\ envelopes[e] = None
    /\ \A r \in inFlight : r.env # e
    /\ ValidEnvelope(form)
    /\ categoryFlow[form.cat] \in {None, form.flow}
    /\ PairFree(e, form.cat, form.acc)
    /\ envelopes' = [envelopes EXCEPT ![e] = EnvelopeFrom(form, form.cat, "active")]
    /\ categoryFlow' = [categoryFlow EXCEPT ![form.cat] = form.flow]
    /\ UNCHANGED <<monthVars, inFlight, archivedAccounts, allocations, transactions>>

\* The envelope keeps its leaf, and the leaf takes the form's flow: every other
\* envelope on that leaf changes flow with it.
UpdateEnvelope(e, form) ==
    LET cat == envelopes[e].cat
    IN  /\ ValidEnvelope(form)
        /\ PairFree(e, cat, form.acc)
        /\ envelopes' = [envelopes EXCEPT ![e] = EnvelopeFrom(form, cat, @.status)]
        /\ categoryFlow' = [categoryFlow EXCEPT ![cat] = form.flow]
        /\ UNCHANGED <<monthVars, inFlight, archivedAccounts, allocations, transactions>>

----------------------------------------------------------------------------
(* Archive, restore and delete: a read that checks the mode, then one       *)
(* autocommit write, with any other request in between                      *)

Begin(request) ==
    /\ Cardinality(inFlight) < MaxInFlight
    /\ inFlight' = inFlight \cup {request}
    /\ UNCHANGED <<monthVars, categoryFlow, envelopes, archivedAccounts,
                   allocations, transactions>>

ReadForStatus(e, status) ==
    /\ envelopes[e].mode = "residual" => status = "active"
    /\ Begin([env |-> e, row |-> [envelopes[e] EXCEPT !.status = status]])

ReadForDelete(e) ==
    /\ envelopes[e].mode # "residual"
    /\ Begin([env |-> e, row |-> None])

Allocated(e) == \E p \in Periods : allocations[e][p] # None

End(r, row) ==
    /\ envelopes' = [envelopes EXCEPT ![r.env] = row]
    /\ inFlight' = inFlight \ {r}
    /\ UNCHANGED <<monthVars, categoryFlow, archivedAccounts, allocations, transactions>>

\* The UPDATE writes the whole row that was read; it matches nothing when the
\* row is gone.
WriteStatus(r) ==
    /\ r.row # None
    /\ envelopes[r.env] # None => PairFree(r.env, r.row.cat, r.row.acc)
    /\ End(r, IF envelopes[r.env] = None THEN None ELSE r.row)

\* Mutant: the deletion ignores the allocations.
DeleteEnvelopeAllocated(r) ==
    /\ r.row = None
    /\ End(r, None)

\* An allocation holds its envelope by a RESTRICT foreign key.
DeleteEnvelope(r) ==
    /\ r.row = None
    /\ ~Allocated(r.env)
    /\ End(r, None)

\* The write is refused by a constraint, the request is cancelled or the process
\* stops.  A refused deletion archives instead: a ReadForStatus that follows.
Abandon(r) == End(r, envelopes[r.env])

\* Archiving or restoring an account only matters here through its status.
SetAccountStatus(a) ==
    /\ archivedAccounts' \in {archivedAccounts \cup {a}, archivedAccounts \ {a}}
    /\ UNCHANGED <<monthVars, categoryFlow, envelopes, inFlight, allocations, transactions>>
=============================================================================
