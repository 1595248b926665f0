----------------------------- MODULE MonthInit -----------------------------
(***************************************************************************)
(* The month-initialisation assistant (services/monthinit.go) and the       *)
(* month-lifecycle controls (services/lifecycle.go): what the current       *)
(* envelope configuration generates for a month, its one-time              *)
(* materialisation, closing and reopening, and the additive regenerate.     *)
(***************************************************************************)
EXTENDS LedgerState

----------------------------------------------------------------------------
(* The draft *)

IsRecurring(e) == envelopes[e].mode = "fixed_recurring"

\* Variable lines fall in every month, fixed lines in their due months.
DueThisMonth(e, p) ==
    \/ envelopes[e].mode = "variable"
    \/ IsRecurring(e) /\ p \in envelopes[e].due

FlowOf(e) == categoryFlow[envelopes[e].cat]

\* The envelopes buildDraftPosts makes a post of: active, not residual, on an
\* active account, due; a variable transfer generates nothing.
DraftPosts(p) ==
    {e \in EnvelopeIds :
        /\ envelopes[e].status = "active"
        /\ envelopes[e].mode # "residual"
        /\ envelopes[e].acc \notin archivedAccounts
        /\ DueThisMonth(e, p)
        /\ FlowOf(e) = "transfer" => IsRecurring(e)}

HasAllocation(e) == FlowOf(e) # "transfer"
HasTxn(e) == IsRecurring(e)

DefaultMagnitude(e) == IF envelopes[e].amount = None THEN 0 ELSE envelopes[e].amount

\* The awaited row of a post.  The destination is the envelope's, whatever the
\* category's flow; the category is dropped for a transfer.
AwaitedPost(e, p, amount) ==
    [acc |-> envelopes[e].acc, dest |-> envelopes[e].dest,
     cat |-> IF FlowOf(e) = "transfer" THEN None ELSE envelopes[e].cat,
     flow |-> FlowOf(e), amount |-> SignedAmount(FlowOf(e), amount),
     date |-> None, period |-> p, status |-> "awaited", paired |-> None]

\* The statements that materialise `posts`, amounts by envelope: refused as a
\* whole by UNIQUE(envelope_id, period) or by CHECK(amount <> 0).
Materialise(posts, p, amount) ==
    /\ \A e \in posts :
        /\ HasAllocation(e) => allocations[e][p] = None
        /\ HasTxn(e) => amount[e] # 0
    /\ allocations' =
        [e \in Envelopes |->
            IF e \in posts /\ HasAllocation(e)
            THEN [allocations[e] EXCEPT ![p] = amount[e]]
            ELSE allocations[e]]
    /\ InsertRows([e \in {x \in posts : HasTxn(x)} |-> AwaitedPost(e, p, amount[e])])

\* Mutant: the log records the new state instead of the action.
AppendState(p, action) ==
    /\ Len(periodEvents[p]) < MaxEvents
    /\ periodEvents' =
        [periodEvents EXCEPT ![p] = Append(@, IF action = "lock" THEN "locked" ELSE "active")]

AppendEvent(p, action) ==
    /\ Len(periodEvents[p]) < MaxEvents
    /\ periodEvents' = [periodEvents EXCEPT ![p] = Append(@, action)]

\* The user may override the amount of any line of the draft.
Overrides == [Envelopes -> Magnitudes \cup {None}]

\* Mutant: a month may be initialised again.
CreateMonthAgain(p, override) ==
    LET posts == DraftPosts(p)
        amount == [e \in posts |->
                     IF override[e] # None THEN override[e] ELSE DefaultMagnitude(e)]
    IN  /\ Materialise(posts, p, amount)
        /\ periodState' = [periodState EXCEPT ![p] = "active"]
        /\ AppendEvent(p, "create")
        /\ UNCHANGED configVars

\* Mutant: the amounts the user typed are dropped.
CreateMonthDefaults(p, override) ==
    LET posts == DraftPosts(p)
    IN  /\ periodState[p] = "none"
        /\ Materialise(posts, p, [e \in posts |-> DefaultMagnitude(e)])
        /\ periodState' = [periodState EXCEPT ![p] = "active"]
        /\ AppendEvent(p, "create")
        /\ UNCHANGED configVars

CreateMonth(p, override) ==
    LET posts == DraftPosts(p)
        amount == [e \in posts |->
                     IF override[e] # None THEN override[e] ELSE DefaultMagnitude(e)]
    IN  /\ periodState[p] = "none"
        /\ Materialise(posts, p, amount)
        /\ periodState' = [periodState EXCEPT ![p] = "active"]
        /\ AppendEvent(p, "create")
        /\ UNCHANGED configVars

----------------------------------------------------------------------------
(* Closing, reopening and regenerating *)

SetPeriodState(p, target) ==
    /\ periodState[p] \notin {"none", target}
    /\ periodState' = [periodState EXCEPT ![p] = target]
    /\ AppendEvent(p, IF target = "locked" THEN "lock" ELSE "unlock")
    /\ UNCHANGED <<configVars, allocations, transactions>>

LockMonth(p) == SetPeriodState(p, "locked")
UnlockMonth(p) == SetPeriodState(p, "active")

\* The account pairs that already carry a transfer in the month.
TransferPairs(p) ==
    {<<transactions[t].acc, transactions[t].dest>> :
        t \in {x \in RowsOf(p) : transactions[x].flow = "transfer"
                                 /\ transactions[x].dest # None}}

\* Mutant: a transfer has no presence marker.
MissingPostsAnyTransfer(p) ==
    {e \in DraftPosts(p) :
        IF HasAllocation(e) THEN allocations[e][p] = None ELSE envelopes[e].dest # None}

MissingPosts(p) ==
    {e \in DraftPosts(p) :
        IF HasAllocation(e)
        THEN allocations[e][p] = None
        ELSE /\ envelopes[e].dest # None
             /\ <<envelopes[e].acc, envelopes[e].dest>> \notin TransferPairs(p)}

RegenerateMissingRecurring(p) ==
    /\ periodState[p] = "active"
    /\ Materialise(MissingPosts(p), p, [e \in Envelopes |-> DefaultMagnitude(e)])
    /\ UNCHANGED <<monthVars, configVars>>
=============================================================================
