# EconoMe: a TLA+ verification project

EconoMe is a self-hosted, server-rendered budgeting application (Go, SQLite,
htmx). This directory holds TLA+ modules translated from its source, the TLC
configurations that model-check them on small instances, and theorems about them
whose proofs TLAPS checks. Paths below are relative to the repository
(`src/internal/...` is written `internal/...`, `src/migrations` `migrations`).

- [1. The system](#1-the-system)
- [2. Atomicity and concurrency](#2-atomicity-and-concurrency)
- [3. Modules and code](#3-modules-and-code)
- [4. Runs](#4-runs)
- [5. Proofs](#5-proofs)
- [6. Findings](#6-findings)
- [7. What is not modelled](#7-what-is-not-modelled)
- [8. Plan](#8-plan)

## 1. The system

The process is one HTTP server over one SQLite file (WAL, busy timeout).
Handlers parse a form, call a use-case of `internal/services`, and render a page
or an htmx fragment from what it returns. A use-case reads and writes rows
through `internal/repo`, often inside `Store.WithTx`. The engine
(`internal/engine`) is a library of pure functions: the figures on a screen are
recomputed from the rows on every request, and no balance is stored. Nothing
runs in the background; apart from start-up (secret, migrations, backup) every
state change is a user's request or a command of the operator. All budget rows
are scoped by `user_id`, so the ledger and the patrimony are those of one user.

| Component | State | Operations | What makes it correct |
|---|---|---|---|
| Month initialisation, lifecycle (`services/monthinit.go`, `lifecycle.go`) | `period`, `period_event`; writes `allocation`, `transaction` | draft, create, lock, unlock, regenerate | a month is created once, its log tells its state, a regenerate fills gaps and changes nothing, a preview is kept |
| Journal (`services/journal.go`) | `transaction` | quick entry, six inline cell edits, delete, month summary | nothing enters, leaves or changes in a locked month; an amount has its flow's sign; a transfer moves both legs or none |
| Forecast (`services/forecast.go`) | `allocation`, sweep rows | edit an allocation, end-of-month sweep; table, panel, timeline | locked months stay put; a sweep moves money once; panel, curve and table tell one story |
| Reconciliation (`services/reconcile.go`, `engine/reconcile.go`) | `transaction` | match a cleared movement, pair two legs | a movement counts once; a pair survives later edits and deletions |
| Envelope configuration (`services/envelopes.go`) | `category`, `envelope` | create, update, archive, restore, delete | one envelope per (category, account); an envelope with history is never deleted; flow and destination agree |
| Accounts, savings cascade, settings (`services/accounts.go`, `settings.go`) | `account`, the settings row | create, update, archive, delete, reorder, default account | a valid order is accepted whatever the ranks; the policy fits the type after stale writes |
| Net worth (`services/networth.go`, `engine/networth.go`) | `snapshot` | upsert, delete; synthesis, register, curves | changes add up to values, supports to the total, two computations of one change agree |
| Engine (`internal/engine`) | none | balances, envelope states, savings, low point, rounding | figures computed by different code from the same rows agree |
| Authentication, sessions (`services/service.go`, `internal/auth`) | `user`, `session`, failure counter | setup, login, logout, resolve, sliding expiry, lockout | a revoked session stays revoked; one founder |
| Second factor, credentials (`services/security.go`) | TOTP secret, backup codes, password | enrol, confirm, disable, complete login, change | a backup code works once; an enabled factor has its secret |
| Administration (`services/admin.go`) | `user`, `invitation` | invite, revoke, accept, (de)activate, reset | an invitation is used once; an administrator always remains |
| Start-up, migrations, backup (`internal/repo`, `config/secret.go`, `cmd`) | the secret file, the database, its backups | ensure secret, list, back up, migrate | versions in order, each once, never without a copy; the secret survives; the server comes up |
| Handlers, views, localisation, wiring | none of their own | parse, render | out of scope: section 7 |

How they interact: the ledger's components act on the same six tables, and the
engine reads them; envelopes and rows name accounts (foreign keys), which is why
an account is archived rather than deleted; every request is admitted by the
session middleware first; and the whole of it runs on a schema that start-up
brought up to date. Three groups share no state a property depends on and are
modelled as three compositions (ledger, patrimony, access), with start-up as a
fourth.

The behaviours that are hard, and that the properties are aimed at:

- an envelope's form writes the flow of a *category*, which other envelopes and
  existing rows share;
- a month is drafted, created, locked, unlocked and regenerated while rows are
  moved across months and envelopes are reconfigured;
- the use-cases of accounts, settings, users and sessions read outside a
  transaction and write a whole row, a counter or a verdict back later;
- constraints of the schema (UNIQUE, CHECK, foreign keys) are part of the logic:
  a refused statement fails the use-case, and when an account or an envelope is
  deleted it selects another behaviour;
- one amount is computed in several places, from different queries;
- a container is killed or replaced at any point of a start, while a
  command-line tool, maybe of another release, opens the same directory.

`PROJECT.json` lists each hazard at its line, with the property that covers it or
the reason none does.

## 2. Atomicity and concurrency

`Store.WithTx` (`internal/repo/repo.go`) runs its callback in one SQLite write
transaction: it commits as a whole or has no effect, and two of them do not
overlap in effect. A use-case inside `WithTx` is therefore **one action**, with
every row it writes. The guard of the action is the conjunction of the use-case's
validations, its `ensureEditable` call and the constraints the schema puts on the
rows written; a use-case that returns an error is a stuttering step.

A use-case that reads through the autocommit handle, and does not read again in a
later transaction, is split into one action per statement, and any other request
may come between:

- *ledger*: archive, restore and delete of an envelope (`envelopes.go:365-413`).
  `ReadForStatus` / `ReadForDelete` put the row that was read in `inFlight`;
  `WriteStatus`, `DeleteEnvelope` and `Abandon` finish against whatever the
  tables hold by then;
- *patrimony*: a worker is `idle` or holds the account row, the settings row or
  the account to archive that it is about to write (`requests`). A failed DELETE
  falls back on an archive in a later statement;
- *access*: each worker runs an HTTP request statement by statement, and
  `requests[w]` holds what the handler read and still uses: the failure count of
  the user row, the verdict on the password, the backup code found, the session
  and the owner the middleware resolved. Every stage may be overtaken by the
  other worker, the operator's tool or the clock. `Abandon` is a cancelled
  request context or a server that stops: the next statement never runs;
- *start-up*: each process (the server, the tools) is at a stage of its start;
  `Fault` ends it anywhere, a transaction it was in rolled back, whatever it wrote
  before kept. `os.WriteFile` is two steps, the truncation and the write.

## 3. Modules and code

| Module | Models | Notes |
|---|---|---|
| `LedgerState` | the six budget tables, `ensureEditable`, `signedAmount`, inserts | a table is a function from ids to a row or `None` |
| `MonthInit` | `monthinit.go`, `lifecycle.go` | `DraftPosts` is `buildDraftPosts`, `Materialise` the inserts with their constraints, `MissingPosts` the presence markers of regenerate |
| `Journal` | `journal.go`, the writes of `forecast.go` | one operator per editable cell; `EditedFields` lets a run concentrate on a few |
| `Reconciliation` | `engine/reconcile.go`, `services/reconcile.go` | expected dates, windows and tolerances are explicit; the ambiguous case writes nothing |
| `EnvelopeConfig` | `envelopes.go`, account status | find-or-create of the leaf, the flow written to the shared leaf, the split requests |
| `MonthBook` | *abstract*: three lifecycle steps and "any write, to months that are not locked" | implemented by `Ledger` |
| `Ledger` | the composition of the five | the safety and action properties of the tables |
| `Figures` | `engine/*.go`, `engineinputs.go`, the draft preview, the month summary | operators over the ledger's tables: starts, balances, envelope states, savings, low point, curve, cascade target; a point of the curve is known by its place among the movements to come, in the order of day and id |
| `Forecast` | the screen of `forecast.go` | scopes, table with parent rows, footer, panel by kind of account, timeline |
| `Derived` | what the figures promise of each other | no state of its own |
| `Identity` | users, sessions, invitations, codes, pending tokens, request stages | carries the constants, rows and `TypeOK` of access |
| `SignIn` | `service.go`, `auth/*`, the session middleware | setup, password step, code step, lockout, resolution, sliding expiry, logout |
| `Credentials` | `security.go` | factor, backup codes, password, address, other sessions |
| `Administration` | `admin.go`, the user commands of `econome-admin` | `ManageUser` for an administrator, `CommandLine` for the tool |
| `Membership` | *abstract*: a founder, tickets used once, nobody suspends the last administrator | implemented by `Access` |
| `Access` | the composition of the four | any number of workers |
| `Money` | `engine/money.go`, the social charge of `engine/networth.go` | half-even division, basis points |
| `Accounts` | `accounts.go`, the settings row, snapshots | the two passes of `ReorderCascade` with the index looked at before each UPDATE |
| `NetWorth` | `engine/networth.go`, `services/networth.go` | values, changes, synthesis, register, curves |
| `Patrimony` | the composition and its properties | |
| `Upgrade` | *abstract*: versions in order, a copy before each, a release runs on what it needs | implemented by `Startup` |
| `Startup` | `config/secret.go`, `repo/migrate.go`, `cmd/*`, the container's restart policy | faults, tools of any release, changes of image |
| `MCLedger`, `MCDerived`, `MCAccess`, `MCPatrimony`, `MCStartup` | small instances | forms, movements, symmetry |
| `SumLemmas` | sums over finite sets, least and greatest numbers | lemmas only |
| `*Proofs` | theorems | section 5 |

State correspondence. *Ledger*: `periodState` is `period.state` (`"none"` when
there is no row), `periodEvents` the month's `period_event` rows in order,
`categoryFlow` the `flow_type` of each leaf category, the other tables go by their
names. Amounts are signed minor units, as stored. *Access*: the four tables, the
last id each AUTOINCREMENT gave out (`issued`), the pending-login tokens browsers
hold (`pendings`, which the server signs and does not store), and `now`. A
session row carries one column the table lacks, the backup code that opened it,
for the property about codes; no action reads it. *Patrimony*: `rank` is
`fill_priority` (0 for NULL), `references` the accounts some envelope or
transaction names, `reply` whether the last valid cascade order was accepted.
*Start-up*: `applied` is `schema_migrations` together with the schema those
versions made, since a migration and its row share a transaction; a backup is
known by the number of versions it holds, a secret by the process that wrote it.

Data abstractions, and why they lose nothing the properties can tell:

- A month is a natural number and a date is a (month, day) pair, in months of
  `MonthLength` days; windows work on the day numbers these give.
- `(frequency, due_months)` of an envelope is the set of months it falls in.
- A category name is the id that find-or-create resolves it to. The tree of
  categories is left out of the ledger; where it matters (the table of the
  forecast) the parent of each category is quantified over, under the rule that
  the form groups categories of one flow.
- The quick-entry form is the one the handler builds
  (`handlers/journal.go:165-205`): a dated entry is budgeted in its date's month.
- `Figures` takes the settings of accounts (policies, cascade, ceilings) as
  constants and quantifies over today, over the order of row ids and over the gross
  values of a month's snapshots (the engine is given the snapshots of that month
  only, `services/engineinputs.go`).
- An observed movement is an expense or an income with the sign of its flow, and a
  leg to pair is a transfer row described by itself, as the comments of
  `services/reconcile.go:77-81` and its callers, all of them tests, have it; the
  code itself takes sign, flow, account and amount from the caller.
- An invitation is accepted with the time read before the password was hashed:
  `ClockRead` is any instant since the invitation was made.
- A sweep of the ledger moves any positive amount from any current account to any
  vehicle; `SweepResidual` of `Figures` says which of these the screen submits.
- A snapshot, a reference and a default account may be recorded as `Room` allows
  beside the requests that are under way: a bound of the patrimony, no code.
- A password, one-time code or token is right or wrong, and the action says which.
  The rehash on login changes no modelled column. A throttled request does not
  happen.
- int64 does not overflow at the amounts of a household.
- Labels, notes, ordering and the label-learning side table are left out.

Operators whose comment starts with "Mutant:" are plausible bugs of the next
definition. They are used by no specification; substituting one for its
neighbour must break a property, which shows that the property depends on the
code it is about.

## 4. Runs

Bounds are constants: ids of each table, `Periods`, `Magnitudes`, `Days`,
`MaxEvents` (entries in a month's log), `MaxInFlight`, the `Max...` of each
module and `Room` of the patrimony. A bounded table blocks an insert when it is
full, which can only remove behaviours. Deadlock is checked in every run except the two of `Access`, where
the bounded instance really may stop: the clock is at its end and every session
id given out.

| Run | Question | Bounds |
|---|---|---|
| `ledger_month` | configuration against the month assistant, half-done archive and delete requests included: `TypeOK`, `EnvelopesIntact`, `RegenerateIsAdditive` | 1 month, 2 envelopes, 2 rows, 3 forms (two on one shared leaf, one transfer), an account archived and restored, log of 1, 1 request in flight |
| `ledger_journal` | every cell edit, entry, sweep and allocation edit over two months, and the figures in each of those states: `AuditMatchesState`, `SignMatchesFlow`, `TransferLegsFixed`, `ImplementsMonthBook`; `MoneyConserved`, `JournalAgrees`, `SecuredMeetsPlan`, `CurveMeetsProjection`, `PreviewKept` | 2 months, 1 row, 1 envelope whose leaf changes flow, a current and a savings account, expenses and a transfer with a destination, log of 3 |
| `ledger_reconcile` | entries, edits, reconciliations, pairings and sweeps in any order: `PairsIntact`, `ReconcileCountsOnce`, `LowPointsAgree`, `SweepCountsOnce` | 1 month of 2 days, 2 rows, 2 current accounts and 2 vehicles, tolerance 1, window 0; the first vehicle has a ceiling of 2 and a snapshot of 0, 1 or 2, the second neither |
| `access_people` | people come, go and are managed: `LastAdmin`, `RevokedStaysRevoked`, `ImplementsMembership` | 2 workers and the tool, a founder and an invited user (`MaxUsers` leaves room for the third account a double acceptance would create), 2 sessions, 1 invitation, 2 instants, no second factor |
| `access_signin` | one account with a second factor: `TypeOK`, `FactorHasSecret`, `BackupCodeOnce` | 2 workers, 1 user, 2 backup codes in sets of 1, 1 pending token, 1 failure, 2 instants |
| `patrimony` | accounts, ranks, settings and snapshots while two requests carry rows the other may have changed: `TypeOK`, `PolicyFollowsType`, `OrderAlwaysAccepted`, `DeltasAddUp`, `SynthesisAgrees`, `CurvesAddUp`, `MoreGrossMoreNet` | 2 workers, 2 accounts of 3 forms; months 1, 2 and 4 recorded in any order (3 never); values 10000, 10624 and 10625, deposit 10500, rate 17.20 %; 3 records while nobody writes, 1 beside one request, none beside two |
| `startup` | starts, kills, tools and changes of image: `TypeOK`, `BackupIsPreUpgrade`, `SecretSurvives`, `ServerComesUp`, `ImplementsUpgrade` | the server and a tool, 3 releases, 2 faults, 2 deployments |
| `ledger_destination`, `ledger_regenerate`, `ledger_transfer_row`, `ledger_delete_rows`, `ledger_footer` | findings 1 to 5 | as the passing runs; `ledger_regenerate` has 3 envelopes, 3 categories, 3 rows |

Why the bounds are enough. *Ledger*: a log of three entries has create, lock and
unlock; the lock guards read `periodState` only, so longer logs revisit the same
table states. Two months are the least that a row can be moved between; two
envelopes the least that share a leaf, two rows the least that pair. One request
in flight against arbitrary other requests gives every order of its read and its
write with another request's effect. Magnitude 0 is in the month run because a
refused amount is the interesting case, and two magnitudes one apart are in the
reconciliation run because of the tolerance. The figures are checked in every
state those runs reach, rows of other flows than their category's and rows
dated outside their month included, for every `today` and every order of ids.
Two current accounts and two vehicles make source and destination of a sweep a choice
each; the first vehicle is empty, about to be overrun or full.
*Access*: two workers give every order of two requests' statements; two
administrators are the least who can deactivate each other; one code per set makes a
regenerated set distinct from the first. *Patrimony*: two accounts suffice for a
collision of names or of ranks, and an account that was ranked and became current
is the case the order of the two passes is about. With two workers a stale row
crosses another write, an archive or a deletion of the same account, so that it may
be gone when its turn comes. Three recorded months are the least in which the last
one before a month is a choice, and they are recorded, corrected and removed in any order.
The gains are -500, 124 and 125 at 17.20 %: the last two cost 21.328 and 21.5,
which is beside a half and on one. The figures read no request, so it is enough
that the three records stand while nobody writes. *Start-up*: three releases let a
tool be older, equal or newer than the server and leave the server two versions
behind; two faults hit a start and the start that follows. The theorems of
section 5 remove the bounds for the properties they name.

What the properties mean, ledger tables first:

- `AuditMatchesState`: a log is empty exactly when the month has no row, has one
  `create`, first, alternates lock and unlock and ends in the month's state.
- `SignMatchesFlow`: no stored amount is zero or has another sign than its row's
  flow, although the flow of a row changes with its category and the flow of a
  category with any envelope on it. Balances add amounts without looking at flow.
- `ImplementsMonthBook`: refinement of `MonthBook` under `state <- periodState`
  and `content <- ` the allocations and the rows of each month: months follow
  their lifecycle and no use-case, in any order, changes, adds or removes a row or
  an allocation of a locked month.
- `TransferLegsFixed`: the accounts, category and flow of a transfer row are
  never edited.
- `EnvelopesIntact`: an allocated envelope is never deleted whatever crosses the
  deletion, and a (category, account) pair names one envelope.
- `RegenerateIsAdditive`: a regenerate leaves every row and allocation as it is,
  adds a line only for an envelope that was not allocated, one at most, and a
  transfer only between two accounts that had none; nothing it would add is left.
  It does not say that an envelope has one line: one that posted a transfer and was
  then turned into an expense gets a line of its new flow beside the transfer
  (`lifecycle.go:118-139` looks for the line of the flow it would post).
- `PairsIntact`: the row a paired row points to exists, is a transfer, and is on
  another account, through later edits, deletions and pairings. That the pointer
  is mutual is *not* true: pairing leaves both rows awaited, so a third leg may
  pair with one of them.
- `ReconcileCountsOnce`: reconciling moves the cleared total of the movement's
  account by exactly the movement, and of no other account.

Figures:

- `MoneyConserved`: the ends of all accounts add up to what came in and went out,
  through a chain of months, transfers making no difference.
- `CurveMeetsProjection`: the real balance of today and the curve from today on
  count every movement once between them.
- `LowPointsAgree`: the low point of the panel is the minimum of the curve drawn
  beside it, in every scope, and no account of the scope ends below it.
- `SweepCountsOnce`: the sweep the screen submits takes what was left to save from
  the account, or a part of it, and exactly that arrives at one vehicle that was
  neither full nor archived, for every snapshot of the month; no other vehicle
  moves. A second sweep, whatever was entered or deleted in between, therefore
  finds only what is left.
- `SecuredMeetsPlan`: when the income came as planned and nothing is overrun, the
  prudent figure equals the planned one, up to the transfers made.
- `JournalAgrees`: the journal's summary and the amount to sweep differ by exactly
  the start of the month, the cleared transfers, the pending expenses, and the
  cleared `Guests`: entries of another account that name this one as destination.
  A quick entry stores the destination of its form whatever its flow
  (`handlers/journal.go:185-189`), the journal of either account counts such a row,
  and a balance counts it in the account it was made on.
- `PreviewKept`: a month created with the amounts on screen has the residual that
  was shown beside them, unless an envelope was allocated before the month existed.
- `DeltasAddUp`, `SynthesisAgrees`, `CurvesAddUp`, `MoreGrossMoreNet`: the changes
  of a support telescope to its value across gaps and corrections; the two
  computations of a month's change agree; the register's curves add up to the
  total's; a higher gross value never gives a lower net one.

Access, accounts and start-up:

- `LastAdmin`, `FactorHasSecret`, `BackupCodeOnce`, `RevokedStaysRevoked`: what no
  interleaving of statements may break. The last one is about requests that read
  a session, then slide its expiry by id after it was revoked.
- `ImplementsMembership`: refinement of `Membership` under the roles and states of
  the rows.
- `PolicyFollowsType`: the rule that ties two columns and that the schema leaves to
  the service holds after any stale write of a whole row.
- `OrderAlwaysAccepted`: a valid order never meets the UNIQUE index half-way.
- `BackupIsPreUpgrade`: a process that has migrated anything copied exactly the
  schema it found, even if another process migrated at the same time.
- `SecretSurvives`: once a start has left a secret and nothing is running, it stays.
- `ServerComesUp`: the server is up for good in the end, or the secret file was
  cut short (`EnsureSecret` then refuses every start).
- `ImplementsUpgrade`: refinement of `Upgrade`.

**Fairness.** `Startup` assumes weak fairness of the server's own steps and of
nothing else. The server's process runs as long as it is not killed, and the
container starts it again whenever it ends (`restart: unless-stopped`,
`docker-compose.direct.yml:26`). No tool has to be run or to finish: a tool
stopped half-way must not keep the server from coming up. Kills and deployments
are bounded, which is what "in the end" means. Everywhere else each step is a user's
request, and nothing in the code promises that a user ever makes one; those
specifications state no fairness and have no liveness property.

## 5. Proofs

The theorems hold for every value of the constants that satisfies the named
assumptions (`LedgerAssumption`, `RowAssumption`, `FieldsAssumption`,
`ToleranceAssumption`, `InputAssumption`, `FiguresAssumption`,
`GroupsAssumption`, `IdentityAssumption`, `AccountsAssumption`,
`StartupAssumption`): any number of months, accounts,
envelopes, rows, workers, users, sessions, codes, tools, releases, any forms and
amounts. The assumptions say that numbers are naturals, that accounts, envelopes
and rows are finite in number (a table of a database is), that the absence of a
row is no row, account, category or amount, that a parent category is no envelope, that
forms are forms, and that a rate is under 100 %.

`LedgerProofs`, `LedgerSafetyProofs`:

- `TypeCorrect`: `TypeOK` is not inductive, since the flow of an envelope's
  category could be `None`. `TypeInv` adds `LeavesExist`: every envelope, and every
  row a request in flight will write back, names a category that exists. It holds
  because a leaf's flow is only overwritten by another flow.
- `SignsFollowFlows`, `AuditFollowsMonth`: inductive relative to `TypeInv`.
- `LedgerImplementsMonthBook`: the lemma `Spares(q)` says of each writing action
  which months' content it leaves alone. Creating a month maps to `OpenMonth`, lock
  and unlock to `CloseMonth` and `ReopenMonth`, configuration to a stutter,
  everything else to `WriteMonths`.
- `EnvelopesStayIntact`: every statement that writes an envelope is under UNIQUE,
  allocations only go to envelopes that exist, and the deletion runs under RESTRICT
  at the moment of the write; what the request read earlier does not enter.
- `RegenerateOnlyAdds`: over `EnvelopesIntact`, since two posts of one category and
  account would be two lines; `TransferLegsNeverEdited`; `PairsStayIntact`, which
  needs `PairInv`: the row holding a link is a transfer too.

`AccessProofs`, `AccessSafetyProofs`:

- `AccessTypeCorrect`. Every request in progress holds ids it read earlier, so the
  types rest on `Known` (those ids are still users) and on `Numbered` (users are
  1, 2, ... without a gap), which hold because users are never deleted.
- `AnAdminRemains`, `FactorsHaveSecrets`: the invariant `UsersInv` adds `Hosted`
  (an invitation presupposes a user, so an acceptance never is the first account).
  Each statement that writes a user row is classified once (`UsersStep`).
- `RevokedSessionsStayRevoked`: only `IssueSession` adds a session, under an id that was
  not given out; `Touch` updates a row that is there.
- `BackupCodesOpenOnce`: `OnceInv` says that the code of every session and of
  every request about to insert one is *spent* (given out, and consumed or deleted),
  and that no two of these are the same. A new one can then not collide, because
  `MarkConsumed` succeeds on an unconsumed row only.
- `AccessImplementsMembership`: over `UsersInv`; the statement that a suspension
  leaves another active administrator is a fact about cardinalities.

`PatrimonyProofs`:

- `PatrimonyTypeCorrect`, `PoliciesFollowTypes`: the invariant `PatrimonyInv` says of
  each row waiting to be written back what it says of the rows of the table.
- `OrdersAreAccepted`: needs that names differ (UNIQUE), since each UPDATE meets
  that index too. After n UPDATEs, the ranks in the table are 1..n, each on its
  account (`RanksGiven`, `RanksType`), because the first pass cleared the others.
- `NetFollowsGross`: monotonicity of half-even division with an increment bounded
  by the divisor (`RoundingSteps`); this is where the rate under 100 % is used.

`StartupProofs`:

- `StartupTypeCorrect`, `BackupsPrecedeUpgrades`, over `UpgradeInv`: the versions
  applied are 1..Level, and what a process still means to apply starts right after
  what it found plus what it applied. A second process that migrated meanwhile
  makes the first one fail on its next version, never skip it.
- `SecretsSurvive`: from a state where all processes are down, no process is ever
  between finding no secret and writing one.
- `StartupImplementsUpgrade`: `ApplyOne` maps to `Advance`, and to `Run` as well when
  it was the last; `Backup` and `RunBackup` to `Copy`.

`SumLemmas`. Every figure is a sum over a set of rows, accounts, envelopes or
supports, and the library defines that sum by a recursive function. The module
shows that the function exists and is unique, then what a sum does under the
removal of an element, a split, a pointwise sum or negation, a swap of two sums, a
regrouping by key. Each statement is proved on a *minimal subset* that would refute
it: the order of strict inclusion on a finite set is well founded, and to use that
takes no induction scheme over operators.

`DerivedProofs`. The figures have no state of their own: their invariants follow from
`TypeInv`, with `EnvelopesIntact` where rows are counted by envelope; their action
properties compare two states, `MovementsCountOnce` with the signs as well.

- `MoneyIsConserved`. `Start` carries a balance over the created months, and is a
  recursive function over months; it is shown to equal a sum over all rows of these
  months (`CarriedOver`), after which conservation is a swap of the sums over accounts
  and over rows, a transfer being counted once with each sign.
- `MovementsCountOnce`: a reconciliation changes or inserts exactly one row, so the
  cleared totals differ by that row's share.
- `PreviewIsKept`: an envelope's amount in the draft is the allocation it gets, and
  the rows the creation inserts do not enter the projection of savings.
- `SweepsCountOnce`: the sweep inserts a cleared row of the account, whose share is minus
  the residual, disturbs no earlier month, and enters the balance of its destination
  and of no other vehicle. Nothing is left to save afterwards, which is more than the
  property asks.
- `JournalsAgree`: both figures are sums over rows of the month, the journal's over
  the account's own rows and its guests; the own rows are split by status and flow.
  It has no hypothesis on destinations. `SecuredSavingsMeetPlan`: the rows are regrouped by the one envelope
  each is under (`EnvelopesIntact`: its category and account name one), and what an
  envelope still holds back is what was planned less what it used.
- `BadgeMatchesRemaining`: the five states of an expense line say of the remainder
  beside it what their names say, for every plan, spending and expectation.
- `CurvesMeetProjections`, `LowPointsTellOneStory`: the last point of the curve is the
  total of the movements to come, which together with the counted ones are the
  month's. The low point is a minimum over the same points.
- `CurveRunsInOrder` says that the curve is one: places are the numbers from 1 on, in
  the order of days and then ids, and each point adds its own movement to the one
  before. It holds for every injective order of ids.
- `FooterRightWhenGroupsSpend` delimits finding 5. The footer is right, for every
  scope, parent assignment and month, when no income envelope is filed under a
  parent; its hypothesis is exactly what the violating run breaks.

`PatrimonyProofs`, the sums of net worth:

- `ChangesAddUp`: the changes up to a month add up to the latest value, by
  minimality over months (`LeastNat`) because a change refers to the last *recorded*
  month before it. `SynthesisAndEngineAgree`: the difference of two totals is
  the sum of differences; the supports that appear count in full.
  `RegisterCurvesAddUp` splits the supports into passbooks and others.
- `RoundsToNearestEven`: what `RoundHalfEvenDiv` computes is within half a divisor of
  the quotient, and even when exactly half-way, for negative numerators too.

What the attempts to prove taught: with rows of a transfer allowed under
any category, `SecuredMeetsPlan` was false beyond the bounds of its run (the flow of
a category can change after the row was written, finding 1, and the row then counts
as the spending of an envelope and as a transfer). Its hypothesis `Budgeted` now
says that a transfer names no category. The curve was defined by a sort and is now
defined by the place of each movement. The guards of `EnvelopeState` overlapped where
the code's are tried in order; they now exclude each other.

Only model-checked, not proved: `ServerComesUp`, because liveness under fairness and
`ENABLED` are out of the prover's reach, and the five runs that end in a violation.
Every other property of a passing run is also a theorem. No module declares a
RECURSIVE operator.

## 6. Findings

Five statements of the source's own comments do not hold. `PROJECT.json` quotes
each; the run named with it produces a short trace.

1. `ledger_destination`. `resolveDest` says that only transfer envelopes carry a
   destination account. The flow belongs to the leaf category, which the envelopes
   of several accounts share: saving one of them as a transfer turns its siblings
   into transfers without a destination, and back.
2. `ledger_regenerate`. Regenerate is documented to add the lines now due that are
   absent. The presence of a transfer line is inferred from the account pair of
   any transfer of the month, so the second of two transfer envelopes between the
   same accounts is never generated, while creating the month generates both.
3. `ledger_transfer_row`. The model documents a transfer as one two-legged row with
   a destination and no category. A quick entry, or a category edit, on a leaf
   whose flow is a transfer stores a transfer row with a category and no
   destination.
4. `ledger_delete_rows`. An envelope is documented to be hard-deleted only when it has
   no allocations and no transactions. The decision is left to the foreign keys, and
   no transaction refers to an envelope: one whose category and account appear in the
   journal, but that has no allocation, is deleted and its rows lose their line.
5. `ledger_footer`. The footer is documented to total the expense envelopes only.
   A parent row has the flow expense whatever it groups, so income envelopes filed
   under a parent are counted as spending in the table of a single account.

A ceiling is kept in part. The comment of `cascadeTarget` ("never auto-exceed a
ceiling", `engine/savings.go:89-91`), which a test repeats for the case of all
vehicles full (`engine/savings_test.go:116`), holds for a vehicle that is *already*
full: it is never the target. The sweep then sends the whole residual to the first
vehicle that is not, even when that takes it past its ceiling
(`services/forecast.go:287-292`); `ledger_reconcile` contains such steps, and
`SweepCountsOnce` does not exclude them. Fullness looks at the month's own snapshot,
so that a vehicle filled in an earlier month counts as empty
(`docs/progress/0005-month-init.md:101`).

Behaviours met while modelling that no comment or document rules out, and that no
run therefore reports:

- Pairing leaves both rows awaited, and a third leg may take one of them over.
- An envelope turned from a transfer into an expense has a line and no allocation,
  and the next regenerate gives it a second line, of its new flow.
- A row that is no transfer may have a destination. It appears, and counts, in the
  journals of two accounts, and in one balance.
- An invitation may have expired by the time its acceptance commits: the clock is
  read before the password is hashed (`services/admin.go:118`).
- An enrolment's late write switches off a factor that was enabled meanwhile.
- An update of a ranked savings account can leave a *current* account with a rank.
- Two first processes on an empty directory each generate a secret; the second
  write wins.
- The start of a locked month moves when an earlier, open month is edited.
- An envelope turned residual between the check and the DELETE is deleted.
- Allocating an envelope in a month that does not exist makes the creation of that
  month fail, as does a recurring envelope without a default amount.
- `receivedIncome` is said to count cleared and pending income; what it adds up is
  the cleared part (`services/forecast.go:709`).

## 7. What is not modelled

- Views, localisation, routes, headers, flags: text in and text out. Of the
  handlers, what bounds a use-case's inputs and the requests that run several
  statements are modelled, rendering is not.
- Names and parent moves of categories; comments on snapshots; language, theme,
  learned labels; layout of the charts.
- The per-address throttle: it lives in memory and refuses before any handler.
- `SetAdmin`, which no route and no command calls.
- Password hashing, token signatures and TOTP arithmetic: right or wrong.
- The retry of a reconciliation: movements carry no identity in the code yet
  (`external_ref` is reserved), so a retry is a second movement.
- Isolation between users: every query is scoped by `user_id`, and the ledger is
  that of one user.

## 8. Plan

1. *(done)* The ledger: tables, lifecycle, journal, reconciliation, configuration;
   abstract book; type, sign, audit, integrity and refinement theorems.
2. *(done)* Access: statements of sign-in, credentials and administration;
   `Membership`; theorems for each of its properties.
3. *(done)* Patrimony: accounts, cascade, settings, snapshots, net worth; theorems
   for each of its properties.
4. *(done)* Figures: the engine and the screens over the ledger's tables.
5. *(done)* Start-up: secret, migrations, backups, faults, releases; liveness of the
   server; `Upgrade`; theorems.
6. *(done)* The lemmas about sums, and theorems for the figures and net worth.
7. A run of its own for the ceiling that one sweep takes a vehicle past, with the
   snapshots as state; the windows of reconciliation.
8. The tree of categories as state of the ledger (finding 5 then without a
   quantified parent), and the comments of net worth.
