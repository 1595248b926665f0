------------------------------ MODULE Identity ------------------------------
(***************************************************************************)
(* The tables of the user accounts and what one SQL statement does to them: *)
(* user, session, invitation and totp_backup_code, the signed tokens of the *)
(* two-step login, and the HTTP requests that are between two statements.   *)
(*                                                                          *)
(* A password, a one-time code or a token is either the right one or not:   *)
(* the action chosen says which.  Ids come from AUTOINCREMENT and are never *)
(* given twice, which each table remembers in a counter of its own.         *)
(***************************************************************************)
EXTENDS Naturals, Sequences, FiniteSets

CONSTANTS
    Workers,          \* the requests the server handles at the same time
    Emails, Secrets,  \* e-mail addresses, TOTP secrets
    None,             \* SQL NULL
    Threshold,        \* auth.LockoutThreshold
    Backoffs,         \* auth.backoffs, a sequence of durations
    Lifetime,         \* the life of a session, by kind
    PendingTTL, InvitationTTL,
    CodesPerSet,      \* backup codes issued together
    \* Bounds of the model.
    MaxUsers, MaxSessions, MaxInvitations, MaxCodes, MaxFailures, MaxNow,
    MaxPendings

Kinds == {"short", "remember"}

ASSUME IdentityAssumption ==
    /\ None \notin Secrets
    /\ {Threshold, PendingTTL, InvitationTTL, CodesPerSet} \subseteq Nat
    /\ {MaxUsers, MaxSessions, MaxInvitations, MaxCodes} \subseteq Nat
    /\ {MaxFailures, MaxNow} \subseteq Nat
    /\ Backoffs \in Seq(Nat) /\ Backoffs # <<>>
    /\ Lifetime \in [Kinds -> Nat]

VARIABLES
    users, sessions, invitations, codes,  \* partial functions from ids to rows
    issued,     \* the last id given out, by table
    pendings,   \* the pending-login tokens browsers hold
    requests,   \* what each worker is in the middle of
    now

vars == <<users, sessions, invitations, codes, issued, pendings, requests, now>>

----------------------------------------------------------------------------
(* Rows *)

UserIds == 1..MaxUsers
SessionIds == 1..MaxSessions
InvitationIds == 1..MaxInvitations
CodeIds == 1..MaxCodes
Tables == {"session", "invitation", "code"}

\* users are never deleted, so their counter is their number.
UserRow ==
    [email : Emails, admin : BOOLEAN, active : BOOLEAN, mustChange : BOOLEAN,
     factor : BOOLEAN, secret : Secrets \cup {None},
     failures : Nat, lockedUntil : Nat]

\* code is the backup code that opened the session, 0 when none did: the
\* table has no such column, it is there for the properties.
SessionRow == [user : UserIds, kind : Kinds, expires : Nat, code : Nat]

InvitationRow ==
    [admin : BOOLEAN, by : UserIds, expires : Nat,
     state : {"open", "consumed", "revoked"}]

CodeRow == [user : UserIds, consumed : BOOLEAN]

Pending == [user : UserIds, kind : Kinds, expires : Nat]

\* Each stage keeps what the handler read before and still uses.
Request ==
         [at : {"idle"}]
    \cup [at : {"failed"}, user : UserIds, failures : Nat, lockedUntil : Nat]
    \cup [at : {"verified"}, user : UserIds, kind : Kinds, factor : BOOLEAN,
          since : Nat]
    \cup [at : {"listing"}, user : UserIds, kind : Kinds]
    \cup [at : {"consuming"}, user : UserIds, kind : Kinds, code : Nat]
    \cup [at : {"issuing"}, user : UserIds, kind : Kinds, code : Nat]
    \cup [at : {"expired", "leaving"}, session : SessionIds]
    \cup [at : {"resolving"}, user : UserIds, session : SessionIds,
          expires : Nat]
    \cup [at : {"barred"}, user : UserIds]
    \cup [at : {"touching"}, user : UserIds, session : SessionIds,
          expires : Nat, admin : BOOLEAN, mustChange : BOOLEAN]
    \cup [at : {"admitted"}, user : UserIds, session : SessionIds,
          admin : BOOLEAN, mustChange : BOOLEAN]
    \cup [at : {"enrolling"}, user : UserIds, secret : Secrets]
    \cup [at : {"revoking"}, user : UserIds, keep : Nat]

IsTable(table, Ids, Row, last) ==
    /\ DOMAIN table \subseteq Ids \cap 1..last
    /\ \A id \in DOMAIN table : table[id] \in Row
    /\ table = [id \in DOMAIN table |-> table[id]]

TypeOK ==
    /\ issued \in [Tables -> Nat]
    /\ IsTable(users, UserIds, UserRow, MaxUsers)
    /\ IsTable(sessions, SessionIds, SessionRow, issued["session"])
    /\ IsTable(invitations, InvitationIds, InvitationRow, issued["invitation"])
    /\ IsTable(codes, CodeIds, CodeRow, issued["code"])
    /\ pendings \subseteq Pending
    /\ requests \in [Workers -> Request]
    /\ now \in Nat

----------------------------------------------------------------------------
(* Statements *)

\* INSERT under AUTOINCREMENT, UPDATE of one row, and DELETE.
Put(table, id, row) ==
    [i \in DOMAIN table \cup {id} |-> IF i = id THEN row ELSE table[i]]

Without(table, ids) == [i \in DOMAIN table \ ids |-> table[i]]

NextId(table) == issued[table] + 1

SetUser(u, row) == users' = Put(users, u, row)

\* UPDATE user SET totp_enabled, totp_secret.
UpdateTOTP(u, enabled, secret) ==
    SetUser(u, [users[u] EXCEPT !.factor = enabled, !.secret = secret])

SessionsOf(u) == {s \in DOMAIN sessions : sessions[s].user = u}
CodesOf(u) == {c \in DOMAIN codes : codes[c].user = u}

DeleteSessions(ids) == sessions' = Without(sessions, ids)

ActiveAdmins == {u \in DOMAIN users : users[u].admin /\ users[u].active}

EmailTaken(e) == \E u \in DOMAIN users : users[u].email = e

----------------------------------------------------------------------------
(* Requests *)

Idle == [at |-> "idle"]

Become(w, stage) == requests' = [requests EXCEPT ![w] = stage]

At(w, stage) == requests[w].at = stage

\* The answer is sent; the worker is free again.
Answer(w) == Become(w, Idle)

\* The browser goes away or the server stops: the request context is
\* cancelled, and whatever statement would come next is never run.
Abandon(w) ==
    /\ ~At(w, "idle")
    /\ Answer(w)
    /\ UNCHANGED <<users, sessions, invitations, codes, issued, pendings, now>>

Tick ==
    /\ now < MaxNow
    /\ now' = now + 1
    /\ UNCHANGED <<users, sessions, invitations, codes, issued, pendings,
                   requests>>

IdentityInit ==
    /\ users = <<>> /\ sessions = <<>> /\ invitations = <<>> /\ codes = <<>>
    /\ issued = [t \in Tables |-> 0]
    /\ pendings = {}
    /\ requests = [w \in Workers |-> Idle]
    /\ now = 0
=============================================================================
