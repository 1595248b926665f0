---------------------------- MODULE AccessProofs ----------------------------
(***************************************************************************)
(* Theorems about Access that hold for any workers, addresses, secrets,     *)
(* lifetimes, backoffs and bounds.                                          *)
(***************************************************************************)
EXTENDS Access, FiniteSetTheorems, TLAPS

----------------------------------------------------------------------------
(* Type correctness *)

Refers(r) == r.at \notin {"idle", "expired", "leaving"}

\* Users are never deleted, so every user id that a row, a token or a request
\* holds is one; and they are numbered without a gap.
Known ==
    /\ \A w \in Workers : Refers(requests[w]) => requests[w].user \in DOMAIN users
    /\ \A s \in DOMAIN sessions : sessions[s].user \in DOMAIN users
    /\ \A p \in pendings : p.user \in DOMAIN users

Numbered == DOMAIN users = 1..Cardinality(DOMAIN users)

TypeInv == TypeOK /\ Known /\ Numbered

LEMMA RequestParts ==
    ASSUME NEW r \in Request
    PROVE  /\ Refers(r) => r.user \in UserIds
           /\ r.at = "failed" => r.failures \in Nat /\ r.lockedUntil \in Nat
           /\ r.at = "verified" => r.kind \in Kinds /\ r.factor \in BOOLEAN /\ r.since \in Nat
           /\ r.at = "listing" => r.kind \in Kinds
           /\ r.at \in {"consuming", "issuing"} => r.kind \in Kinds /\ r.code \in Nat
           /\ r.at \in {"expired", "leaving", "resolving", "touching", "admitted"}
                => r.session \in SessionIds
           /\ r.at \in {"resolving", "touching"} => r.expires \in Nat
           /\ r.at \in {"touching", "admitted"}
                => r.admin \in BOOLEAN /\ r.mustChange \in BOOLEAN
           /\ r.at = "enrolling" => r.secret \in Secrets
           /\ r.at = "revoking" => r.keep \in Nat
  BY DEF Request, Refers

LEMMA UserTable ==
    ASSUME TypeInv
    PROVE  /\ DOMAIN users \subseteq UserIds
           /\ \A u \in DOMAIN users : users[u] \in UserRow
           /\ IsFiniteSet(DOMAIN users) /\ Cardinality(DOMAIN users) \in Nat
  <1>1. DOMAIN users \subseteq UserIds /\ \A u \in DOMAIN users : users[u] \in UserRow
    BY DEF TypeInv, TypeOK, IsTable
  <1>2. IsFiniteSet(UserIds)
    BY IdentityAssumption, FS_Interval DEF UserIds
  <1> QED
    BY <1>1, <1>2, FS_Subset, FS_CardinalityType

LEMMA PutType ==
    ASSUME NEW Ids, NEW Row, NEW last, NEW table, IsTable(table, Ids, Row, last),
           NEW id \in Ids \cap 1..last, NEW row \in Row
    PROVE  /\ IsTable(Put(table, id, row), Ids, Row, last)
           /\ DOMAIN Put(table, id, row) = DOMAIN table \cup {id}
           /\ Put(table, id, row)[id] = row
           /\ \A i \in DOMAIN table \ {id} : Put(table, id, row)[i] = table[i]
  BY DEF IsTable, Put

LEMMA WithoutType ==
    ASSUME NEW Ids, NEW Row, NEW last, NEW table, IsTable(table, Ids, Row, last), NEW ids
    PROVE  /\ IsTable(Without(table, ids), Ids, Row, last)
           /\ DOMAIN Without(table, ids) = DOMAIN table \ ids
           /\ \A i \in DOMAIN table \ ids : Without(table, ids)[i] = table[i]
  BY DEF IsTable, Without

\* A row is rewritten: everybody stays known.
LEMMA SetUserType ==
    ASSUME TypeInv, NEW u \in DOMAIN users, NEW row \in UserRow, SetUser(u, row)
    PROVE  /\ IsTable(users', UserIds, UserRow, MaxUsers)
           /\ DOMAIN users' = DOMAIN users
           /\ Numbered'
  <1>1. IsTable(users, UserIds, UserRow, MaxUsers) /\ u \in UserIds \cap 1..MaxUsers
    BY DEF TypeInv, TypeOK, IsTable
  <1>2. IsTable(users', UserIds, UserRow, MaxUsers) /\ DOMAIN users' = DOMAIN users \cup {u}
    BY <1>1, PutType DEF SetUser
  <1> QED
    BY <1>2 DEF TypeInv, Numbered

\* The next number is given.
LEMMA AddUserType ==
    ASSUME TypeInv, Cardinality(DOMAIN users) < MaxUsers, NEW row \in UserRow,
           SetUser(Cardinality(DOMAIN users) + 1, row)
    PROVE  /\ IsTable(users', UserIds, UserRow, MaxUsers)
           /\ DOMAIN users' = DOMAIN users \cup {Cardinality(DOMAIN users) + 1}
           /\ Cardinality(DOMAIN users) + 1 \notin DOMAIN users
           /\ Numbered'
  <1> DEFINE n == Cardinality(DOMAIN users)
  <1>1. n \in Nat /\ MaxUsers \in Nat /\ DOMAIN users = 1..n
    BY UserTable, IdentityAssumption DEF TypeInv, Numbered
  <1>2. n + 1 \in UserIds \cap 1..MaxUsers
    BY <1>1 DEF UserIds
  <1>3. IsTable(users', UserIds, UserRow, MaxUsers) /\ DOMAIN users' = DOMAIN users \cup {n + 1}
    <2>1. IsTable(users, UserIds, UserRow, MaxUsers)
      BY DEF TypeInv, TypeOK
    <2>2. users' = Put(users, n + 1, row)
      BY DEF SetUser
    <2> HIDE DEF n
    <2> QED
      BY <1>2, <2>1, <2>2, PutType
  <1>4. DOMAIN users' = 1..(n + 1)
    BY <1>1, <1>3
  <1>5. Cardinality(1..(n + 1)) = n + 1
    BY <1>1, FS_Interval
  <1> QED
    BY <1>1, <1>3, <1>4, <1>5 DEF Numbered

\* A request goes on, or is answered.
LEMMA BecomeType ==
    ASSUME TypeInv, NEW w \in Workers, NEW stage \in Request,
           Refers(stage) => stage.user \in DOMAIN users', Become(w, stage),
           DOMAIN users \subseteq DOMAIN users'
    PROVE  /\ requests' \in [Workers -> Request]
           /\ \A v \in Workers : Refers(requests'[v]) => requests'[v].user \in DOMAIN users'
  BY DEF TypeInv, TypeOK, Known, Become

LEMMA AnswerType ==
    ASSUME TypeInv, NEW w \in Workers, Answer(w), DOMAIN users \subseteq DOMAIN users'
    PROVE  /\ requests' \in [Workers -> Request]
           /\ \A v \in Workers : Refers(requests'[v]) => requests'[v].user \in DOMAIN users'
  <1>1. Idle \in Request /\ ~Refers(Idle)
    BY DEF Idle, Request, Refers
  <1> QED
    BY <1>1, BecomeType DEF Answer

\* Sessions disappear.
LEMMA DeleteSessionsType ==
    ASSUME TypeInv, NEW ids, DeleteSessions(ids), UNCHANGED issued,
           DOMAIN users \subseteq DOMAIN users'
    PROVE  /\ IsTable(sessions', SessionIds, SessionRow, issued'["session"])
           /\ \A s \in DOMAIN sessions' : sessions'[s].user \in DOMAIN users'
  <1>1. IsTable(sessions, SessionIds, SessionRow, issued["session"])
    BY DEF TypeInv, TypeOK
  <1>2. \A s \in DOMAIN sessions : sessions[s].user \in DOMAIN users
    BY DEF TypeInv, Known
  <1>3. sessions' = Without(sessions, ids)
    BY DEF DeleteSessions
  <1>4. IsTable(sessions', SessionIds, SessionRow, issued["session"])
    BY <1>1, <1>3, WithoutType
  <1>5. /\ DOMAIN sessions' = DOMAIN sessions \ ids
        /\ \A s \in DOMAIN sessions' : sessions'[s] = sessions[s]
    BY <1>3 DEF Without
  <1> QED
    BY <1>2, <1>4, <1>5

\* A statement that only reads.
LEMMA ReadType ==
    ASSUME TypeInv, NEW w \in Workers, NEW stage \in Request,
           Refers(stage) => stage.user \in DOMAIN users, Become(w, stage),
           UNCHANGED <<users, sessions, invitations, codes, issued, pendings, now>>
    PROVE  TypeInv'
  <1>1. /\ requests' \in [Workers -> Request]
        /\ \A v \in Workers : Refers(requests'[v]) => requests'[v].user \in DOMAIN users'
    BY BecomeType
  <1> QED
    BY <1>1 DEF TypeInv, TypeOK, Known, Numbered, IsTable

LEMMA AnswerOnlyType ==
    ASSUME TypeInv, NEW w \in Workers, Answer(w),
           UNCHANGED <<users, sessions, invitations, codes, issued, pendings, now>>
    PROVE  TypeInv'
  <1>1. Idle \in Request /\ ~Refers(Idle)
    BY DEF Idle, Request, Refers
  <1> QED
    BY <1>1, ReadType DEF Answer

\* A statement that writes the user's row, and sessions or codes beside it.
LEMMA WriteType ==
    ASSUME TypeInv,
           IsTable(users', UserIds, UserRow, MaxUsers), Numbered',
           DOMAIN users \subseteq DOMAIN users',
           IsTable(sessions', SessionIds, SessionRow, issued'["session"]),
           \A s \in DOMAIN sessions' : sessions'[s].user \in DOMAIN users',
           IsTable(codes', CodeIds, CodeRow, issued'["code"]),
           requests' \in [Workers -> Request],
           \A w \in Workers : Refers(requests'[w]) => requests'[w].user \in DOMAIN users',
           issued' \in [Tables -> Nat],
           IsTable(invitations', InvitationIds, InvitationRow, issued'["invitation"]),
           UNCHANGED <<pendings, now>>
    PROVE  TypeInv'
  BY DEF TypeInv, TypeOK, Known

\* A user's row is rewritten and the request goes on; sessions, codes and
\* tokens stay.
LEMMA UserWriteType ==
    ASSUME TypeInv, NEW w \in Workers, NEW u \in DOMAIN users, NEW row \in UserRow,
           SetUser(u, row), NEW stage \in Request, Become(w, stage),
           Refers(stage) => stage.user \in DOMAIN users,
           UNCHANGED <<sessions, invitations, codes, issued, now>>,
           \/ UNCHANGED pendings
           \/ \E p \in Pending : p.user \in DOMAIN users /\ pendings' = pendings \cup {p}
    PROVE  TypeInv'
  <1>1. /\ IsTable(users', UserIds, UserRow, MaxUsers) /\ Numbered'
        /\ DOMAIN users' = DOMAIN users
    BY SetUserType
  <1>2. /\ requests' \in [Workers -> Request]
        /\ \A v \in Workers : Refers(requests'[v]) => requests'[v].user \in DOMAIN users'
    BY <1>1, BecomeType
  <1> QED
    BY <1>1, <1>2 DEF TypeInv, TypeOK, Known

LEMMA RowOfUser ==
    ASSUME TypeInv, NEW u \in DOMAIN users
    PROVE  /\ u \in UserIds /\ users[u] \in UserRow
           /\ users[u].email \in Emails
           /\ users[u].admin \in BOOLEAN /\ users[u].active \in BOOLEAN
           /\ users[u].mustChange \in BOOLEAN /\ users[u].factor \in BOOLEAN
           /\ users[u].secret \in Secrets \cup {None}
           /\ users[u].failures \in Nat /\ users[u].lockedUntil \in Nat
  BY UserTable DEF UserRow

LEMMA RowOfSession ==
    ASSUME TypeInv, NEW s \in DOMAIN sessions
    PROVE  /\ s \in SessionIds /\ sessions[s] \in SessionRow
           /\ sessions[s].user \in DOMAIN users /\ sessions[s].user \in UserIds
           /\ sessions[s].kind \in Kinds
           /\ sessions[s].expires \in Nat /\ sessions[s].code \in Nat
  BY DEF TypeInv, TypeOK, Known, IsTable, SessionRow

LEMMA RequestOf ==
    ASSUME TypeInv, NEW w \in Workers
    PROVE  /\ requests[w] \in Request
           /\ Refers(requests[w]) => requests[w].user \in DOMAIN users
  BY DEF TypeInv, TypeOK, Known

LEMMA NewUserType ==
    ASSUME NEW e \in Emails, NEW a \in BOOLEAN
    PROVE  NewUser(e, a) \in UserRow
  BY DEF NewUser, UserRow

LEMMA IssuingType ==
    ASSUME NEW u \in UserIds, NEW k \in Kinds, NEW c \in Nat
    PROVE  [at |-> "issuing", user |-> u, kind |-> k, code |-> c] \in Request
  BY DEF Request

LEMMA BackoffType ==
    ASSUME NEW n \in Nat
    PROVE  BackoffFor(n) \in Nat
  <1>1. /\ Threshold \in Nat /\ Len(Backoffs) \in Nat /\ Len(Backoffs) > 0
        /\ \A i \in 1..Len(Backoffs) : Backoffs[i] \in Nat
    BY IdentityAssumption
  <1> QED
    BY <1>1 DEF BackoffFor

LEMMA LifetimeType == \A k \in Kinds : Lifetime[k] \in Nat
  BY IdentityAssumption

LEMMA NowType == TypeInv => now \in Nat
  BY DEF TypeInv, TypeOK

\* A new account, by Setup or by an invitation.
LEMMA JoinType ==
    ASSUME TypeInv, NEW w \in Workers, NEW row \in UserRow,
           Cardinality(DOMAIN users) < MaxUsers,
           SetUser(Cardinality(DOMAIN users) + 1, row),
           ThenIssue(w, Cardinality(DOMAIN users) + 1, "short", 0),
           UNCHANGED <<sessions, codes, issued, pendings, now>>,
           IsTable(invitations', InvitationIds, InvitationRow, issued'["invitation"])
    PROVE  TypeInv'
  <1> DEFINE n == Cardinality(DOMAIN users) + 1
             stage == [at |-> "issuing", user |-> n, kind |-> "short", code |-> 0]
  <1>1. /\ IsTable(users', UserIds, UserRow, MaxUsers) /\ Numbered'
        /\ DOMAIN users' = DOMAIN users \cup {n}
    BY AddUserType
  <1>2. n \in UserIds
    BY <1>1 DEF IsTable
  <1>3. stage \in Request /\ stage.user = n
    BY <1>2, IssuingType DEF Kinds
  <1>4. Become(w, stage)
    BY DEF ThenIssue
  <1> HIDE DEF n, stage
  <1>5. /\ requests' \in [Workers -> Request]
        /\ \A v \in Workers : Refers(requests'[v]) => requests'[v].user \in DOMAIN users'
    BY <1>1, <1>3, <1>4, BecomeType
  <1> QED
    BY <1>1, <1>5 DEF TypeInv, TypeOK, Known

LEMMA SetupType ==
    ASSUME TypeInv, NEW w \in Workers, Setup(w)
    PROVE  TypeInv'
  <1>1. PICK e \in Emails : SetUser(1, NewUser(e, TRUE))
    BY DEF Setup
  <1>2. Cardinality(DOMAIN users) = 0
    BY FS_EmptySet DEF Setup
  <1>3. Cardinality(DOMAIN users) + 1 = 1 /\ Cardinality(DOMAIN users) < MaxUsers
    BY <1>2 DEF Setup
  <1>4. IsTable(invitations', InvitationIds, InvitationRow, issued'["invitation"])
    BY DEF Setup, TypeInv, TypeOK
  <1> QED
    BY <1>1, <1>3, <1>4, NewUserType, JoinType DEF Setup

LEMMA LoginType ==
    ASSUME TypeInv, NEW w \in Workers,
           \/ LoginWrong(w) \/ LoginRight(w) \/ CompleteTOTPLogin(w) \/ ListCodes(w)
           \/ ReadSession(w) \/ ReadOwner(w) \/ Logout(w) \/ Serve(w)
    PROVE  TypeInv'
  <1>1. CASE LoginWrong(w)
    <2>1. PICK u \in DOMAIN users :
            LET n == users[u].failures + 1
            IN  Become(w, [at |-> "failed", user |-> u, failures |-> n,
                           lockedUntil |-> IF BackoffFor(n) > 0
                                           THEN now + BackoffFor(n)
                                           ELSE users[u].lockedUntil])
      BY <1>1 DEF LoginWrong
    <2> DEFINE n == users[u].failures + 1
               until == IF BackoffFor(n) > 0 THEN now + BackoffFor(n)
                        ELSE users[u].lockedUntil
    <2>2. n \in Nat /\ until \in Nat /\ u \in UserIds
      BY RowOfUser, BackoffType, NowType
    <2>3. Become(w, [at |-> "failed", user |-> u, failures |-> n, lockedUntil |-> until])
      BY <2>1
    <2> HIDE DEF n, until
    <2>4. [at |-> "failed", user |-> u, failures |-> n, lockedUntil |-> until] \in Request
      BY <2>2 DEF Request
    <2> QED
      BY <1>1, <2>3, <2>4, ReadType DEF LoginWrong
  <1>2. CASE LoginRight(w)
    <2>1. PICK u \in DOMAIN users, k \in Kinds :
            Become(w, [at |-> "verified", user |-> u, kind |-> k,
                       factor |-> users[u].factor, since |-> now])
      BY <1>2 DEF LoginRight
    <2>2. [at |-> "verified", user |-> u, kind |-> k,
           factor |-> users[u].factor, since |-> now] \in Request
      BY RowOfUser, NowType DEF Request
    <2> QED
      BY <1>2, <2>1, <2>2, ReadType DEF LoginRight
  <1>3. CASE CompleteTOTPLogin(w)
    <2>1. PICK p \in pendings :
            \/ ThenIssue(w, p.user, p.kind, 0)
            \/ Become(w, [at |-> "listing", user |-> p.user, kind |-> p.kind])
      BY <1>3 DEF CompleteTOTPLogin
    <2>2. p.user \in DOMAIN users /\ p.user \in UserIds /\ p.kind \in Kinds
      BY DEF TypeInv, TypeOK, Known, Pending
    <2>3. /\ [at |-> "listing", user |-> p.user, kind |-> p.kind] \in Request
          /\ [at |-> "issuing", user |-> p.user, kind |-> p.kind, code |-> 0] \in Request
      BY <2>2, IssuingType DEF Request
    <2> QED
      BY <1>3, <2>1, <2>2, <2>3, ReadType DEF CompleteTOTPLogin, ThenIssue
  <1>4. CASE ListCodes(w)
    <2> DEFINE r == requests[w]
    <2>1. /\ r \in Request /\ r.kind \in Kinds
          /\ r.user \in DOMAIN users /\ r.user \in UserIds
      BY <1>4, RequestOf, RequestParts DEF ListCodes, At, Refers
    <2>2. CASE Answer(w)
      BY <1>4, <2>2, AnswerOnlyType DEF ListCodes
    <2>3. ASSUME NEW c \in CodesOf(r.user),
                 Become(w, [at |-> "consuming", user |-> r.user,
                            kind |-> r.kind, code |-> c])
          PROVE  TypeInv'
      <3>1. c \in Nat
        BY DEF CodesOf, TypeInv, TypeOK, IsTable, CodeIds
      <3>2. [at |-> "consuming", user |-> r.user, kind |-> r.kind, code |-> c] \in Request
        BY <2>1, <3>1 DEF Request
      <3> QED
        BY <1>4, <2>1, <2>3, <3>2, ReadType DEF ListCodes
    <2> QED
      BY <1>4, <2>2, <2>3 DEF ListCodes
  <1>5. CASE ReadSession(w)
    <2>1. PICK s \in DOMAIN sessions :
            \/ Become(w, [at |-> "expired", session |-> s])
            \/ Become(w, [at |-> "resolving", user |-> sessions[s].user, session |-> s,
                          expires |-> now + Lifetime[sessions[s].kind]])
      BY <1>5 DEF ReadSession
    <2>2. now + Lifetime[sessions[s].kind] \in Nat
      BY RowOfSession, NowType, LifetimeType
    <2>3. /\ [at |-> "expired", session |-> s] \in Request
          /\ ~Refers([at |-> "expired", session |-> s])
      BY RowOfSession DEF Request, Refers
    <2>4. [at |-> "resolving", user |-> sessions[s].user, session |-> s,
           expires |-> now + Lifetime[sessions[s].kind]] \in Request
      BY <2>2, RowOfSession DEF Request
    <2> QED
      BY <1>5, <2>1, <2>3, <2>4, RowOfSession, ReadType DEF ReadSession
  <1>6. CASE ReadOwner(w)
    <2> DEFINE r == requests[w]
               u == users[r.user]
    <2>1. /\ r \in Request /\ r.user \in DOMAIN users /\ r.user \in UserIds
          /\ r.session \in SessionIds /\ r.expires \in Nat
      BY <1>6, RequestOf, RequestParts DEF ReadOwner, At, Refers
    <2>2. u.admin \in BOOLEAN /\ u.mustChange \in BOOLEAN
      BY <2>1, RowOfUser
    <2>3. /\ [at |-> "barred", user |-> r.user] \in Request
          /\ [at |-> "touching", user |-> r.user, session |-> r.session,
              expires |-> r.expires, admin |-> u.admin,
              mustChange |-> u.mustChange] \in Request
      BY <2>1, <2>2 DEF Request
    <2>4. \/ Become(w, [at |-> "barred", user |-> r.user])
          \/ Become(w, [at |-> "touching", user |-> r.user, session |-> r.session,
                        expires |-> r.expires, admin |-> u.admin,
                        mustChange |-> u.mustChange])
      BY <1>6 DEF ReadOwner
    <2> QED
      BY <1>6, <2>1, <2>3, <2>4, ReadType DEF ReadOwner
  <1>7. CASE Logout(w)
    <2> DEFINE r == requests[w]
    <2>1. r.session \in SessionIds
      BY <1>7, RequestOf, RequestParts DEF Logout, MayOpen, At
    <2>2. /\ [at |-> "leaving", session |-> r.session] \in Request
          /\ ~Refers([at |-> "leaving", session |-> r.session])
          /\ Idle \in Request /\ ~Refers(Idle)
      BY <2>1 DEF Request, Refers, Idle
    <2>3. Become(w, [at |-> "leaving", session |-> r.session]) \/ Become(w, Idle)
      BY <1>7 DEF Logout
    <2> QED
      BY <1>7, <2>2, <2>3, ReadType DEF Logout
  <1>8. CASE Serve(w)
    BY <1>8, AnswerOnlyType DEF Serve
  <1> QED
    BY <1>1, <1>2, <1>3, <1>4, <1>5, <1>6, <1>7, <1>8

LEMMA FailureType ==
    ASSUME TypeInv, NEW w \in Workers, RecordFailure(w) \/ ResetFailures(w)
    PROVE  TypeInv'
  <1> DEFINE r == requests[w]
             row(n, until) ==
               [users[r.user] EXCEPT !.failures = n, !.lockedUntil = until]
  <1>1. r \in Request /\ r.user \in DOMAIN users /\ r.user \in UserIds
    BY RequestOf, RequestParts DEF RecordFailure, ResetFailures, At, Refers
  <1>2. \A n, until \in Nat : row(n, until) \in UserRow
    BY <1>1, RowOfUser DEF UserRow
  <1>3. Idle \in Request /\ ~Refers(Idle)
    BY DEF Idle, Request, Refers
  <1>4. CASE RecordFailure(w)
    <2>1. r.failures \in Nat /\ r.lockedUntil \in Nat
      BY <1>1, <1>4, RequestParts DEF RecordFailure, At
    <2>2. SetUser(r.user, row(r.failures, r.lockedUntil)) /\ Become(w, Idle)
      BY <1>4 DEF RecordFailure, Answer
    <2>3. row(r.failures, r.lockedUntil) \in UserRow
      BY <1>2, <2>1
    <2> HIDE DEF row, r
    <2>4. UNCHANGED <<sessions, invitations, codes, issued, pendings, now>>
      BY <1>4 DEF RecordFailure
    <2> QED
      BY <1>1, <1>3, <2>2, <2>3, <2>4, UserWriteType
  <1>5. CASE ResetFailures(w)
    <2>1. r.kind \in Kinds /\ r.since \in Nat
      BY <1>1, <1>5, RequestParts DEF ResetFailures, At
    <2>2. SetUser(r.user, row(0, 0)) /\ row(0, 0) \in UserRow
      BY <1>2, <1>5 DEF ResetFailures
    <2> DEFINE stage == [at |-> "issuing", user |-> r.user, kind |-> r.kind, code |-> 0]
               p == [user |-> r.user, kind |-> r.kind, expires |-> r.since + PendingTTL]
    <2>3. stage \in Request /\ stage.user = r.user
      BY <1>1, <2>1, IssuingType
    <2>4. p \in Pending /\ p.user = r.user
      <3>1. PendingTTL \in Nat
        BY IdentityAssumption
      <3>2. r.since + PendingTTL \in Nat
        BY <2>1, <3>1
      <3> QED
        BY <1>1, <2>1, <3>2 DEF Pending
    <2>5. \/ Become(w, stage) /\ UNCHANGED pendings
          \/ Become(w, Idle) /\ pendings' = pendings \cup {p}
      BY <1>5 DEF ResetFailures, ThenIssue, Answer
    <2>6. UNCHANGED <<sessions, invitations, codes, issued, now>>
      BY <1>5 DEF ResetFailures
    <2> HIDE DEF row, r, stage, p
    <2> QED
      BY <1>1, <1>3, <2>2, <2>3, <2>4, <2>5, <2>6, UserWriteType
  <1> QED
    BY <1>4, <1>5

LEMMA IssueSessionType ==
    ASSUME TypeInv, NEW w \in Workers, IssueSession(w)
    PROVE  TypeInv'
  <1> DEFINE r == requests[w]
             s == NextId("session")
             row == [user |-> r.user, kind |-> r.kind,
                     expires |-> now + Lifetime[r.kind], code |-> r.code]
  <1>1. /\ r.user \in DOMAIN users /\ r.user \in UserIds
        /\ r.kind \in Kinds /\ r.code \in Nat
    BY RequestOf, RequestParts DEF IssueSession, At, Refers
  <1>2. row \in SessionRow /\ row.user = r.user
    BY <1>1, NowType, LifetimeType DEF SessionRow
  <1>3. /\ s \in SessionIds /\ sessions' = Put(sessions, s, row)
        /\ issued' = [issued EXCEPT !["session"] = s]
        /\ UNCHANGED <<users, invitations, codes, pendings, now>>
    BY DEF IssueSession
  <1>4. issued["session"] \in Nat /\ s = issued["session"] + 1
    BY DEF TypeInv, TypeOK, Tables, NextId
  <1>5. /\ issued' \in [Tables -> Nat] /\ issued'["session"] = s
        /\ issued'["invitation"] = issued["invitation"] /\ issued'["code"] = issued["code"]
    BY <1>3, <1>4 DEF TypeInv, TypeOK, Tables
  <1>6. IsTable(sessions, SessionIds, SessionRow, s)
    BY <1>4 DEF TypeInv, TypeOK, IsTable
  <1>7. s \in SessionIds \cap 1..s
    BY <1>3, <1>4
  <1> HIDE DEF row, s
  <1>8. /\ IsTable(sessions', SessionIds, SessionRow, s)
        /\ DOMAIN sessions' = DOMAIN sessions \cup {s}
        /\ sessions'[s] = row /\ \A i \in DOMAIN sessions \ {s} : sessions'[i] = sessions[i]
    BY <1>2, <1>3, <1>6, <1>7, PutType
  <1>9. \A i \in DOMAIN sessions' : sessions'[i].user \in DOMAIN users'
    BY <1>1, <1>2, <1>3, <1>8 DEF TypeInv, Known
  <1>10. /\ requests' \in [Workers -> Request]
         /\ \A v \in Workers : Refers(requests'[v]) => requests'[v].user \in DOMAIN users'
    BY <1>3, AnswerType DEF IssueSession
  <1> QED
    BY <1>3, <1>5, <1>8, <1>9, <1>10 DEF TypeInv, TypeOK, Known, Numbered

LEMMA CodesType ==
    ASSUME TypeInv, NEW u \in DOMAIN users, NEW deleted,
           IssueBackupCodes(u, deleted)
    PROVE  /\ IsTable(codes', CodeIds, CodeRow, issued'["code"])
           /\ issued' \in [Tables -> Nat]
           /\ issued'["session"] = issued["session"]
           /\ issued'["invitation"] = issued["invitation"]
  <1> DEFINE last == issued["code"]
             fresh == (last + 1)..(last + CodesPerSet)
  <1>1. last \in Nat /\ CodesPerSet \in Nat /\ u \in UserIds
    BY IdentityAssumption, RowOfUser DEF TypeInv, TypeOK, Tables
  <1>2. /\ fresh \subseteq CodeIds
        /\ codes' = [c \in (DOMAIN codes \ deleted) \cup fresh |->
                       IF c \in fresh THEN [user |-> u, consumed |-> FALSE] ELSE codes[c]]
        /\ issued' = [issued EXCEPT !["code"] = last + CodesPerSet]
    BY DEF IssueBackupCodes
  <1>3. /\ issued' \in [Tables -> Nat] /\ issued'["code"] = last + CodesPerSet
        /\ issued'["session"] = issued["session"]
        /\ issued'["invitation"] = issued["invitation"]
    BY <1>1, <1>2 DEF TypeInv, TypeOK, Tables
  <1>4. DOMAIN codes \subseteq CodeIds \cap 1..last /\ \A c \in DOMAIN codes : codes[c] \in CodeRow
    BY DEF TypeInv, TypeOK, IsTable
  <1>5. /\ fresh \subseteq 1..(last + CodesPerSet)
        /\ 1..last \subseteq 1..(last + CodesPerSet)
    BY <1>1
  <1>6. [user |-> u, consumed |-> FALSE] \in CodeRow
    BY <1>1 DEF CodeRow
  <1> HIDE DEF fresh, last
  <1> QED
    BY <1>2, <1>3, <1>4, <1>5, <1>6 DEF IsTable

LEMMA CodesWithoutType ==
    ASSUME TypeInv, NEW ids, codes' = Without(codes, ids), UNCHANGED issued
    PROVE  IsTable(codes', CodeIds, CodeRow, issued'["code"])
  <1>1. IsTable(codes, CodeIds, CodeRow, issued["code"])
    BY DEF TypeInv, TypeOK
  <1>2. IsTable(codes', CodeIds, CodeRow, issued["code"])
    BY <1>1, WithoutType
  <1> QED
    BY <1>2

LEMMA MarkConsumedType ==
    ASSUME TypeInv, NEW w \in Workers, MarkConsumed(w)
    PROVE  TypeInv'
  <1> DEFINE r == requests[w]
             stage == [at |-> "issuing", user |-> r.user, kind |-> r.kind, code |-> r.code]
  <1>1. /\ r.user \in DOMAIN users /\ r.user \in UserIds
        /\ r.kind \in Kinds /\ r.code \in Nat
    BY RequestOf, RequestParts DEF MarkConsumed, At, Refers
  <1>2. stage \in Request /\ stage.user = r.user
    BY <1>1, IssuingType
  <1>3. CASE r.code \in CodesOf(r.user)
             /\ codes' = [codes EXCEPT ![r.code].consumed = TRUE] /\ Become(w, stage)
    <2>1. IsTable(codes', CodeIds, CodeRow, issued["code"])
      <3>1. IsTable(codes, CodeIds, CodeRow, issued["code"]) /\ r.code \in DOMAIN codes
        BY <1>3 DEF TypeInv, TypeOK, CodesOf
      <3>2. [codes[r.code] EXCEPT !.consumed = TRUE] \in CodeRow
        BY <3>1 DEF IsTable, CodeRow
      <3> QED
        BY <1>3, <3>1, <3>2 DEF IsTable
    <2>2. UNCHANGED <<users, sessions, invitations, issued, pendings, now>>
      BY DEF MarkConsumed
    <2> HIDE DEF stage
    <2>3. /\ requests' \in [Workers -> Request]
          /\ \A v \in Workers : Refers(requests'[v]) => requests'[v].user \in DOMAIN users'
      BY <1>1, <1>2, <1>3, <2>2, BecomeType
    <2> QED
      BY <2>1, <2>2, <2>3 DEF TypeInv, TypeOK, Known, Numbered
  <1>4. CASE Answer(w) /\ UNCHANGED codes
    BY <1>4, AnswerOnlyType DEF MarkConsumed
  <1> QED
    BY <1>3, <1>4 DEF MarkConsumed, ThenIssue

\* Sessions are deleted and the request is answered.
LEMMA RevokeType ==
    ASSUME TypeInv, NEW w \in Workers, NEW ids, DeleteSessions(ids), Answer(w),
           UNCHANGED <<users, invitations, codes, issued, pendings, now>>
    PROVE  TypeInv'
  <1>1. /\ IsTable(sessions', SessionIds, SessionRow, issued'["session"])
        /\ \A s \in DOMAIN sessions' : sessions'[s].user \in DOMAIN users'
    BY DeleteSessionsType
  <1>2. /\ requests' \in [Workers -> Request]
        /\ \A v \in Workers : Refers(requests'[v]) => requests'[v].user \in DOMAIN users'
    BY AnswerType
  <1> QED
    BY <1>1, <1>2 DEF TypeInv, TypeOK, Known, Numbered

LEMMA TouchType ==
    ASSUME TypeInv, NEW w \in Workers, Touch(w)
    PROVE  TypeInv'
  <1> DEFINE r == requests[w]
             stage == [at |-> "admitted", user |-> r.user, session |-> r.session,
                       admin |-> r.admin, mustChange |-> r.mustChange]
  <1>1. /\ r.user \in DOMAIN users /\ r.user \in UserIds
        /\ r.session \in SessionIds /\ r.expires \in Nat
        /\ r.admin \in BOOLEAN /\ r.mustChange \in BOOLEAN
    BY RequestOf, RequestParts DEF Touch, At, Refers
  <1>2. stage \in Request /\ stage.user = r.user
    BY <1>1 DEF Request
  <1>3. Become(w, stage) /\ UNCHANGED <<users, invitations, codes, issued, pendings, now>>
    BY DEF Touch, Admit
  <1>4. /\ IsTable(sessions', SessionIds, SessionRow, issued["session"])
        /\ \A s \in DOMAIN sessions' : sessions'[s].user \in DOMAIN users
    <2>1. /\ IsTable(sessions, SessionIds, SessionRow, issued["session"])
          /\ \A s \in DOMAIN sessions : sessions[s].user \in DOMAIN users
      BY DEF TypeInv, TypeOK, Known
    <2>2. CASE UNCHANGED sessions
      BY <2>1, <2>2
    <2>3. CASE r.session \in DOMAIN sessions
               /\ sessions' = [sessions EXCEPT ![r.session].expires = r.expires]
      <3>1. /\ [sessions[r.session] EXCEPT !.expires = r.expires] \in SessionRow
            /\ [sessions[r.session] EXCEPT !.expires = r.expires].user
                 = sessions[r.session].user
        BY <1>1, <2>1, <2>3 DEF IsTable, SessionRow
      <3> QED
        BY <2>1, <2>3, <3>1 DEF IsTable
    <2> QED
      BY <2>2, <2>3 DEF Touch
  <1> HIDE DEF stage
  <1>5. /\ requests' \in [Workers -> Request]
        /\ \A v \in Workers : Refers(requests'[v]) => requests'[v].user \in DOMAIN users'
    BY <1>1, <1>2, <1>3, BecomeType
  <1> QED
    BY <1>3, <1>4, <1>5 DEF TypeInv, TypeOK, Known, Numbered

LEMMA SignInType ==
    ASSUME TypeInv, NEW w \in Workers, SignInNext(w)
    PROVE  TypeInv'
  <1>1. CASE DeleteSession(w)
    BY <1>1, RevokeType DEF DeleteSession
  <1>2. CASE DeleteBarred(w)
    BY <1>2, RevokeType DEF DeleteBarred
  <1> QED
    BY <1>1, <1>2, SetupType, LoginType, FailureType, IssueSessionType,
       MarkConsumedType, TouchType DEF SignInNext

LEMMA Admitted ==
    ASSUME TypeInv, NEW w \in Workers, NEW route, MayOpen(w, route)
    PROVE  User(w) \in DOMAIN users /\ User(w) \in UserIds
  BY RequestOf, RequestParts DEF MayOpen, At, Refers, User

\* What a user changes in the own row, an answer being all that is left.
LEMMA OwnRowType ==
    ASSUME TypeInv, NEW w \in Workers, NEW u \in DOMAIN users, NEW row \in UserRow,
           SetUser(u, row), Answer(w),
           UNCHANGED <<sessions, invitations, pendings, now>>,
           IsTable(codes', CodeIds, CodeRow, issued'["code"]),
           issued' \in [Tables -> Nat],
           issued'["session"] = issued["session"],
           issued'["invitation"] = issued["invitation"]
    PROVE  TypeInv'
  <1>1. /\ IsTable(users', UserIds, UserRow, MaxUsers) /\ Numbered'
        /\ DOMAIN users' = DOMAIN users
    BY SetUserType
  <1>2. /\ requests' \in [Workers -> Request]
        /\ \A v \in Workers : Refers(requests'[v]) => requests'[v].user \in DOMAIN users'
    BY <1>1, AnswerType
  <1> QED
    BY <1>1, <1>2 DEF TypeInv, TypeOK, Known

LEMMA FactorRowType ==
    ASSUME TypeInv, NEW u \in DOMAIN users, NEW enabled \in BOOLEAN,
           NEW secret \in Secrets \cup {None}
    PROVE  [users[u] EXCEPT !.factor = enabled, !.secret = secret] \in UserRow
  BY RowOfUser DEF UserRow

LEMMA SecondFactorType ==
    ASSUME TypeInv, NEW w \in Workers,
           \/ BeginTOTPEnrolment(w) \/ StoreSecret(w) \/ ConfirmTOTP(w)
           \/ DisableTOTP(w) \/ RegenerateBackupCodes(w)
    PROVE  TypeInv'
  <1>1. CASE BeginTOTPEnrolment(w)
    <2>1. PICK s \in Secrets :
            Become(w, [at |-> "enrolling", user |-> User(w), secret |-> s])
      BY <1>1 DEF BeginTOTPEnrolment
    <2>2. User(w) \in DOMAIN users /\ User(w) \in UserIds
      BY <1>1, Admitted DEF BeginTOTPEnrolment
    <2>3. [at |-> "enrolling", user |-> User(w), secret |-> s] \in Request
      BY <2>2 DEF Request
    <2> QED
      BY <1>1, <2>1, <2>2, <2>3, ReadType DEF BeginTOTPEnrolment
  <1>2. CASE StoreSecret(w)
    <2>1. User(w) \in DOMAIN users /\ requests[w].secret \in Secrets
      BY <1>2, RequestOf, RequestParts DEF StoreSecret, At, Refers, User
    <2>2. /\ SetUser(User(w), [users[User(w)] EXCEPT !.factor = FALSE,
                                                   !.secret = requests[w].secret])
          /\ Answer(w) /\ UNCHANGED <<sessions, invitations, codes, issued, pendings, now>>
      BY <1>2 DEF StoreSecret, UpdateTOTP
    <2>3. /\ IsTable(codes', CodeIds, CodeRow, issued'["code"])
          /\ issued' \in [Tables -> Nat]
      BY <2>2 DEF TypeInv, TypeOK
    <2> QED
      BY <2>1, <2>2, <2>3, FactorRowType, OwnRowType
  <1>3. CASE ConfirmTOTP(w)
    <2>1. User(w) \in DOMAIN users
      BY <1>3, Admitted DEF ConfirmTOTP
    <2>2. /\ SetUser(User(w), [users[User(w)] EXCEPT !.factor = TRUE,
                                                   !.secret = users[User(w)].secret])
          /\ IssueBackupCodes(User(w), {})
          /\ Answer(w) /\ UNCHANGED <<sessions, invitations, pendings, now>>
      BY <1>3 DEF ConfirmTOTP, UpdateTOTP
    <2>3. users[User(w)].secret \in Secrets \cup {None}
      BY <2>1, RowOfUser
    <2> QED
      BY <2>1, <2>2, <2>3, CodesType, FactorRowType, OwnRowType
  <1>4. CASE DisableTOTP(w)
    <2>1. User(w) \in DOMAIN users
      BY <1>4, Admitted DEF DisableTOTP
    <2>2. /\ SetUser(User(w), [users[User(w)] EXCEPT !.factor = FALSE, !.secret = None])
          /\ codes' = Without(codes, CodesOf(User(w)))
          /\ Answer(w) /\ UNCHANGED <<sessions, invitations, issued, pendings, now>>
      BY <1>4 DEF DisableTOTP, UpdateTOTP
    <2>3. issued' \in [Tables -> Nat]
      BY <2>2 DEF TypeInv, TypeOK
    <2> QED
      BY <2>1, <2>2, <2>3, CodesWithoutType, FactorRowType, OwnRowType
  <1>5. CASE RegenerateBackupCodes(w)
    <2>1. User(w) \in DOMAIN users
      BY <1>5, Admitted DEF RegenerateBackupCodes
    <2>2. /\ IssueBackupCodes(User(w), CodesOf(User(w)))
          /\ Answer(w) /\ UNCHANGED <<users, sessions, invitations, pendings, now>>
      BY <1>5 DEF RegenerateBackupCodes
    <2>3. /\ requests' \in [Workers -> Request]
          /\ \A v \in Workers : Refers(requests'[v]) => requests'[v].user \in DOMAIN users'
      BY <2>2, AnswerType
    <2> QED
      BY <2>1, <2>2, <2>3, CodesType DEF TypeInv, TypeOK, Known, Numbered
  <1> QED
    BY <1>1, <1>2, <1>3, <1>4, <1>5

LEMMA CredentialsType ==
    ASSUME TypeInv, NEW w \in Workers, CredentialsNext(w)
    PROVE  TypeInv'
  <1>0. /\ IsTable(codes, CodeIds, CodeRow, issued["code"])
        /\ issued \in [Tables -> Nat]
    BY DEF TypeInv, TypeOK
  <1>1. CASE ChangePassword(w)
    <2>1. User(w) \in DOMAIN users
      BY <1>1, Admitted DEF ChangePassword
    <2>2. [users[User(w)] EXCEPT !.mustChange = FALSE] \in UserRow
      BY <2>1, RowOfUser DEF UserRow
    <2> QED
      BY <1>0, <1>1, <2>1, <2>2, OwnRowType DEF ChangePassword
  <1>2. CASE ChangeEmail(w)
    <2>1. User(w) \in DOMAIN users
      BY <1>2, Admitted DEF ChangeEmail
    <2>2. PICK e \in Emails : SetUser(User(w), [users[User(w)] EXCEPT !.email = e])
      BY <1>2 DEF ChangeEmail
    <2>3. [users[User(w)] EXCEPT !.email = e] \in UserRow
      BY <2>1, RowOfUser DEF UserRow
    <2> QED
      BY <1>0, <1>2, <2>1, <2>2, <2>3, OwnRowType DEF ChangeEmail
  <1>3. CASE RevokeSession(w)
    BY <1>3, RevokeType DEF RevokeSession
  <1>4. CASE ListSessions(w)
    <2> DEFINE keep == IF requests[w].session \in SessionsOf(User(w))
                       THEN requests[w].session ELSE 0
    <2>1. User(w) \in DOMAIN users /\ User(w) \in UserIds
      BY <1>4, Admitted DEF ListSessions
    <2>2. keep \in Nat
      BY DEF SessionsOf, TypeInv, TypeOK, IsTable, SessionIds
    <2>3. Become(w, [at |-> "revoking", user |-> User(w), keep |-> keep])
      BY <1>4 DEF ListSessions
    <2> HIDE DEF keep
    <2>4. [at |-> "revoking", user |-> User(w), keep |-> keep] \in Request
      BY <2>1, <2>2 DEF Request
    <2> QED
      BY <1>4, <2>1, <2>3, <2>4, ReadType DEF ListSessions
  <1>5. CASE RevokeOthers(w)
    BY <1>5, RevokeType DEF RevokeOthers
  <1> QED
    BY <1>1, <1>2, <1>3, <1>4, <1>5, SecondFactorType DEF CredentialsNext

----------------------------------------------------------------------------
(* Administration *)

LEMMA InvitationType ==
    ASSUME TypeInv, NEW i \in DOMAIN invitations, NEW state \in {"open", "consumed", "revoked"},
           invitations' = [invitations EXCEPT ![i].state = state], UNCHANGED issued
    PROVE  IsTable(invitations', InvitationIds, InvitationRow, issued'["invitation"])
  <1>1. IsTable(invitations, InvitationIds, InvitationRow, issued["invitation"])
    BY DEF TypeInv, TypeOK
  <1>2. [invitations[i] EXCEPT !.state = state] \in InvitationRow
    BY <1>1 DEF IsTable, InvitationRow
  <1>3. IsTable(invitations', InvitationIds, InvitationRow, issued["invitation"])
    BY <1>1, <1>2 DEF IsTable
  <1> QED
    BY <1>3

LEMMA InvitationsType ==
    ASSUME TypeInv, NEW w \in Workers,
           IssueInvitation(w) \/ RevokeInvitation(w) \/ AcceptInvitation(w)
    PROVE  TypeInv'
  <1>1. CASE IssueInvitation(w)
    <2> DEFINE i == NextId("invitation")
    <2>1. PICK a \in BOOLEAN :
            invitations' = Put(invitations, i,
              [admin |-> a, by |-> User(w), expires |-> now + InvitationTTL,
               state |-> "open"])
      BY <1>1 DEF IssueInvitation
    <2> DEFINE row == [admin |-> a, by |-> User(w), expires |-> now + InvitationTTL,
                       state |-> "open"]
    <2>2. User(w) \in UserIds /\ now + InvitationTTL \in Nat
      <3>1. InvitationTTL \in Nat
        BY IdentityAssumption
      <3> QED
        BY <1>1, <3>1, Admitted, NowType DEF IssueInvitation, MayAdminister
    <2>3. row \in InvitationRow
      BY <2>2 DEF InvitationRow
    <2>4. issued["invitation"] \in Nat /\ i = issued["invitation"] + 1
      BY DEF TypeInv, TypeOK, Tables, NextId
    <2>5. /\ i \in InvitationIds /\ issued' = [issued EXCEPT !["invitation"] = i]
          /\ Answer(w) /\ UNCHANGED <<users, sessions, codes, pendings, now>>
      BY <1>1 DEF IssueInvitation
    <2>6. /\ issued' \in [Tables -> Nat] /\ issued'["invitation"] = i
          /\ issued'["session"] = issued["session"] /\ issued'["code"] = issued["code"]
      BY <2>4, <2>5 DEF TypeInv, TypeOK, Tables
    <2>7. IsTable(invitations, InvitationIds, InvitationRow, i) /\ i \in InvitationIds \cap 1..i
      BY <2>4, <2>5 DEF TypeInv, TypeOK, IsTable
    <2>8. invitations' = Put(invitations, i, row)
      BY <2>1
    <2> HIDE DEF row, i
    <2>9. IsTable(invitations', InvitationIds, InvitationRow, i)
      BY <2>3, <2>7, <2>8, PutType
    <2>10. /\ requests' \in [Workers -> Request]
           /\ \A v \in Workers : Refers(requests'[v]) => requests'[v].user \in DOMAIN users'
      BY <2>5, AnswerType
    <2> QED
      BY <2>5, <2>6, <2>9, <2>10 DEF TypeInv, TypeOK, Known, Numbered
  <1>2. CASE RevokeInvitation(w)
    <2>1. PICK i \in DOMAIN invitations :
            invitations' = [invitations EXCEPT ![i].state = "revoked"]
      BY <1>2 DEF RevokeInvitation
    <2>2. Answer(w) /\ UNCHANGED <<users, sessions, codes, issued, pendings, now>>
      BY <1>2 DEF RevokeInvitation
    <2>3. IsTable(invitations', InvitationIds, InvitationRow, issued'["invitation"])
      BY <2>1, <2>2, InvitationType
    <2>4. /\ requests' \in [Workers -> Request]
          /\ \A v \in Workers : Refers(requests'[v]) => requests'[v].user \in DOMAIN users'
      BY <2>2, AnswerType
    <2> QED
      BY <2>2, <2>3, <2>4 DEF TypeInv, TypeOK, Known, Numbered
  <1>3. CASE AcceptInvitation(w)
    <2> DEFINE u == Cardinality(DOMAIN users) + 1
    <2>1. PICK i \in DOMAIN invitations :
            /\ \E e \in Emails : /\ SetUser(u, NewUser(e, invitations[i].admin))
                                 /\ ThenIssue(w, u, "short", 0)
            /\ invitations' = [invitations EXCEPT ![i].state = "consumed"]
      BY <1>3 DEF AcceptInvitation
    <2>2. PICK e \in Emails : /\ SetUser(u, NewUser(e, invitations[i].admin))
                              /\ ThenIssue(w, u, "short", 0)
      BY <2>1
    <2>3. /\ Cardinality(DOMAIN users) < MaxUsers
          /\ UNCHANGED <<sessions, codes, issued, pendings, now>>
      BY <1>3 DEF AcceptInvitation
    <2>4. NewUser(e, invitations[i].admin) \in UserRow
      BY NewUserType DEF TypeInv, TypeOK, IsTable, InvitationRow
    <2>5. IsTable(invitations', InvitationIds, InvitationRow, issued'["invitation"])
      BY <2>1, <2>3, InvitationType
    <2> QED
      BY <2>2, <2>3, <2>4, <2>5, JoinType
  <1> QED
    BY <1>1, <1>2, <1>3

LEMMA UserActionType ==
    ASSUME TypeInv, UserAction
    PROVE  /\ DOMAIN users' = DOMAIN users /\ Numbered'
           /\ IsTable(users', UserIds, UserRow, MaxUsers)
           /\ IsTable(sessions', SessionIds, SessionRow, issued["session"])
           /\ \A s \in DOMAIN sessions' : sessions'[s].user \in DOMAIN users
           /\ IsTable(codes', CodeIds, CodeRow, issued["code"])
           /\ UNCHANGED <<invitations, issued, pendings, now>>
  <1>1. PICK u \in DOMAIN users :
          \/ DeactivateUser(u) \/ ReactivateUser(u)
          \/ AdminResetTOTP(u) \/ AdminResetPassword(u)
    BY DEF UserAction
  <1>2. UNCHANGED <<invitations, issued, pendings, now>>
    BY <1>1 DEF UserAction, DeactivateUser, ReactivateUser, AdminResetTOTP,
       AdminResetPassword
  <1>3. PICK row \in UserRow : SetUser(u, row)
    <2>1. /\ [users[u] EXCEPT !.active = FALSE] \in UserRow
          /\ [users[u] EXCEPT !.active = TRUE] \in UserRow
          /\ [users[u] EXCEPT !.mustChange = TRUE] \in UserRow
          /\ [users[u] EXCEPT !.factor = FALSE, !.secret = None] \in UserRow
      BY RowOfUser DEF UserRow
    <2> QED
      BY <1>1, <2>1 DEF DeactivateUser, ReactivateUser, AdminResetTOTP,
         AdminResetPassword, UpdateTOTP
  <1>4. /\ DOMAIN users' = DOMAIN users /\ Numbered'
        /\ IsTable(users', UserIds, UserRow, MaxUsers)
    BY <1>3, SetUserType
  <1>5. /\ IsTable(sessions', SessionIds, SessionRow, issued["session"])
        /\ \A s \in DOMAIN sessions' : sessions'[s].user \in DOMAIN users
    <2>1. CASE DeleteSessions(SessionsOf(u))
      BY <1>2, <1>4, <2>1, DeleteSessionsType
    <2>2. CASE UNCHANGED sessions
      BY <2>2 DEF TypeInv, TypeOK, Known
    <2> QED
      BY <1>1, <2>1, <2>2 DEF DeactivateUser, ReactivateUser, AdminResetTOTP,
         AdminResetPassword
  <1>6. IsTable(codes', CodeIds, CodeRow, issued["code"])
    <2>1. CASE codes' = Without(codes, CodesOf(u))
      BY <1>2, <2>1, CodesWithoutType
    <2>2. CASE UNCHANGED codes
      BY <2>2 DEF TypeInv, TypeOK
    <2> QED
      BY <1>1, <2>1, <2>2 DEF DeactivateUser, ReactivateUser, AdminResetTOTP,
         AdminResetPassword
  <1> QED
    BY <1>2, <1>4, <1>5, <1>6

LEMMA StepType == TypeInv /\ [Next]_vars => TypeInv'
  <1> SUFFICES ASSUME TypeInv, [Next]_vars PROVE TypeInv'
    OBVIOUS
  <1>1. ASSUME NEW w \in Workers, ManageUser(w)
        PROVE  TypeInv'
    <2>1. UserAction /\ Answer(w)
      BY <1>1 DEF ManageUser
    <2>2. DOMAIN users' = DOMAIN users
      BY <2>1, UserActionType
    <2>3. /\ requests' \in [Workers -> Request]
          /\ \A v \in Workers : Refers(requests'[v]) => requests'[v].user \in DOMAIN users'
      BY <2>1, <2>2, AnswerType
    <2> QED
      BY <2>1, <2>3, UserActionType DEF TypeInv, TypeOK, Known
  <1>2. CASE CommandLine
    <2>1. UserAction /\ UNCHANGED requests
      BY <1>2 DEF CommandLine
    <2> QED
      BY <2>1, UserActionType DEF TypeInv, TypeOK, Known
  <1>3. ASSUME NEW w \in Workers, Abandon(w)
        PROVE  TypeInv'
    BY <1>3, AnswerOnlyType DEF Abandon
  <1>4. CASE Tick
    BY <1>4 DEF Tick, TypeInv, TypeOK, Known, Numbered
  <1>5. CASE UNCHANGED vars
    BY <1>5 DEF vars, TypeInv, TypeOK, Known, Numbered
  <1> QED
    BY <1>1, <1>2, <1>3, <1>4, <1>5, SignInType, CredentialsType, InvitationsType
       DEF Next, AdministrationNext

LEMMA InitType == IdentityInit => TypeInv
  <1> SUFFICES ASSUME IdentityInit PROVE TypeInv
    OBVIOUS
  <1>1. DOMAIN users = {} /\ DOMAIN sessions = {} /\ DOMAIN invitations = {} /\ DOMAIN codes = {}
    BY DEF IdentityInit
  <1>2. \A Ids, Row, last : IsTable(<<>>, Ids, Row, last)
    BY DEF IsTable
  <1>3. Idle \in Request /\ ~Refers(Idle)
    BY DEF Idle, Request, Refers
  <1>4. TypeOK
    BY <1>2, <1>3 DEF IdentityInit, TypeOK, Tables
  <1>5. Known
    BY <1>1, <1>3 DEF IdentityInit, Known
  <1>6. Numbered
    BY <1>1, FS_EmptySet DEF Numbered
  <1> QED
    BY <1>4, <1>5, <1>6 DEF TypeInv

THEOREM AccessTypeInv == Spec => []TypeInv
  BY InitType, StepType, PTL DEF Spec

\* Every row, token and request stays well formed under any interleaving; the
\* proof needs that users are never deleted and are numbered without a gap.
THEOREM AccessTypeCorrect == Spec => []TypeOK
  BY AccessTypeInv, PTL DEF TypeInv
=============================================================================
