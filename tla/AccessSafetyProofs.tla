------------------------- MODULE AccessSafetyProofs -------------------------
(***************************************************************************)
(* What the interleaved requests of Access can never bring about: nobody    *)
(* left to administer, a factor without its secret, a session that comes    *)
(* back, a backup code that lets two in, an account Membership does not     *)
(* allow.                                                                   *)
(***************************************************************************)
EXTENDS AccessProofs

----------------------------------------------------------------------------
(* What a step does to the user table *)

\* A row is rewritten without a change of role; it is deactivated only under
\* the last-admin rule, and its factor is enabled only with a secret.
Rewrites(u, row) ==
    /\ u \in DOMAIN users /\ row \in UserRow
    /\ SetUser(u, row)
    /\ row.admin = users[u].admin
    /\ row.active = users[u].active \/ row.active \/ (users[u].admin => NotLastAdmin)
    /\ row.factor => row.secret # None \/ (users[u].factor /\ row.secret = users[u].secret)

UsersStep ==
    \/ UNCHANGED users
    \/ \E u \in DOMAIN users, row \in UserRow : Rewrites(u, row)

\* A new account, the first one an administrator's.
Joins(e, a) ==
    /\ Cardinality(DOMAIN users) < MaxUsers
    /\ SetUser(Cardinality(DOMAIN users) + 1, NewUser(e, a))
    /\ DOMAIN users = {} /\ DOMAIN invitations = {} => a

LEMMA RewriteStep ==
    ASSUME TypeInv, NEW u \in DOMAIN users, NEW row \in UserRow, SetUser(u, row),
           row.admin = users[u].admin,
           row.active = users[u].active \/ row.active \/ (users[u].admin => NotLastAdmin),
           row.factor => row.secret # None \/ (users[u].factor /\ row.secret = users[u].secret)
    PROVE  UsersStep
  BY DEF UsersStep, Rewrites

LEMMA FactorStep ==
    ASSUME TypeInv, NEW u \in DOMAIN users, NEW f \in BOOLEAN,
           NEW s \in Secrets \cup {None}, UpdateTOTP(u, f, s), f => s # None
    PROVE  UsersStep
  <1> DEFINE row == [users[u] EXCEPT !.factor = f, !.secret = s]
  <1>1. /\ row \in UserRow /\ row.admin = users[u].admin
        /\ row.active = users[u].active /\ row.factor = f /\ row.secret = s
    BY RowOfUser DEF UserRow
  <1>2. SetUser(u, row)
    BY DEF UpdateTOTP
  <1> HIDE DEF row
  <1>3. row.factor => row.secret # None
    BY <1>1
  <1>4. row \in UserRow /\ row.admin = users[u].admin /\ row.active = users[u].active
    BY <1>1
  <1>5. Rewrites(u, row)
    <2>1. row.active = users[u].active \/ row.active \/ (users[u].admin => NotLastAdmin)
      BY <1>4
    <2>2. row.factor
            => row.secret # None \/ (users[u].factor /\ row.secret = users[u].secret)
      BY <1>3
    <2> QED
      BY <1>2, <1>4, <2>1, <2>2 DEF Rewrites
  <1> QED
    BY <1>4, <1>5 DEF UsersStep

\* A rewrite that touches neither the role, the activity nor the factor.
LEMMA PlainStep ==
    ASSUME TypeInv, NEW u \in DOMAIN users, NEW row \in UserRow, SetUser(u, row),
           row.admin = users[u].admin, row.active = users[u].active,
           row.factor = users[u].factor, row.secret = users[u].secret
    PROVE  UsersStep
  BY RewriteStep

LEMMA SignInUsers ==
    ASSUME TypeInv, NEW w \in Workers, SignInNext(w), ~Setup(w)
    PROVE  UsersStep
  <1> DEFINE r == requests[w]
  <1>2. CASE RecordFailure(w)
    <2>1. r.user \in DOMAIN users /\ r.failures \in Nat /\ r.lockedUntil \in Nat
      BY <1>2, RequestOf, RequestParts DEF RecordFailure, At, Refers
    <2> DEFINE row == [users[r.user] EXCEPT !.failures = r.failures,
                                            !.lockedUntil = r.lockedUntil]
    <2>2. /\ row \in UserRow /\ row.admin = users[r.user].admin
          /\ row.active = users[r.user].active
          /\ row.factor = users[r.user].factor /\ row.secret = users[r.user].secret
      BY <2>1, RowOfUser DEF UserRow
    <2>3. SetUser(r.user, row)
      BY <1>2 DEF RecordFailure
    <2> HIDE DEF row, r
    <2> QED
      BY <2>1, <2>2, <2>3, PlainStep
  <1>3. CASE ResetFailures(w)
    <2>1. r.user \in DOMAIN users
      BY <1>3, RequestOf DEF ResetFailures, At, Refers
    <2> DEFINE row == [users[r.user] EXCEPT !.failures = 0, !.lockedUntil = 0]
    <2>2. /\ row \in UserRow /\ row.admin = users[r.user].admin
          /\ row.active = users[r.user].active
          /\ row.factor = users[r.user].factor /\ row.secret = users[r.user].secret
      BY <2>1, RowOfUser DEF UserRow
    <2>3. SetUser(r.user, row)
      BY <1>3 DEF ResetFailures
    <2> HIDE DEF row, r
    <2> QED
      BY <2>1, <2>2, <2>3, PlainStep
  <1>4. CASE UNCHANGED users
    BY <1>4 DEF UsersStep
  <1> QED
    BY <1>2, <1>3, <1>4 DEF SignInNext, IssueSession, LoginWrong, LoginRight,
       CompleteTOTPLogin, ListCodes, MarkConsumed, ReadSession, DeleteSession,
       ReadOwner, DeleteBarred, Touch, Logout, Serve

LEMMA CredentialsUsers ==
    ASSUME TypeInv, NEW w \in Workers, CredentialsNext(w)
    PROVE  UsersStep
  <1>1. CASE StoreSecret(w)
    <2>1. User(w) \in DOMAIN users /\ requests[w].secret \in Secrets
      BY <1>1, RequestOf, RequestParts DEF StoreSecret, At, Refers, User
    <2> QED
      BY <1>1, <2>1, FactorStep DEF StoreSecret
  <1>2. CASE ConfirmTOTP(w)
    <2>1. User(w) \in DOMAIN users
      BY <1>2, Admitted DEF ConfirmTOTP
    <2>2. users[User(w)].secret \in Secrets \cup {None}
      BY <2>1, RowOfUser
    <2> QED
      BY <1>2, <2>1, <2>2, FactorStep DEF ConfirmTOTP
  <1>3. CASE DisableTOTP(w)
    <2>1. User(w) \in DOMAIN users
      BY <1>3, Admitted DEF DisableTOTP
    <2> QED
      BY <1>3, <2>1, FactorStep DEF DisableTOTP
  <1>4. CASE ChangePassword(w)
    <2>1. User(w) \in DOMAIN users
      BY <1>4, Admitted DEF ChangePassword
    <2> DEFINE row == [users[User(w)] EXCEPT !.mustChange = FALSE]
    <2>2. /\ row \in UserRow /\ row.admin = users[User(w)].admin
          /\ row.active = users[User(w)].active
          /\ row.factor = users[User(w)].factor /\ row.secret = users[User(w)].secret
      BY <2>1, RowOfUser DEF UserRow
    <2>3. SetUser(User(w), row)
      BY <1>4 DEF ChangePassword
    <2> HIDE DEF row
    <2> QED
      BY <2>1, <2>2, <2>3, PlainStep
  <1>5. CASE ChangeEmail(w)
    <2>1. User(w) \in DOMAIN users
      BY <1>5, Admitted DEF ChangeEmail
    <2>2. PICK e \in Emails : SetUser(User(w), [users[User(w)] EXCEPT !.email = e])
      BY <1>5 DEF ChangeEmail
    <2> DEFINE row == [users[User(w)] EXCEPT !.email = e]
    <2>3. /\ row \in UserRow /\ row.admin = users[User(w)].admin
          /\ row.active = users[User(w)].active
          /\ row.factor = users[User(w)].factor /\ row.secret = users[User(w)].secret
      BY <2>1, RowOfUser DEF UserRow
    <2>4. SetUser(User(w), row)
      BY <2>2
    <2> HIDE DEF row
    <2> QED
      BY <2>1, <2>3, <2>4, PlainStep
  <1>6. CASE UNCHANGED users
    BY <1>6 DEF UsersStep
  <1> QED
    BY <1>1, <1>2, <1>3, <1>4, <1>5, <1>6 DEF CredentialsNext, BeginTOTPEnrolment,
       RegenerateBackupCodes, RevokeSession, ListSessions, RevokeOthers

LEMMA UserActionUsers ==
    ASSUME TypeInv, UserAction
    PROVE  UsersStep
  <1>1. PICK u \in DOMAIN users :
          \/ DeactivateUser(u) \/ ReactivateUser(u)
          \/ AdminResetTOTP(u) \/ AdminResetPassword(u)
    BY DEF UserAction
  <1>2. CASE DeactivateUser(u) \/ ReactivateUser(u)
    <2> DEFINE off == [users[u] EXCEPT !.active = FALSE]
               on == [users[u] EXCEPT !.active = TRUE]
    <2>1. /\ off \in UserRow /\ off.admin = users[u].admin
          /\ off.factor = users[u].factor /\ off.secret = users[u].secret
      BY RowOfUser DEF UserRow
    <2>2. /\ on \in UserRow /\ on.admin = users[u].admin /\ on.active
          /\ on.factor = users[u].factor /\ on.secret = users[u].secret
      BY RowOfUser DEF UserRow
    <2>3. \/ SetUser(u, off) /\ (users[u].admin => NotLastAdmin)
          \/ SetUser(u, on)
      BY <1>2 DEF DeactivateUser, ReactivateUser
    <2> HIDE DEF off, on
    <2> QED
      BY <2>1, <2>2, <2>3 DEF UsersStep, Rewrites
  <1>3. CASE AdminResetTOTP(u)
    BY <1>3, FactorStep DEF AdminResetTOTP
  <1>4. CASE AdminResetPassword(u)
    <2> DEFINE row == [users[u] EXCEPT !.mustChange = TRUE]
    <2>1. /\ row \in UserRow /\ row.admin = users[u].admin
          /\ row.active = users[u].active
          /\ row.factor = users[u].factor /\ row.secret = users[u].secret
      BY RowOfUser DEF UserRow
    <2>2. SetUser(u, row)
      BY <1>4 DEF AdminResetPassword
    <2> HIDE DEF row
    <2> QED
      BY <2>1, <2>2, PlainStep
  <1> QED
    BY <1>1, <1>2, <1>3, <1>4

LEMMA Joining ==
    ASSUME TypeInv, NEW w \in Workers, Setup(w) \/ AcceptInvitation(w)
    PROVE  \E e \in Emails, a \in BOOLEAN : Joins(e, a)
  <1>1. CASE Setup(w)
    <2>1. PICK e \in Emails : SetUser(1, NewUser(e, TRUE))
      BY <1>1 DEF Setup
    <2>2. Cardinality(DOMAIN users) = 0
      BY <1>1, FS_EmptySet DEF Setup
    <2>3. Cardinality(DOMAIN users) + 1 = 1 /\ Cardinality(DOMAIN users) < MaxUsers
      BY <1>1, <2>2 DEF Setup
    <2> QED
      BY <2>1, <2>3 DEF Joins
  <1>2. CASE AcceptInvitation(w)
    <2>1. PICK i \in DOMAIN invitations, e \in Emails :
            SetUser(Cardinality(DOMAIN users) + 1, NewUser(e, invitations[i].admin))
      BY <1>2 DEF AcceptInvitation
    <2>2. invitations[i].admin \in BOOLEAN
      BY DEF TypeInv, TypeOK, IsTable, InvitationRow
    <2> QED
      BY <1>2, <2>1, <2>2 DEF Joins, AcceptInvitation
  <1> QED
    BY <1>1, <1>2

LEMMA UsersChange ==
    ASSUME TypeInv, [Next]_vars
    PROVE  UsersStep \/ \E w \in Workers : Setup(w) \/ AcceptInvitation(w)
  <1>1. CASE UNCHANGED users
    BY <1>1 DEF UsersStep
  <1> QED
    BY <1>1, SignInUsers, CredentialsUsers, UserActionUsers
       DEF Next, AdministrationNext, vars, ManageUser, CommandLine, Abandon, Tick,
           IssueInvitation, RevokeInvitation

----------------------------------------------------------------------------
(* Administrators and second factors *)

\* An invitation presupposes somebody who issued it.
Hosted == DOMAIN invitations # {} => DOMAIN users # {}

UsersInv == TypeInv /\ Hosted /\ LastAdmin /\ FactorHasSecret

\* A second active administrator remains when one of two leaves.
LEMMA AnotherAdmin ==
    ASSUME TypeInv, NEW u \in DOMAIN users, LastAdmin, users[u].admin => NotLastAdmin
    PROVE  ActiveAdmins \ {u} # {}
  <1>1. CASE users[u].admin
    <2>1. SUFFICES ASSUME ActiveAdmins \subseteq {u} PROVE FALSE
      OBVIOUS
    <2>2. IsFiniteSet({u}) /\ Cardinality({u}) = 1
      BY FS_Singleton
    <2>3. IsFiniteSet(ActiveAdmins) /\ Cardinality(ActiveAdmins) <= 1
      BY <2>1, <2>2, FS_Subset
    <2>4. Cardinality(ActiveAdmins) \in Nat
      BY <2>3, FS_CardinalityType
    <2> QED
      BY <1>1, <2>3, <2>4 DEF NotLastAdmin
  <1>2. CASE ~users[u].admin
    BY <1>2 DEF LastAdmin, ActiveAdmins
  <1> QED
    BY <1>1, <1>2

LEMMA RewriteRows ==
    ASSUME TypeInv, NEW u \in DOMAIN users, NEW row \in UserRow, SetUser(u, row)
    PROVE  /\ DOMAIN users' = DOMAIN users /\ users'[u] = row
           /\ \A v \in DOMAIN users \ {u} : users'[v] = users[v]
  BY DEF SetUser, Put

LEMMA JoinRows ==
    ASSUME TypeInv, NEW row \in UserRow, Cardinality(DOMAIN users) < MaxUsers,
           SetUser(Cardinality(DOMAIN users) + 1, row)
    PROVE  /\ DOMAIN users' = DOMAIN users \cup {Cardinality(DOMAIN users) + 1}
           /\ Cardinality(DOMAIN users) + 1 \notin DOMAIN users
           /\ users'[Cardinality(DOMAIN users) + 1] = row
           /\ \A v \in DOMAIN users : users'[v] = users[v]
  <1> DEFINE n == Cardinality(DOMAIN users) + 1
  <1>1. n \notin DOMAIN users
    BY AddUserType
  <1>2. users' = Put(users, n, row)
    BY DEF SetUser
  <1> HIDE DEF n
  <1>3. /\ DOMAIN users' = DOMAIN users \cup {n} /\ users'[n] = row
        /\ \A v \in DOMAIN users : users'[v] = users[v]
    BY <1>1, <1>2 DEF Put
  <1> QED
    BY <1>1, <1>3 DEF n

LEMMA HostedStays ==
    ASSUME UsersInv, [Next]_vars
    PROVE  Hosted'
  <1>1. DOMAIN users \subseteq DOMAIN users'
    <2>1. CASE UNCHANGED users
      BY <2>1
    <2>2. ASSUME NEW u \in DOMAIN users, NEW row \in UserRow, Rewrites(u, row)
          PROVE  DOMAIN users' = DOMAIN users
      BY <2>2, RewriteRows DEF Rewrites, UsersInv
    <2>3. ASSUME NEW e \in Emails, NEW a \in BOOLEAN, Joins(e, a)
          PROVE  DOMAIN users \subseteq DOMAIN users'
      BY <2>3, NewUserType, JoinRows DEF Joins, UsersInv
    <2> QED
      BY <2>1, <2>2, <2>3, UsersChange, Joining DEF UsersStep, UsersInv
  <1>2. ASSUME NEW w \in Workers, IssueInvitation(w)
        PROVE  DOMAIN users # {}
    BY <1>2, Admitted DEF IssueInvitation, MayAdminister, UsersInv
  <1>3. (\E w \in Workers : IssueInvitation(w)) \/ DOMAIN invitations' = DOMAIN invitations
    BY DEF Next, vars, SignInNext, CredentialsNext, AdministrationNext, Setup,
       IssueSession, LoginWrong, RecordFailure, LoginRight, ResetFailures,
       CompleteTOTPLogin, ListCodes, MarkConsumed, ReadSession, DeleteSession,
       ReadOwner, DeleteBarred, Touch, Logout, Serve, BeginTOTPEnrolment,
       StoreSecret, ConfirmTOTP, DisableTOTP, RegenerateBackupCodes,
       ChangePassword, ChangeEmail, RevokeSession, ListSessions, RevokeOthers,
       RevokeInvitation, AcceptInvitation, ManageUser, CommandLine, UserAction,
       Abandon, Tick
  <1> QED
    BY <1>1, <1>2, <1>3 DEF UsersInv, Hosted

LEMMA UsersInvStep == UsersInv /\ [Next]_vars => UsersInv'
  <1> SUFFICES ASSUME UsersInv, [Next]_vars
               PROVE  LastAdmin' /\ FactorHasSecret'
    BY StepType, HostedStays DEF UsersInv
  <1>0. TypeInv /\ LastAdmin /\ FactorHasSecret
    BY DEF UsersInv
  <1>1. CASE UNCHANGED users
    BY <1>0, <1>1 DEF LastAdmin, FactorHasSecret, ActiveAdmins
  <1>2. ASSUME NEW u \in DOMAIN users, NEW row \in UserRow, Rewrites(u, row)
        PROVE  LastAdmin' /\ FactorHasSecret'
    <2>1. /\ DOMAIN users' = DOMAIN users /\ users'[u] = row
          /\ \A v \in DOMAIN users \ {u} : users'[v] = users[v]
      BY <1>0, <1>2, RewriteRows DEF Rewrites
    <2>2. FactorHasSecret'
      BY <1>0, <1>2, <2>1 DEF FactorHasSecret, Rewrites
    <2>3. CASE users[u].admin => NotLastAdmin
      <3>1. PICK v \in ActiveAdmins : v # u
        BY <1>0, <2>3, AnotherAdmin
      <3>2. v \in DOMAIN users' /\ users'[v] = users[v]
        BY <2>1, <3>1 DEF ActiveAdmins
      <3> QED
        BY <2>2, <3>1, <3>2 DEF LastAdmin, ActiveAdmins
    <2>4. CASE row.active = users[u].active \/ row.active
      <3>1. PICK v \in ActiveAdmins : TRUE
        BY <1>0 DEF LastAdmin
      <3>2. v \in DOMAIN users /\ users[v].admin /\ users[v].active
        BY <3>1 DEF ActiveAdmins
      <3>3. users'[v].admin /\ users'[v].active
        BY <1>2, <2>1, <2>4, <3>2 DEF Rewrites
      <3> QED
        BY <2>1, <2>2, <3>2, <3>3 DEF LastAdmin, ActiveAdmins
    <2> QED
      BY <1>2, <2>3, <2>4 DEF Rewrites
  <1>3. ASSUME NEW e \in Emails, NEW a \in BOOLEAN, Joins(e, a)
        PROVE  LastAdmin' /\ FactorHasSecret'
    <2> DEFINE n == Cardinality(DOMAIN users) + 1
    <2>1. /\ DOMAIN users' = DOMAIN users \cup {n} /\ n \notin DOMAIN users
          /\ users'[n] = NewUser(e, a)
          /\ \A v \in DOMAIN users : users'[v] = users[v]
      BY <1>0, <1>3, NewUserType, JoinRows DEF Joins
    <2> HIDE DEF n
    <2>2. FactorHasSecret'
      BY <1>0, <2>1 DEF FactorHasSecret, NewUser
    <2>3. CASE DOMAIN users = {}
      <3>1. a
        BY <1>3, <2>3 DEF Joins, UsersInv, Hosted
      <3> QED
        BY <2>1, <2>2, <3>1 DEF LastAdmin, ActiveAdmins, NewUser
    <2>4. CASE DOMAIN users # {}
      BY <1>0, <2>1, <2>2, <2>4 DEF LastAdmin, ActiveAdmins
    <2> QED
      BY <2>3, <2>4
  <1> QED
    BY <1>0, <1>1, <1>2, <1>3, UsersChange, Joining DEF UsersStep

THEOREM UsersInvariant == Spec => []UsersInv
  <1>1. IdentityInit => UsersInv
    <2> SUFFICES ASSUME IdentityInit PROVE UsersInv
      OBVIOUS
    <2>1. DOMAIN users = {} /\ DOMAIN invitations = {}
      BY DEF IdentityInit
    <2> QED
      BY <2>1, InitType DEF UsersInv, Hosted, LastAdmin, FactorHasSecret
  <1> QED
    BY <1>1, UsersInvStep, PTL DEF Spec

\* Whoever deactivates whom at the same time, somebody who may administer the
\* instance remains: a check and its write share a transaction.
THEOREM AnAdminRemains == Spec => []LastAdmin
  BY UsersInvariant, PTL DEF UsersInv

\* Whatever crosses an enrolment, an enabled factor has a secret to check with.
THEOREM FactorsHaveSecrets == Spec => []FactorHasSecret
  BY UsersInvariant, PTL DEF UsersInv

----------------------------------------------------------------------------
(* Sessions *)

\* Only IssueSession inserts a session, under the next id.
LEMMA SessionsChange ==
    ASSUME TypeInv, [Next]_vars
    PROVE  \/ \E w \in Workers : IssueSession(w)
           \/ DOMAIN sessions' \subseteq DOMAIN sessions
  <1>1. ASSUME NEW ids, DeleteSessions(ids)
        PROVE  DOMAIN sessions' \subseteq DOMAIN sessions
    BY <1>1 DEF DeleteSessions, Without
  <1>2. ASSUME NEW w \in Workers, Touch(w)
        PROVE  DOMAIN sessions' \subseteq DOMAIN sessions
    BY <1>2 DEF Touch
  <1>3. ASSUME UserAction
        PROVE  DOMAIN sessions' \subseteq DOMAIN sessions
    BY <1>1, <1>3 DEF UserAction, DeactivateUser, ReactivateUser, AdminResetTOTP,
       AdminResetPassword
  <1>4. ASSUME NEW w \in Workers, SignInNext(w)
        PROVE  IssueSession(w) \/ DOMAIN sessions' \subseteq DOMAIN sessions
    BY <1>1, <1>2, <1>4 DEF SignInNext, Setup, LoginWrong, RecordFailure, LoginRight,
       ResetFailures, CompleteTOTPLogin, ListCodes, MarkConsumed, ReadSession,
       DeleteSession, ReadOwner, DeleteBarred, Logout, Serve
  <1>5. ASSUME NEW w \in Workers, CredentialsNext(w)
        PROVE  DOMAIN sessions' \subseteq DOMAIN sessions
    BY <1>1, <1>5 DEF CredentialsNext, BeginTOTPEnrolment, StoreSecret, ConfirmTOTP,
       DisableTOTP, RegenerateBackupCodes, ChangePassword, ChangeEmail,
       RevokeSession, ListSessions, RevokeOthers
  <1> QED
    BY <1>3, <1>4, <1>5 DEF Next, vars, AdministrationNext, IssueInvitation,
       RevokeInvitation, AcceptInvitation, ManageUser, CommandLine, Abandon, Tick

\* The id of a session that is gone is never given again, and the writes of
\* requests that still know it find no row.
THEOREM RevokedSessionsStayRevoked == Spec => RevokedStaysRevoked
  <1>1. ASSUME TypeInv, [Next]_vars
        PROVE  \A s \in 1..issued["session"] :
                 s \notin DOMAIN sessions => s \notin DOMAIN sessions'
    <2>1. issued["session"] \in Nat
      BY <1>1 DEF TypeInv, TypeOK, Tables
    <2>2. ASSUME NEW w \in Workers, IssueSession(w)
          PROVE  DOMAIN sessions' = DOMAIN sessions \cup {issued["session"] + 1}
      BY <2>2 DEF IssueSession, NextId, Put
    <2> QED
      BY <1>1, <2>1, <2>2, SessionsChange
  <1>2. TypeInv /\ [Next]_vars
          => [\A s \in 1..issued["session"] :
                s \notin DOMAIN sessions => s \notin DOMAIN sessions']_vars
    BY <1>1
  <1> QED
    BY <1>2, AccessTypeInv, PTL DEF Spec, RevokedStaysRevoked

----------------------------------------------------------------------------
(* Backup codes *)

\* A code that was given out and cannot be consumed any more.
Spent(c) ==
    /\ c \in 1..issued["code"]
    /\ c \in DOMAIN codes => codes[c].consumed

Opened(s) == s \in DOMAIN sessions /\ sessions[s].code # 0
Opening(w) == At(w, "issuing") /\ requests[w].code # 0

\* Every code that opened a session, or is about to, is spent, and no two of
\* them are the same.
OnceInv ==
    /\ \A s \in SessionIds : Opened(s) => Spent(sessions[s].code)
    /\ \A w \in Workers : Opening(w) => Spent(requests[w].code)
    /\ \A s, t \in SessionIds :
         Opened(s) /\ Opened(t) /\ sessions[s].code = sessions[t].code => s = t
    /\ \A v, w \in Workers :
         Opening(v) /\ Opening(w) /\ requests[v].code = requests[w].code => v = w
    /\ \A s \in SessionIds, w \in Workers :
         Opened(s) /\ Opening(w) => sessions[s].code # requests[w].code

LEMMA OnceImplies == TypeInv /\ OnceInv => BackupCodeOnce
  <1> SUFFICES ASSUME TypeInv, OnceInv,
                      NEW a \in Admissions, NEW b \in Admissions,
                      AdmittedBy(a) = AdmittedBy(b)
               PROVE  a = b
    BY DEF BackupCodeOnce
  <1>1. ASSUME NEW x \in Admissions
        PROVE  \/ \E s \in SessionIds : x = <<"session", s>> /\ Opened(s)
               \/ \E w \in Workers : x = <<"request", w>> /\ Opening(w)
    BY DEF Admissions, Opened, Opening, TypeInv, TypeOK, IsTable
  <1>2. CASE \E s, t \in SessionIds : /\ a = <<"session", s>> /\ b = <<"session", t>>
                                     /\ Opened(s) /\ Opened(t)
    BY <1>2 DEF AdmittedBy, OnceInv
  <1>3. CASE \E v, w \in Workers : /\ a = <<"request", v>> /\ b = <<"request", w>>
                                  /\ Opening(v) /\ Opening(w)
    BY <1>3 DEF AdmittedBy, OnceInv
  <1>4. CASE \E s \in SessionIds, w \in Workers :
               \/ a = <<"session", s>> /\ b = <<"request", w>> /\ Opened(s) /\ Opening(w)
               \/ b = <<"session", s>> /\ a = <<"request", w>> /\ Opened(s) /\ Opening(w)
    BY <1>4 DEF AdmittedBy, OnceInv
  <1> QED
    BY <1>1, <1>2, <1>3, <1>4

\* A spent code stays spent: ids are not given twice and codes not revived.
LEMMA IssueKeepsSpent ==
    ASSUME TypeInv, NEW u \in DOMAIN users, NEW deleted, IssueBackupCodes(u, deleted),
           NEW c, Spent(c)
    PROVE  Spent(c)'
  <1> DEFINE last == issued["code"]
             fresh == (last + 1)..(last + CodesPerSet)
  <1>1. last \in Nat /\ CodesPerSet \in Nat
    BY IdentityAssumption DEF TypeInv, TypeOK, Tables
  <1>2. /\ codes' = [i \in (DOMAIN codes \ deleted) \cup fresh |->
                       IF i \in fresh THEN [user |-> u, consumed |-> FALSE] ELSE codes[i]]
        /\ issued'["code"] = last + CodesPerSet
    BY DEF IssueBackupCodes, TypeInv, TypeOK, Tables
  <1>3. c \in 1..last /\ c \notin fresh /\ c \in 1..(last + CodesPerSet)
    BY <1>1 DEF Spent
  <1> HIDE DEF fresh, last
  <1> QED
    BY <1>2, <1>3 DEF Spent

LEMMA WithoutKeepsSpent ==
    ASSUME NEW ids, codes' = Without(codes, ids), UNCHANGED issued, NEW c, Spent(c)
    PROVE  Spent(c)'
  BY DEF Spent, Without

LEMMA SpentStays ==
    ASSUME TypeInv, [Next]_vars, NEW c, Spent(c)
    PROVE  Spent(c)'
  <1>1. CASE UNCHANGED <<codes, issued>>
    BY <1>1 DEF Spent
  <1>2. ASSUME NEW w \in Workers, SignInNext(w)
        PROVE  Spent(c)'
    <2>1. CASE IssueSession(w)
      <3>1. issued'["code"] = issued["code"] /\ codes' = codes
        BY <2>1 DEF IssueSession, TypeInv, TypeOK, Tables
      <3> QED
        BY <3>1 DEF Spent
    <2>2. CASE MarkConsumed(w)
      BY <2>2 DEF MarkConsumed, Spent, CodesOf
    <2> QED
      BY <1>1, <1>2, <2>1, <2>2 DEF SignInNext, Setup, LoginWrong, RecordFailure,
         LoginRight, ResetFailures, CompleteTOTPLogin, ListCodes, ReadSession,
         DeleteSession, ReadOwner, DeleteBarred, Touch, Logout, Serve
  <1>3. ASSUME NEW w \in Workers, CredentialsNext(w)
        PROVE  Spent(c)'
    <2>1. CASE ConfirmTOTP(w)
      BY <2>1, Admitted, IssueKeepsSpent DEF ConfirmTOTP
    <2>2. CASE RegenerateBackupCodes(w)
      BY <2>2, Admitted, IssueKeepsSpent DEF RegenerateBackupCodes
    <2>3. CASE DisableTOTP(w)
      BY <2>3, WithoutKeepsSpent DEF DisableTOTP
    <2> QED
      BY <1>1, <1>3, <2>1, <2>2, <2>3 DEF CredentialsNext, BeginTOTPEnrolment,
         StoreSecret, ChangePassword, ChangeEmail, RevokeSession, ListSessions,
         RevokeOthers
  <1>4. ASSUME UserAction
        PROVE  Spent(c)'
    BY <1>1, <1>4, WithoutKeepsSpent DEF UserAction, DeactivateUser, ReactivateUser,
       AdminResetTOTP, AdminResetPassword
  <1>5. ASSUME NEW w \in Workers, IssueInvitation(w)
        PROVE  Spent(c)'
    <2>1. issued'["code"] = issued["code"] /\ codes' = codes
      BY <1>5 DEF IssueInvitation, TypeInv, TypeOK, Tables
    <2> QED
      BY <2>1 DEF Spent
  <1> QED
    BY <1>1, <1>2, <1>3, <1>4, <1>5 DEF Next, vars, AdministrationNext,
       RevokeInvitation, AcceptInvitation, ManageUser, CommandLine, Abandon, Tick

\* No session and no request holds a code it did not hold before.
QuietSessions ==
    \A s \in DOMAIN sessions' : s \in DOMAIN sessions /\ sessions'[s].code = sessions[s].code
QuietRequests ==
    \A w \in Workers :
        requests'[w].at = "issuing" /\ requests'[w].code # 0 => requests'[w] = requests[w]

LEMMA QuietStep ==
    ASSUME TypeInv, OnceInv, [Next]_vars, QuietSessions, QuietRequests
    PROVE  OnceInv'
  <1>1. ASSUME NEW s \in SessionIds, Opened(s)'
        PROVE  Opened(s) /\ sessions'[s].code = sessions[s].code
    BY <1>1 DEF Opened, QuietSessions
  <1>2. ASSUME NEW w \in Workers, Opening(w)'
        PROVE  Opening(w) /\ requests'[w].code = requests[w].code
    BY <1>2 DEF Opening, QuietRequests, At
  <1>3. \A s \in SessionIds : Opened(s)' => Spent(sessions[s].code)'
    <2> SUFFICES ASSUME NEW s \in SessionIds, Opened(s)' PROVE Spent(sessions[s].code)'
      OBVIOUS
    <2> DEFINE c == sessions[s].code
    <2>1. PICK k : k = c /\ k = sessions'[s].code
      BY <1>1
    <2>2. Spent(k)
      BY <1>1, <2>1 DEF OnceInv
    <2>3. Spent(k)'
      BY <2>2, SpentStays
    <2> QED
      BY <2>1, <2>3 DEF Spent
  <1>4. \A w \in Workers : Opening(w)' => Spent(requests[w].code)'
    <2> SUFFICES ASSUME NEW w \in Workers, Opening(w)' PROVE Spent(requests[w].code)'
      OBVIOUS
    <2>1. PICK k : k = requests[w].code /\ k = requests'[w].code
      BY <1>2
    <2>2. Spent(k)
      BY <1>2, <2>1 DEF OnceInv
    <2>3. Spent(k)'
      BY <2>2, SpentStays
    <2> QED
      BY <2>1, <2>3 DEF Spent
  <1>5. \A s, t \in SessionIds :
          Opened(s)' /\ Opened(t)' /\ sessions'[s].code = sessions'[t].code => s = t
    BY <1>1 DEF OnceInv
  <1>6. \A v, w \in Workers :
          Opening(v)' /\ Opening(w)' /\ requests'[v].code = requests'[w].code => v = w
    BY <1>2 DEF OnceInv
  <1>7. \A s \in SessionIds, w \in Workers :
          Opened(s)' /\ Opening(w)' => sessions'[s].code # requests'[w].code
    BY <1>1, <1>2 DEF OnceInv
  <1> QED
    BY <1>3, <1>4, <1>5, <1>6, <1>7 DEF OnceInv

LEMMA BecomeQuiet ==
    ASSUME TypeInv, NEW w \in Workers, NEW stage, Become(w, stage),
           stage.at # "issuing" \/ stage.code = 0
    PROVE  QuietRequests
  BY DEF QuietRequests, Become, TypeInv, TypeOK

LEMMA AnswerQuiet ==
    ASSUME TypeInv, NEW w \in Workers, Answer(w)
    PROVE  QuietRequests
  <1>1. Idle.at # "issuing"
    BY DEF Idle
  <1> QED
    BY <1>1, BecomeQuiet DEF Answer

LEMMA DeleteQuiet ==
    ASSUME NEW ids, DeleteSessions(ids)
    PROVE  QuietSessions
  BY DEF QuietSessions, DeleteSessions, Without

LEMMA SameQuiet ==
    /\ UNCHANGED sessions => QuietSessions
    /\ UNCHANGED requests => QuietRequests
  BY DEF QuietSessions, QuietRequests

LEMMA IssueQuiet ==
    ASSUME TypeInv, NEW w \in Workers, NEW u, NEW k, ThenIssue(w, u, k, 0)
    PROVE  QuietRequests
  <1> DEFINE stage == [at |-> "issuing", user |-> u, kind |-> k, code |-> 0]
  <1>1. stage.code = 0 /\ Become(w, stage)
    BY DEF ThenIssue
  <1> HIDE DEF stage
  <1> QED
    BY <1>1, BecomeQuiet

LEMMA SignInQuiet ==
    ASSUME TypeInv, NEW w \in Workers, SignInNext(w), ~IssueSession(w), ~MarkConsumed(w)
    PROVE  QuietSessions /\ QuietRequests
  <1> DEFINE r == requests[w]
  <1>1. CASE Setup(w)
    BY <1>1, IssueQuiet, SameQuiet DEF Setup
  <1>2. CASE LoginWrong(w)
    <2>1. PICK u, n, t : Become(w, [at |-> "failed", user |-> u, failures |-> n,
                                    lockedUntil |-> t])
      BY <1>2 DEF LoginWrong
    <2>2. [at |-> "failed", user |-> u, failures |-> n, lockedUntil |-> t].at = "failed"
      OBVIOUS
    <2> QED
      BY <1>2, <2>1, <2>2, BecomeQuiet, SameQuiet DEF LoginWrong
  <1>3. CASE LoginRight(w)
    <2>1. PICK u, k, f, t : Become(w, [at |-> "verified", user |-> u, kind |-> k,
                                       factor |-> f, since |-> t])
      BY <1>3 DEF LoginRight
    <2>2. [at |-> "verified", user |-> u, kind |-> k, factor |-> f, since |-> t].at = "verified"
      OBVIOUS
    <2> QED
      BY <1>3, <2>1, <2>2, BecomeQuiet, SameQuiet DEF LoginRight
  <1>4. CASE ResetFailures(w)
    BY <1>4, AnswerQuiet, IssueQuiet, SameQuiet DEF ResetFailures
  <1>5. CASE CompleteTOTPLogin(w)
    <2>1. PICK u, k : \/ ThenIssue(w, u, k, 0)
                      \/ Become(w, [at |-> "listing", user |-> u, kind |-> k])
      BY <1>5 DEF CompleteTOTPLogin
    <2>2. [at |-> "listing", user |-> u, kind |-> k].at = "listing"
      OBVIOUS
    <2> QED
      BY <1>5, <2>1, <2>2, BecomeQuiet, IssueQuiet, SameQuiet DEF CompleteTOTPLogin
  <1>6. CASE ListCodes(w)
    <2>1. \/ Answer(w)
          \/ \E u, k, c : Become(w, [at |-> "consuming", user |-> u, kind |-> k, code |-> c])
      BY <1>6 DEF ListCodes
    <2>2. \A u, k, c : [at |-> "consuming", user |-> u, kind |-> k, code |-> c].at = "consuming"
      OBVIOUS
    <2> QED
      BY <1>6, <2>1, <2>2, AnswerQuiet, BecomeQuiet, SameQuiet DEF ListCodes
  <1>7. CASE ReadSession(w)
    <2>1. PICK s, u, t :
            \/ Become(w, [at |-> "expired", session |-> s])
            \/ Become(w, [at |-> "resolving", user |-> u, session |-> s, expires |-> t])
      BY <1>7 DEF ReadSession
    <2>2. /\ [at |-> "expired", session |-> s].at = "expired"
          /\ [at |-> "resolving", user |-> u, session |-> s, expires |-> t].at = "resolving"
      OBVIOUS
    <2> QED
      BY <1>7, <2>1, <2>2, BecomeQuiet, SameQuiet DEF ReadSession
  <1>8. CASE ReadOwner(w)
    <2>1. PICK u, s, t, a, m :
            \/ Become(w, [at |-> "barred", user |-> u])
            \/ Become(w, [at |-> "touching", user |-> u, session |-> s, expires |-> t,
                          admin |-> a, mustChange |-> m])
      BY <1>8 DEF ReadOwner
    <2>2. /\ [at |-> "barred", user |-> u].at = "barred"
          /\ [at |-> "touching", user |-> u, session |-> s, expires |-> t,
              admin |-> a, mustChange |-> m].at = "touching"
      OBVIOUS
    <2> QED
      BY <1>8, <2>1, <2>2, BecomeQuiet, SameQuiet DEF ReadOwner
  <1>9. CASE Touch(w)
    <2> DEFINE stage == [at |-> "admitted", user |-> r.user, session |-> r.session,
                         admin |-> r.admin, mustChange |-> r.mustChange]
    <2>1. stage.at = "admitted" /\ Become(w, stage)
      BY <1>9 DEF Touch, Admit
    <2> HIDE DEF stage
    <2>2. QuietSessions
      <3>1. CASE UNCHANGED sessions
        BY <3>1, SameQuiet
      <3>2. CASE r.session \in DOMAIN sessions
                 /\ sessions' = [sessions EXCEPT ![r.session].expires = r.expires]
        <4>1. [sessions[r.session] EXCEPT !.expires = r.expires].code
                = sessions[r.session].code
          BY <3>2, RowOfSession DEF SessionRow
        <4> QED
          BY <3>2, <4>1 DEF QuietSessions
      <3> QED
        BY <1>9, <3>1, <3>2 DEF Touch
    <2> QED
      BY <2>1, <2>2, BecomeQuiet
  <1>10. CASE Logout(w)
    <2>1. PICK s : Become(w, [at |-> "leaving", session |-> s]) \/ Become(w, Idle)
      BY <1>10 DEF Logout
    <2>2. [at |-> "leaving", session |-> s].at = "leaving" /\ Idle.at = "idle"
      BY DEF Idle
    <2> QED
      BY <1>10, <2>1, <2>2, BecomeQuiet, SameQuiet DEF Logout
  <1>11. CASE RecordFailure(w) \/ Serve(w)
    BY <1>11, AnswerQuiet, SameQuiet DEF RecordFailure, Serve
  <1>12. CASE DeleteSession(w) \/ DeleteBarred(w)
    BY <1>12, AnswerQuiet, DeleteQuiet DEF DeleteSession, DeleteBarred
  <1> QED
    BY <1>1, <1>2, <1>3, <1>4, <1>5, <1>6, <1>7, <1>8, <1>9, <1>10, <1>11, <1>12
       DEF SignInNext

LEMMA CredentialsQuiet ==
    ASSUME TypeInv, NEW w \in Workers, CredentialsNext(w)
    PROVE  QuietSessions /\ QuietRequests
  <1>1. CASE BeginTOTPEnrolment(w)
    <2>1. PICK u, s : Become(w, [at |-> "enrolling", user |-> u, secret |-> s])
      BY <1>1 DEF BeginTOTPEnrolment
    <2>2. [at |-> "enrolling", user |-> u, secret |-> s].at = "enrolling"
      OBVIOUS
    <2> QED
      BY <1>1, <2>1, <2>2, BecomeQuiet, SameQuiet DEF BeginTOTPEnrolment
  <1>2. CASE ListSessions(w)
    <2>1. PICK u, k : Become(w, [at |-> "revoking", user |-> u, keep |-> k])
      BY <1>2 DEF ListSessions
    <2>2. [at |-> "revoking", user |-> u, keep |-> k].at = "revoking"
      OBVIOUS
    <2> QED
      BY <1>2, <2>1, <2>2, BecomeQuiet, SameQuiet DEF ListSessions
  <1>3. CASE RevokeSession(w) \/ RevokeOthers(w)
    BY <1>3, AnswerQuiet, DeleteQuiet DEF RevokeSession, RevokeOthers
  <1>4. CASE Answer(w) /\ UNCHANGED sessions
    BY <1>4, AnswerQuiet, SameQuiet
  <1> QED
    BY <1>1, <1>2, <1>3, <1>4 DEF CredentialsNext, StoreSecret, ConfirmTOTP,
       DisableTOTP, RegenerateBackupCodes, ChangePassword, ChangeEmail

LEMMA OtherQuiet ==
    ASSUME TypeInv, [Next]_vars
    PROVE  \/ \E w \in Workers : IssueSession(w) \/ MarkConsumed(w)
           \/ QuietSessions /\ QuietRequests
  <1>1. UserAction => QuietSessions
    BY DeleteQuiet, SameQuiet DEF UserAction, DeactivateUser, ReactivateUser,
       AdminResetTOTP, AdminResetPassword
  <1>2. ASSUME NEW w \in Workers, AdministrationNext(w)
        PROVE  QuietSessions /\ QuietRequests
    <2>1. CASE AcceptInvitation(w)
      BY <2>1, IssueQuiet, SameQuiet DEF AcceptInvitation
    <2> QED
      BY <1>1, <1>2, <2>1, AnswerQuiet, SameQuiet
         DEF AdministrationNext, IssueInvitation, RevokeInvitation, ManageUser
  <1>3. ASSUME NEW w \in Workers, Abandon(w)
        PROVE  QuietSessions /\ QuietRequests
    BY <1>3, AnswerQuiet, SameQuiet DEF Abandon
  <1>4. CASE CommandLine
    BY <1>1, <1>4, SameQuiet DEF CommandLine
  <1>5. CASE Tick \/ UNCHANGED vars
    BY <1>5, SameQuiet DEF Tick, vars
  <1> QED
    BY <1>2, <1>3, <1>4, <1>5, SignInQuiet, CredentialsQuiet DEF Next

\* The session takes over the code of the request that issues it.
LEMMA IssueOnce ==
    ASSUME TypeInv, OnceInv, [Next]_vars, NEW w \in Workers, IssueSession(w)
    PROVE  OnceInv'
  <1> DEFINE r == requests[w]
             n == NextId("session")
             row == [user |-> r.user, kind |-> r.kind,
                     expires |-> now + Lifetime[r.kind], code |-> r.code]
  <1>1. /\ At(w, "issuing") /\ n \in SessionIds /\ n \notin DOMAIN sessions
        /\ sessions' = Put(sessions, n, row) /\ Answer(w)
    BY DEF IssueSession, NextId, TypeInv, TypeOK, IsTable, Tables
  <1>2. row.code = r.code
    OBVIOUS
  <1> HIDE DEF row, n
  <1>3. /\ DOMAIN sessions' = DOMAIN sessions \cup {n} /\ sessions'[n].code = r.code
        /\ \A s \in DOMAIN sessions : sessions'[s] = sessions[s]
    BY <1>1, <1>2 DEF Put
  <1>4. /\ requests'[w] = Idle /\ \A v \in Workers \ {w} : requests'[v] = requests[v]
    BY <1>1 DEF Answer, Become, TypeInv, TypeOK
  <1>5. ASSUME NEW s \in SessionIds, Opened(s)'
        PROVE  \/ s = n /\ Opening(w) /\ sessions'[s].code = r.code
               \/ s # n /\ Opened(s) /\ sessions'[s].code = sessions[s].code
    BY <1>1, <1>3, <1>5 DEF Opened, Opening
  <1>6. ASSUME NEW v \in Workers, Opening(v)'
        PROVE  v # w /\ Opening(v) /\ requests'[v].code = requests[v].code
    BY <1>4, <1>6 DEF Opening, At, Idle
  <1>7. \A s \in SessionIds : Opened(s)' => Spent(sessions[s].code)'
    <2> SUFFICES ASSUME NEW s \in SessionIds, Opened(s)' PROVE Spent(sessions[s].code)'
      OBVIOUS
    <2>1. PICK k : k = sessions'[s].code
      OBVIOUS
    <2>2. Spent(k)
      BY <1>5, <2>1 DEF OnceInv
    <2>3. Spent(k)'
      BY <2>2, SpentStays
    <2> QED
      BY <2>1, <2>3 DEF Spent
  <1>8. \A v \in Workers : Opening(v)' => Spent(requests[v].code)'
    <2> SUFFICES ASSUME NEW v \in Workers, Opening(v)' PROVE Spent(requests[v].code)'
      OBVIOUS
    <2>1. PICK k : k = requests'[v].code
      OBVIOUS
    <2>2. Spent(k)
      BY <1>6, <2>1 DEF OnceInv
    <2>3. Spent(k)'
      BY <2>2, SpentStays
    <2> QED
      BY <2>1, <2>3 DEF Spent
  <1>9. \A s, t \in SessionIds :
          Opened(s)' /\ Opened(t)' /\ sessions'[s].code = sessions'[t].code => s = t
    BY <1>5 DEF OnceInv
  <1>10. \A u, v \in Workers :
          Opening(u)' /\ Opening(v)' /\ requests'[u].code = requests'[v].code => u = v
    BY <1>6 DEF OnceInv
  <1>11. \A s \in SessionIds, v \in Workers :
          Opened(s)' /\ Opening(v)' => sessions'[s].code # requests'[v].code
    BY <1>5, <1>6 DEF OnceInv
  <1> QED
    BY <1>7, <1>8, <1>9, <1>10, <1>11 DEF OnceInv

\* A code is consumed by the request that finds it unconsumed, so nobody holds
\* it yet.
LEMMA ConsumeOnce ==
    ASSUME TypeInv, OnceInv, [Next]_vars, NEW w \in Workers, MarkConsumed(w)
    PROVE  OnceInv'
  <1> DEFINE r == requests[w]
             stage == [at |-> "issuing", user |-> r.user, kind |-> r.kind, code |-> r.code]
  <1>1. CASE Answer(w)
    BY <1>1, AnswerQuiet, SameQuiet, QuietStep DEF MarkConsumed
  <1>2. CASE /\ r.code \in CodesOf(r.user) /\ ~codes[r.code].consumed
             /\ codes' = [codes EXCEPT ![r.code].consumed = TRUE]
             /\ Become(w, stage)
    <2>1. r.code \in DOMAIN codes /\ sessions' = sessions /\ issued' = issued
      BY <1>2 DEF MarkConsumed, CodesOf
    <2>2. ~Spent(r.code)
      BY <1>2, <2>1 DEF Spent
    <2>3. Spent(r.code)'
      <3>1. PICK k : k = r.code
        OBVIOUS
      <3>2. k \in DOMAIN codes' /\ codes'[k].consumed /\ requests'[w].code = k
        <4>1. codes[k] \in CodeRow
          BY <2>1, <3>1 DEF TypeInv, TypeOK, IsTable
        <4>2. requests'[w] = stage /\ stage.code = k
          BY <1>2, <3>1 DEF Become, TypeInv, TypeOK
        <4> QED
          BY <1>2, <2>1, <3>1, <4>1, <4>2 DEF CodeRow
      <3>3. k \in 1..issued["code"]
        BY <2>1, <3>1 DEF TypeInv, TypeOK, IsTable
      <3> QED
        BY <2>1, <3>2, <3>3 DEF Spent
    <2>4. requests'[w] = stage /\ \A v \in Workers \ {w} : requests'[v] = requests[v]
      BY <1>2 DEF Become, TypeInv, TypeOK
    <2>5. stage.code = r.code
      OBVIOUS
    <2> HIDE DEF stage
    <2>6. ASSUME NEW v \in Workers, Opening(v)'
          PROVE  \/ v = w /\ requests'[v].code = r.code
                 \/ v # w /\ Opening(v) /\ requests'[v].code = requests[v].code
      BY <2>4, <2>5, <2>6 DEF Opening, At
    <2>7. ASSUME NEW s \in SessionIds, Opened(s)'
          PROVE  Opened(s) /\ sessions'[s].code = sessions[s].code
      BY <2>1, <2>7 DEF Opened
    <2>8. \A s \in SessionIds : Opened(s)' => Spent(sessions[s].code)'
      <3> SUFFICES ASSUME NEW s \in SessionIds, Opened(s)' PROVE Spent(sessions[s].code)'
        OBVIOUS
      <3>1. PICK k : k = sessions'[s].code
        OBVIOUS
      <3>2. Spent(k)
        BY <2>7, <3>1 DEF OnceInv
      <3>3. Spent(k)'
        BY <3>2, SpentStays
      <3> QED
        BY <3>1, <3>3 DEF Spent
    <2>9. \A v \in Workers : Opening(v)' => Spent(requests[v].code)'
      <3> SUFFICES ASSUME NEW v \in Workers, Opening(v)' PROVE Spent(requests[v].code)'
        OBVIOUS
      <3>1. CASE v = w
        BY <2>3, <3>1
      <3>2. CASE v # w
        <4>1. PICK k : k = requests'[v].code
          OBVIOUS
        <4>2. Spent(k)
          BY <2>6, <3>2, <4>1 DEF OnceInv
        <4>3. Spent(k)'
          BY <4>2, SpentStays
        <4> QED
          BY <4>1, <4>3 DEF Spent
      <3> QED
        BY <3>1, <3>2
    <2>10. \A s, t \in SessionIds :
             Opened(s)' /\ Opened(t)' /\ sessions'[s].code = sessions'[t].code => s = t
      BY <2>7 DEF OnceInv
    <2>11. ASSUME NEW v \in Workers, v # w, Opening(v)'
           PROVE  requests'[v].code # r.code
      BY <2>2, <2>6, <2>11 DEF OnceInv
    <2>12. \A u, v \in Workers :
             Opening(u)' /\ Opening(v)' /\ requests'[u].code = requests'[v].code => u = v
      BY <2>6, <2>11 DEF OnceInv
    <2>13. \A s \in SessionIds, v \in Workers :
             Opened(s)' /\ Opening(v)' => sessions'[s].code # requests'[v].code
      BY <2>2, <2>6, <2>7 DEF OnceInv
    <2> QED
      BY <2>8, <2>9, <2>10, <2>12, <2>13 DEF OnceInv
  <1> QED
    BY <1>1, <1>2 DEF MarkConsumed, ThenIssue

LEMMA OnceStep == TypeInv /\ OnceInv /\ [Next]_vars => OnceInv'
  BY OtherQuiet, QuietStep, IssueOnce, ConsumeOnce

THEOREM CodesSpentOnce == Spec => []OnceInv
  <1>1. IdentityInit => OnceInv
    <2> SUFFICES ASSUME IdentityInit PROVE OnceInv
      OBVIOUS
    <2>1. DOMAIN sessions = {} /\ \A w \in Workers : requests[w].at = "idle"
      BY DEF IdentityInit, Idle
    <2> QED
      BY <2>1 DEF OnceInv, Opened, Opening, At
  <1> QED
    BY <1>1, OnceStep, AccessTypeInv, PTL DEF Spec

\* However many requests submit a backup code at the same time, and whatever
\* sets are issued meanwhile, it opens one session.
THEOREM BackupCodesOpenOnce == Spec => []BackupCodeOnce
  BY OnceImplies, AccessTypeInv, CodesSpentOnce, PTL

----------------------------------------------------------------------------
(* The refinement *)

LEMMA MembersStay ==
    ASSUME TypeInv, NEW u \in DOMAIN users, NEW row \in UserRow, Rewrites(u, row),
           row.active = users[u].active
    PROVE  Members' = Members
  <1>1. /\ DOMAIN users' = DOMAIN users /\ users'[u] = row
        /\ \A v \in DOMAIN users \ {u} : users'[v] = users[v]
    BY RewriteRows DEF Rewrites
  <1> QED
    BY <1>1 DEF Members, Rewrites

\* A rewrite that changes the activity suspends or restores a member.
LEMMA RewriteRefines ==
    ASSUME UsersInv, NEW u \in DOMAIN users, NEW row \in UserRow, Rewrites(u, row),
           UNCHANGED invitations
    PROVE  Club!MembershipNext \/ UNCHANGED <<Members, Tickets>>
  <1>0. TypeInv /\ LastAdmin
    BY DEF UsersInv
  <1>1. /\ DOMAIN users' = DOMAIN users /\ users'[u] = row
        /\ \A v \in DOMAIN users \ {u} : users'[v] = users[v]
    BY <1>0, RewriteRows DEF Rewrites
  <1>2. UNCHANGED Tickets
    BY DEF Tickets
  <1>3. /\ row.admin = users[u].admin /\ row.active \in BOOLEAN
        /\ users[u].active \in BOOLEAN /\ users[u].admin \in BOOLEAN
    BY <1>0, RowOfUser DEF Rewrites, UserRow
  <1>4. /\ DOMAIN Members = DOMAIN users
        /\ \A v \in DOMAIN users : /\ Members[v].admin = users[v].admin
                                  /\ Members[v].active = users[v].active
    BY DEF Members
  <1>5. Members' = [Members EXCEPT ![u] = [admin |-> row.admin, active |-> row.active]]
    BY <1>1 DEF Members
  <1>6. [Members[u] EXCEPT !.active = row.active] = [admin |-> row.admin, active |-> row.active]
    BY <1>3 DEF Members
  <1>7. Members' = [Members EXCEPT ![u].active = row.active]
    BY <1>4, <1>5, <1>6
  <1>8. CASE row.active = users[u].active
    BY <1>0, <1>2, <1>8, MembersStay
  <1>9. CASE row.active = TRUE
    BY <1>2, <1>4, <1>7, <1>9 DEF Club!MembershipNext, Club!Restore
  <1>10. CASE row.active = FALSE /\ (users[u].admin => NotLastAdmin)
    <2>1. PICK v \in ActiveAdmins : v # u
      BY <1>0, <1>10, AnotherAdmin
    <2>2. v \in DOMAIN Members \ {u} /\ Members[v].admin /\ Members[v].active
      BY <1>4, <2>1 DEF ActiveAdmins
    <2> QED
      BY <1>2, <1>4, <1>7, <1>10, <2>2 DEF Club!MembershipNext, Club!Suspend
  <1> QED
    BY <1>3, <1>8, <1>9, <1>10 DEF Rewrites

\* A new account is a new member with the role given.
LEMMA MembersJoin ==
    ASSUME TypeInv, NEW e \in Emails, NEW a \in BOOLEAN,
           Cardinality(DOMAIN users) < MaxUsers,
           SetUser(Cardinality(DOMAIN users) + 1, NewUser(e, a))
    PROVE  \E m \in UserIds \ DOMAIN Members :
             Members' = Club!Add(Members, m, [admin |-> a, active |-> TRUE])
  <1> DEFINE n == Cardinality(DOMAIN users) + 1
  <1>1. /\ DOMAIN users' = DOMAIN users \cup {n} /\ n \notin DOMAIN users
        /\ users'[n] = NewUser(e, a)
        /\ \A v \in DOMAIN users : users'[v] = users[v]
    BY NewUserType, JoinRows
  <1>2. n \in UserIds
    BY UserTable, IdentityAssumption DEF UserIds
  <1> HIDE DEF n
  <1>3. users'[n].admin = a /\ users'[n].active = TRUE
    BY <1>1 DEF NewUser
  <1>4. DOMAIN Members = DOMAIN users
    BY DEF Members
  <1>5. Members' = Club!Add(Members, n, [admin |-> a, active |-> TRUE])
    BY <1>1, <1>3, <1>4 DEF Members, Club!Add
  <1> QED
    BY <1>1, <1>2, <1>4, <1>5

LEMMA TicketRows ==
    /\ DOMAIN Tickets = DOMAIN invitations
    /\ \A i \in DOMAIN invitations : /\ Tickets[i].state = invitations[i].state
                                    /\ Tickets[i].admin = invitations[i].admin
  BY DEF Tickets

LEMMA TicketChanges ==
    ASSUME TypeInv, NEW i \in DOMAIN invitations,
           NEW state \in {"open", "consumed", "revoked"},
           invitations' = [invitations EXCEPT ![i].state = state]
    PROVE  Tickets' = [Tickets EXCEPT ![i].state = state]
  <1>1. invitations[i] \in InvitationRow
    BY DEF TypeInv, TypeOK, IsTable
  <1>2. /\ DOMAIN invitations' = DOMAIN invitations
        /\ invitations'[i].admin = invitations[i].admin /\ invitations'[i].state = state
        /\ \A j \in DOMAIN invitations \ {i} : invitations'[j] = invitations[j]
    BY <1>1 DEF InvitationRow
  <1>3. Tickets' = [Tickets EXCEPT ![i] = [admin |-> invitations[i].admin, state |-> state]]
    BY <1>2 DEF Tickets
  <1>4. [Tickets[i] EXCEPT !.state = state] = [admin |-> invitations[i].admin, state |-> state]
    BY DEF Tickets
  <1> QED
    BY <1>3, <1>4, TicketRows

LEMMA StepRefines ==
    UsersInv /\ [Next]_vars => Club!MembershipNext \/ UNCHANGED <<Members, Tickets>>
  <1> SUFFICES ASSUME UsersInv, [Next]_vars
               PROVE  Club!MembershipNext \/ UNCHANGED <<Members, Tickets>>
    OBVIOUS
  <1>0. TypeInv
    BY DEF UsersInv
  <1>1. ASSUME NEW w \in Workers, Setup(w)
        PROVE  Club!MembershipNext
    <2>1. PICK e \in Emails : SetUser(1, NewUser(e, TRUE))
      BY <1>1 DEF Setup
    <2>2. Cardinality(DOMAIN users) = 0
      BY <1>1, FS_EmptySet DEF Setup
    <2>7. Cardinality(DOMAIN users) + 1 = 1 /\ Cardinality(DOMAIN users) < MaxUsers
      BY <1>1, <2>2 DEF Setup
    <2>3. /\ Cardinality(DOMAIN users) < MaxUsers
          /\ SetUser(Cardinality(DOMAIN users) + 1, NewUser(e, TRUE))
      BY <2>1, <2>7
    <2>4. \E m \in UserIds \ DOMAIN Members :
            Members' = Club!Add(Members, m, [admin |-> TRUE, active |-> TRUE])
      BY <1>0, <2>3, MembersJoin
    <2>5. DOMAIN Members = {} /\ UNCHANGED Tickets
      BY <1>1 DEF Setup, Members, Tickets
    <2> QED
      BY <2>4, <2>5 DEF Club!MembershipNext, Club!Found
  <1>2. ASSUME NEW w \in Workers, AcceptInvitation(w)
        PROVE  Club!MembershipNext
    <2>1. PICK i \in DOMAIN invitations :
            /\ \E moment : InvitationValid(i, moment)
            /\ \E e \in Emails : SetUser(Cardinality(DOMAIN users) + 1,
                                        NewUser(e, invitations[i].admin))
            /\ invitations' = [invitations EXCEPT ![i].state = "consumed"]
      BY <1>2 DEF AcceptInvitation
    <2>2. PICK e \in Emails : SetUser(Cardinality(DOMAIN users) + 1,
                                     NewUser(e, invitations[i].admin))
      BY <2>1
    <2>3. invitations[i].admin \in BOOLEAN /\ Cardinality(DOMAIN users) < MaxUsers
      BY <1>0, <1>2 DEF AcceptInvitation, TypeInv, TypeOK, IsTable, InvitationRow
    <2>4. \E m \in UserIds \ DOMAIN Members :
            Members' = Club!Add(Members, m, [admin |-> Tickets[i].admin, active |-> TRUE])
      BY <1>0, <2>2, <2>3, MembersJoin, TicketRows
    <2>5. Tickets' = [Tickets EXCEPT ![i].state = "consumed"]
      BY <1>0, <2>1, TicketChanges
    <2>6. i \in DOMAIN Tickets /\ Tickets[i].state = "open"
      BY <2>1, TicketRows DEF InvitationValid
    <2> QED
      BY <2>4, <2>5, <2>6 DEF Club!MembershipNext, Club!Join
  <1>3. ASSUME NEW w \in Workers, IssueInvitation(w)
        PROVE  Club!MembershipNext
    <2> DEFINE i == NextId("invitation")
    <2>1. PICK a \in BOOLEAN :
            invitations' = Put(invitations, i,
              [admin |-> a, by |-> User(w), expires |-> now + InvitationTTL,
               state |-> "open"])
      BY <1>3 DEF IssueInvitation
    <2>2. i \in InvitationIds /\ i \notin DOMAIN invitations /\ UNCHANGED users
      BY <1>0, <1>3 DEF IssueInvitation, NextId, TypeInv, TypeOK, IsTable, Tables
    <2> HIDE DEF i
    <2>3. Tickets' = Club!Add(Tickets, i, [admin |-> a, state |-> "open"])
      BY <2>1 DEF Tickets, Put, Club!Add
    <2>4. DOMAIN Members # {} /\ UNCHANGED Members
      BY <1>0, <1>3, <2>2, Admitted DEF IssueInvitation, MayAdminister, Members
    <2> QED
      BY <2>2, <2>3, <2>4, TicketRows DEF Club!MembershipNext, Club!Offer
  <1>4. ASSUME NEW w \in Workers, RevokeInvitation(w)
        PROVE  Club!MembershipNext
    <2>1. PICK i \in DOMAIN invitations :
            /\ invitations[i].state = "open"
            /\ invitations' = [invitations EXCEPT ![i].state = "revoked"]
      BY <1>4 DEF RevokeInvitation
    <2>2. Tickets' = [Tickets EXCEPT ![i].state = "revoked"]
      BY <1>0, <2>1, TicketChanges
    <2>3. UNCHANGED Members
      BY <1>4 DEF RevokeInvitation, Members
    <2> QED
      BY <2>1, <2>2, <2>3, TicketRows DEF Club!MembershipNext, Club!Withdraw
  <1>5. ASSUME UNCHANGED invitations, UsersStep
        PROVE  Club!MembershipNext \/ UNCHANGED <<Members, Tickets>>
    <2>1. CASE UNCHANGED users
      BY <1>5, <2>1 DEF Members, Tickets
    <2> QED
      BY <1>5, <2>1, RewriteRefines DEF UsersStep
  <1>6. \/ UNCHANGED invitations
        \/ \E w \in Workers :
             IssueInvitation(w) \/ RevokeInvitation(w) \/ AcceptInvitation(w)
    BY DEF Next, vars, SignInNext, CredentialsNext, AdministrationNext, Setup,
       IssueSession, LoginWrong, RecordFailure, LoginRight, ResetFailures,
       CompleteTOTPLogin, ListCodes, MarkConsumed, ReadSession, DeleteSession,
       ReadOwner, DeleteBarred, Touch, Logout, Serve, BeginTOTPEnrolment,
       StoreSecret, ConfirmTOTP, DisableTOTP, RegenerateBackupCodes,
       ChangePassword, ChangeEmail, RevokeSession, ListSessions, RevokeOthers,
       ManageUser, CommandLine, UserAction, Abandon, Tick
  <1> QED
    BY <1>0, <1>1, <1>2, <1>3, <1>4, <1>5, <1>6, UsersChange

\* Any interleaving of setups, invitations and user management is one of
\* Membership: a founder, an account per ticket with the ticket's role, and
\* never the last administrator suspended.
THEOREM AccessImplementsMembership == Spec => ImplementsMembership
  <1>1. IdentityInit => Club!MembershipInit
    <2> SUFFICES ASSUME IdentityInit PROVE Club!MembershipInit
      OBVIOUS
    <2>1. Members = <<>> /\ Tickets = <<>>
      BY DEF IdentityInit, Members, Tickets
    <2> QED
      BY <2>1 DEF Club!MembershipInit
  <1>2. UsersInv /\ [Next]_vars => [Club!MembershipNext]_(Club!memberVars)
    BY StepRefines DEF Club!memberVars
  <1> QED
    BY <1>1, <1>2, UsersInvariant, PTL DEF Spec, ImplementsMembership, Club!MembershipSpec
=============================================================================
