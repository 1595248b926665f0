------------------------------- MODULE Access -------------------------------
(***************************************************************************)
(* The composition: any number of workers run the requests of browsers over *)
(* the same tables, statement by statement, while the operator's tool runs  *)
(* beside the server, browsers go away and time passes.                     *)
(***************************************************************************)
EXTENDS Administration

Next ==
    \/ \E w \in Workers :
         SignInNext(w) \/ CredentialsNext(w) \/ AdministrationNext(w)
         \/ Abandon(w)
    \/ CommandLine
    \/ Tick

Spec == IdentityInit /\ [][Next]_vars

----------------------------------------------------------------------------
(* Safety *)

\* An instance that has accounts has an active administrator, whoever
\* deactivates whom at the same time (ensureNotLastAdmin; ErrLastAdmin).
LastAdmin == DOMAIN users # {} => ActiveAdmins # {}

\* An enabled second factor has its secret: without it the code step would
\* refuse its owner for good (CompleteTOTPLogin needs both).
FactorHasSecret ==
    \A u \in DOMAIN users : users[u].factor => users[u].secret # None

\* The backup codes that let somebody in or are about to.
Admissions ==
    {<<"session", s>> : s \in {s \in DOMAIN sessions : sessions[s].code # 0}}
    \cup {<<"request", w>> : w \in {w \in Workers :
            At(w, "issuing") /\ requests[w].code # 0}}

AdmittedBy(a) ==
    IF a[1] = "session" THEN sessions[a[2]].code ELSE requests[a[2]].code

\* A backup code opens one session, however often and however simultaneously
\* it is submitted, regenerated sets included (consumeBackupCode).
BackupCodeOnce ==
    \A a, b \in Admissions : AdmittedBy(a) = AdmittedBy(b) => a = b

\* A session that was revoked, expired or logged out never comes back, though
\* requests that read it earlier still slide its expiry by id (Touch).
RevokedStaysRevoked ==
    [][\A s \in 1..issued["session"] :
         s \notin DOMAIN sessions => s \notin DOMAIN sessions']_vars

----------------------------------------------------------------------------
(* The refinement *)

Members ==
    [u \in DOMAIN users |-> [admin |-> users[u].admin,
                             active |-> users[u].active]]

Tickets ==
    [i \in DOMAIN invitations |-> [admin |-> invitations[i].admin,
                                   state |-> invitations[i].state]]

Club == INSTANCE Membership
          WITH MemberIds <- UserIds, TicketIds <- InvitationIds,
               members <- Members, tickets <- Tickets

\* Setup, invitations and user management implement Membership: one founder,
\* one account per invitation with the invited role, no last admin suspended.
ImplementsMembership == Club!MembershipSpec
=============================================================================
