--------------------------- MODULE Administration ---------------------------
(***************************************************************************)
(* Invitations, and what an administrator or the operator's command-line    *)
(* tool does to any account.  Every use-case is one transaction except the  *)
(* invitation's INSERT (a single statement) and the session that follows an *)
(* acceptance.  An administrator's request was admitted as such; the tool   *)
(* asks nobody.                                                             *)
(***************************************************************************)
EXTENDS Credentials

IssueInvitation(w) ==
    /\ MayAdminister(w)
    /\ LET i == NextId("invitation")
       IN  /\ i \in InvitationIds
           /\ \E a \in BOOLEAN :
                invitations' = Put(invitations, i,
                  [admin |-> a, by |-> User(w), expires |-> now + InvitationTTL,
                   state |-> "open"])
           /\ issued' = [issued EXCEPT !["invitation"] = i]
    /\ Answer(w)
    /\ UNCHANGED <<users, sessions, codes, pendings, now>>

\* Only by its issuer, and only while it is neither consumed nor revoked.
RevokeInvitation(w) ==
    /\ MayAdminister(w)
    /\ \E i \in DOMAIN invitations :
         /\ invitations[i].by = User(w)
         /\ invitations[i].state = "open"
         /\ invitations' = [invitations EXCEPT ![i].state = "revoked"]
    /\ Answer(w)
    /\ UNCHANGED <<users, sessions, codes, issued, pendings, now>>

InvitationValid(i, moment) ==
    invitations[i].state = "open" /\ moment < invitations[i].expires

\* An acceptance reads the clock first and hashes the password before its
\* transaction begins: the invitation may have expired in between.
ClockRead(i) == invitations[i].expires - InvitationTTL .. now

\* Mutant: whether the invitation is still open is not looked at again.
AcceptInvitationAgain(w) ==
    /\ At(w, "idle")
    /\ Cardinality(DOMAIN users) < MaxUsers
    /\ \E i \in DOMAIN invitations, e \in Emails :
         /\ \E moment \in ClockRead(i) : moment < invitations[i].expires
         /\ ~EmailTaken(e)
         /\ LET u == Cardinality(DOMAIN users) + 1
            IN  /\ SetUser(u, NewUser(e, invitations[i].admin))
                /\ ThenIssue(w, u, "short", 0)
         /\ invitations' = [invitations EXCEPT ![i].state = "consumed"]
    /\ UNCHANGED <<sessions, codes, issued, pendings, now>>

\* The link opens an account with the invited role and is used up; the
\* session follows in a statement of its own.
AcceptInvitation(w) ==
    /\ At(w, "idle")
    /\ Cardinality(DOMAIN users) < MaxUsers
    /\ \E i \in DOMAIN invitations, e \in Emails :
         /\ \E moment \in ClockRead(i) : InvitationValid(i, moment)
         /\ ~EmailTaken(e)
         /\ LET u == Cardinality(DOMAIN users) + 1
            IN  /\ SetUser(u, NewUser(e, invitations[i].admin))
                /\ ThenIssue(w, u, "short", 0)
         /\ invitations' = [invitations EXCEPT ![i].state = "consumed"]
    /\ UNCHANGED <<sessions, codes, issued, pendings, now>>

----------------------------------------------------------------------------
(* User management *)

\* Mutant: deactivated administrators are counted too.
NotLastAdminOfAll == Cardinality({u \in DOMAIN users : users[u].admin}) > 1

NotLastAdmin == Cardinality(ActiveAdmins) > 1

\* The last-admin rule asks for a second active administrator, whoever the
\* target is.
DeactivateUser(u) ==
    /\ users[u].admin => NotLastAdmin
    /\ SetUser(u, [users[u] EXCEPT !.active = FALSE])
    /\ DeleteSessions(SessionsOf(u))
    /\ UNCHANGED <<codes, issued>>

ReactivateUser(u) ==
    /\ SetUser(u, [users[u] EXCEPT !.active = TRUE])
    /\ UNCHANGED <<sessions, codes, issued>>

AdminResetTOTP(u) ==
    /\ UpdateTOTP(u, FALSE, None)
    /\ codes' = Without(codes, CodesOf(u))
    /\ UNCHANGED <<sessions, issued>>

\* A temporary password, to be changed at the next login.
AdminResetPassword(u) ==
    /\ SetUser(u, [users[u] EXCEPT !.mustChange = TRUE])
    /\ DeleteSessions(SessionsOf(u))
    /\ UNCHANGED <<codes, issued>>

UserAction ==
    /\ \E u \in DOMAIN users :
         DeactivateUser(u) \/ ReactivateUser(u)
         \/ AdminResetTOTP(u) \/ AdminResetPassword(u)
    /\ UNCHANGED <<invitations, pendings, now>>

\* An administrator's own account is an account like the others.
ManageUser(w) == MayAdminister(w) /\ UserAction /\ Answer(w)

\* econome-admin, on the server's volume.
CommandLine == UserAction /\ UNCHANGED requests

AdministrationNext(w) ==
    \/ IssueInvitation(w) \/ RevokeInvitation(w) \/ AcceptInvitation(w)
    \/ ManageUser(w)
=============================================================================
