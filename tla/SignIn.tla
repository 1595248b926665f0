------------------------------- MODULE SignIn -------------------------------
(***************************************************************************)
(* Getting in and staying in: first-run setup, the password step and the    *)
(* code step of a login, the middleware that resolves a session cookie, and *)
(* logout.  Only Setup's writes share a transaction; every other statement  *)
(* commits by itself, and other requests run in between.                    *)
(***************************************************************************)
EXTENDS Identity

NewUser(email, admin) ==
    [email |-> email, admin |-> admin, active |-> TRUE, mustChange |-> FALSE,
     factor |-> FALSE, secret |-> None, failures |-> 0, lockedUntil |-> 0]

\* The next step of the handler inserts a session.
ThenIssue(w, u, kind, code) ==
    Become(w, [at |-> "issuing", user |-> u, kind |-> kind, code |-> code])

\* The owner of an empty instance, in one transaction; the session follows.
Setup(w) ==
    /\ At(w, "idle")
    /\ DOMAIN users = {} /\ MaxUsers > 0
    /\ \E e \in Emails : SetUser(1, NewUser(e, TRUE))
    /\ ThenIssue(w, 1, "short", 0)
    /\ UNCHANGED <<sessions, invitations, codes, issued, pendings, now>>

----------------------------------------------------------------------------
(* The password step *)

\* The lock earned by the n-th consecutive failure, 0 for none.
BackoffFor(n) ==
    IF n <= Threshold THEN 0
    ELSE IF n - Threshold > Len(Backoffs) THEN Backoffs[Len(Backoffs)]
    ELSE Backoffs[n - Threshold]

Locked(u) == users[u].lockedUntil > now

\* A wrong password: the new count and lock come from the row just read.
LoginWrong(w) ==
    /\ At(w, "idle")
    /\ \E u \in DOMAIN users :
         /\ ~Locked(u)
         /\ users[u].failures < MaxFailures
         /\ LET n == users[u].failures + 1
            IN  Become(w, [at |-> "failed", user |-> u, failures |-> n,
                           lockedUntil |-> IF BackoffFor(n) > 0
                                           THEN now + BackoffFor(n)
                                           ELSE users[u].lockedUntil])
    /\ UNCHANGED <<users, sessions, invitations, codes, issued, pendings, now>>

RecordFailure(w) ==
    /\ At(w, "failed")
    /\ LET r == requests[w]
       IN  SetUser(r.user, [users[r.user] EXCEPT !.failures = r.failures,
                                           !.lockedUntil = r.lockedUntil])
    /\ Answer(w)
    /\ UNCHANGED <<sessions, invitations, codes, issued, pendings, now>>

\* The right password of an account that is neither locked nor deactivated.
LoginRight(w) ==
    /\ At(w, "idle")
    /\ \E u \in DOMAIN users, k \in Kinds :
         /\ ~Locked(u) /\ users[u].active
         /\ Become(w, [at |-> "verified", user |-> u, kind |-> k,
                       factor |-> users[u].factor, since |-> now])
    /\ UNCHANGED <<users, sessions, invitations, codes, issued, pendings, now>>

\* The counter is reset; a second factor, as read, defers the session.
ResetFailures(w) ==
    /\ At(w, "verified")
    /\ LET r == requests[w]
       IN  /\ SetUser(r.user, [users[r.user] EXCEPT !.failures = 0,
                                                    !.lockedUntil = 0])
           /\ IF r.factor
              THEN /\ Cardinality(pendings) < MaxPendings
                   /\ pendings' = pendings \cup
                        {[user |-> r.user, kind |-> r.kind,
                          expires |-> r.since + PendingTTL]}
                   /\ Answer(w)
              ELSE /\ ThenIssue(w, r.user, r.kind, 0)
                   /\ UNCHANGED pendings
    /\ UNCHANGED <<sessions, invitations, codes, issued, now>>

IssueSession(w) ==
    /\ At(w, "issuing")
    /\ LET r == requests[w]
           s == NextId("session")
       IN  /\ s \in SessionIds
           /\ sessions' = Put(sessions, s,
                [user |-> r.user, kind |-> r.kind,
                 expires |-> now + Lifetime[r.kind], code |-> r.code])
           /\ issued' = [issued EXCEPT !["session"] = s]
    /\ Answer(w)
    /\ UNCHANGED <<users, invitations, codes, pendings, now>>

----------------------------------------------------------------------------
(* The code step *)

\* A live pending token of an active account whose factor is enabled, with
\* the current one-time code, or with something that may be a backup code.
CompleteTOTPLogin(w) ==
    /\ At(w, "idle")
    /\ \E p \in pendings :
         /\ p.expires >= now
         /\ LET u == users[p.user]
            IN u.active /\ u.factor /\ u.secret # None
         /\ \/ ThenIssue(w, p.user, p.kind, 0)
            \/ Become(w, [at |-> "listing", user |-> p.user, kind |-> p.kind])
    /\ UNCHANGED <<users, sessions, invitations, codes, issued, pendings, now>>

\* The typed code is one of the user's unconsumed codes, or the step fails.
ListCodes(w) ==
    /\ At(w, "listing")
    /\ LET r == requests[w]
       IN  \/ \E c \in CodesOf(r.user) :
                /\ ~codes[c].consumed
                /\ Become(w, [at |-> "consuming", user |-> r.user,
                              kind |-> r.kind, code |-> c])
           \/ Answer(w)
    /\ UNCHANGED <<users, sessions, invitations, codes, issued, pendings, now>>

\* Mutant: the UPDATE lacks AND consumed_at IS NULL.
MarkConsumedAgain(w) ==
    /\ At(w, "consuming")
    /\ LET r == requests[w]
       IN  IF r.code \in CodesOf(r.user)
           THEN /\ codes' = [codes EXCEPT ![r.code].consumed = TRUE]
                /\ ThenIssue(w, r.user, r.kind, r.code)
           ELSE Answer(w) /\ UNCHANGED codes
    /\ UNCHANGED <<users, sessions, invitations, issued, pendings, now>>

\* The UPDATE finds the row unconsumed, or the step fails.
MarkConsumed(w) ==
    /\ At(w, "consuming")
    /\ LET r == requests[w]
       IN  IF r.code \in CodesOf(r.user) /\ ~codes[r.code].consumed
           THEN /\ codes' = [codes EXCEPT ![r.code].consumed = TRUE]
                /\ ThenIssue(w, r.user, r.kind, r.code)
           ELSE Answer(w) /\ UNCHANGED codes
    /\ UNCHANGED <<users, sessions, invitations, issued, pendings, now>>

----------------------------------------------------------------------------
(* The session middleware, and logout *)

ReadSession(w) ==
    /\ At(w, "idle")
    /\ \E s \in DOMAIN sessions :
         Become(w,
           IF now > sessions[s].expires
           THEN [at |-> "expired", session |-> s]
           ELSE [at |-> "resolving", user |-> sessions[s].user, session |-> s,
                 expires |-> now + Lifetime[sessions[s].kind]])
    /\ UNCHANGED <<users, sessions, invitations, codes, issued, pendings, now>>

\* Both an expired session and a logout delete the row by id.
DeleteSession(w) ==
    /\ At(w, "expired") \/ At(w, "leaving")
    /\ DeleteSessions({requests[w].session})
    /\ Answer(w)
    /\ UNCHANGED <<users, invitations, codes, issued, pendings, now>>

ReadOwner(w) ==
    /\ At(w, "resolving")
    /\ LET r == requests[w]
           u == users[r.user]
       IN  Become(w,
             IF ~u.active THEN [at |-> "barred", user |-> r.user]
             ELSE [at |-> "touching", user |-> r.user, session |-> r.session,
                   expires |-> r.expires, admin |-> u.admin,
                   mustChange |-> u.mustChange])
    /\ UNCHANGED <<users, sessions, invitations, codes, issued, pendings, now>>

DeleteBarred(w) ==
    /\ At(w, "barred")
    /\ DeleteSessions(SessionsOf(requests[w].user))
    /\ Answer(w)
    /\ UNCHANGED <<users, invitations, codes, issued, pendings, now>>

Admit(w) ==
    LET r == requests[w]
    IN  Become(w, [at |-> "admitted", user |-> r.user, session |-> r.session,
                   admin |-> r.admin, mustChange |-> r.mustChange])

\* Mutant: the sliding of the expiry is written as an upsert.
TouchUpsert(w) ==
    /\ At(w, "touching")
    /\ LET r == requests[w]
       IN  /\ sessions' = Put(sessions, r.session,
                [user |-> r.user, kind |-> "short", expires |-> r.expires,
                 code |-> 0])
           /\ Admit(w)
    /\ UNCHANGED <<users, invitations, codes, issued, pendings, now>>

\* UPDATE by id: nothing happens when the row is gone, the request goes on.
Touch(w) ==
    /\ At(w, "touching")
    /\ LET r == requests[w]
       IN  /\ IF r.session \in DOMAIN sessions
              THEN sessions' = [sessions EXCEPT ![r.session].expires = r.expires]
              ELSE UNCHANGED sessions
           /\ Admit(w)
    /\ UNCHANGED <<users, invitations, codes, issued, pendings, now>>

\* The pages a user flagged must_change_password may still open.
Exempt == {"logout", "password"}

\* The guards between the session and the handler of a protected route.
MayOpen(w, route) ==
    /\ At(w, "admitted")
    /\ requests[w].mustChange => route \in Exempt

MayAdminister(w) == MayOpen(w, "admin") /\ requests[w].admin

\* The handler reads the row of the cookie, and deletes it by id.
Logout(w) ==
    /\ MayOpen(w, "logout")
    /\ Become(w, IF requests[w].session \in DOMAIN sessions
                 THEN [at |-> "leaving", session |-> requests[w].session]
                 ELSE Idle)
    /\ UNCHANGED <<users, sessions, invitations, codes, issued, pendings, now>>

\* Any page or use-case that leaves the user accounts alone.
Serve(w) ==
    /\ At(w, "admitted")
    /\ Answer(w)
    /\ UNCHANGED <<users, sessions, invitations, codes, issued, pendings, now>>

SignInNext(w) ==
    \/ Setup(w) \/ IssueSession(w)
    \/ LoginWrong(w) \/ RecordFailure(w) \/ LoginRight(w) \/ ResetFailures(w)
    \/ CompleteTOTPLogin(w) \/ ListCodes(w) \/ MarkConsumed(w)
    \/ ReadSession(w) \/ DeleteSession(w) \/ ReadOwner(w) \/ DeleteBarred(w)
    \/ Touch(w) \/ Logout(w) \/ Serve(w)
=============================================================================
