---------------------------- MODULE Credentials ----------------------------
(***************************************************************************)
(* What a signed-in user does to the own account: the second factor, its    *)
(* backup codes, the password, the address and the other sessions.  The     *)
(* user is the one the session middleware resolved; the request may be old  *)
(* by the time its statement runs.                                          *)
(***************************************************************************)
EXTENDS SignIn

User(w) == requests[w].user

\* Mutant: the ids given out are not remembered.
IssueBackupCodesUncounted(u, deleted) ==
    LET last == issued["code"]
        fresh == (last + 1)..(last + CodesPerSet)
    IN  /\ fresh \subseteq CodeIds
        /\ codes' = [c \in (DOMAIN codes \ deleted) \cup fresh |->
                       IF c \in fresh THEN [user |-> u, consumed |-> FALSE]
                       ELSE codes[c]]
        /\ UNCHANGED issued

\* A fresh set of backup codes replaces those that are deleted.
IssueBackupCodes(u, deleted) ==
    LET last == issued["code"]
        fresh == (last + 1)..(last + CodesPerSet)
    IN  /\ fresh \subseteq CodeIds
        /\ codes' = [c \in (DOMAIN codes \ deleted) \cup fresh |->
                       IF c \in fresh THEN [user |-> u, consumed |-> FALSE]
                       ELSE codes[c]]
        /\ issued' = [issued EXCEPT !["code"] = last + CodesPerSet]

\* Refused when the factor is already enabled; a fresh secret is drawn.
BeginTOTPEnrolment(w) ==
    /\ MayOpen(w, "2fa")
    /\ ~users[User(w)].factor
    /\ \E s \in Secrets :
         Become(w, [at |-> "enrolling", user |-> User(w), secret |-> s])
    /\ UNCHANGED <<users, sessions, invitations, codes, issued, pendings, now>>

StoreSecret(w) ==
    /\ At(w, "enrolling")
    /\ UpdateTOTP(User(w), FALSE, requests[w].secret)
    /\ Answer(w)
    /\ UNCHANGED <<sessions, invitations, codes, issued, pendings, now>>

\* Mutant: the pending secret is not looked for.
ConfirmWithoutSecret(w) ==
    /\ MayOpen(w, "2fa")
    /\ LET u == users[User(w)]
       IN  ~u.factor /\ UpdateTOTP(User(w), TRUE, u.secret)
    /\ IssueBackupCodes(User(w), {})
    /\ Answer(w)
    /\ UNCHANGED <<sessions, invitations, pendings, now>>

\* A live code of the pending secret.
ConfirmTOTP(w) ==
    /\ MayOpen(w, "2fa")
    /\ LET u == users[User(w)]
       IN  ~u.factor /\ u.secret # None /\ UpdateTOTP(User(w), TRUE, u.secret)
    /\ IssueBackupCodes(User(w), {})
    /\ Answer(w)
    /\ UNCHANGED <<sessions, invitations, pendings, now>>

\* With the password, and a current code if one was typed.
DisableTOTP(w) ==
    /\ MayOpen(w, "2fa")
    /\ users[User(w)].factor
    /\ UpdateTOTP(User(w), FALSE, None)
    /\ codes' = Without(codes, CodesOf(User(w)))
    /\ Answer(w)
    /\ UNCHANGED <<sessions, invitations, issued, pendings, now>>

RegenerateBackupCodes(w) ==
    /\ MayOpen(w, "2fa")
    /\ users[User(w)].factor
    /\ IssueBackupCodes(User(w), CodesOf(User(w)))
    /\ Answer(w)
    /\ UNCHANGED <<users, sessions, invitations, pendings, now>>

\* With the current password; the flag of a forced change is cleared.
ChangePassword(w) ==
    /\ MayOpen(w, "password")
    /\ SetUser(User(w), [users[User(w)] EXCEPT !.mustChange = FALSE])
    /\ Answer(w)
    /\ UNCHANGED <<sessions, invitations, codes, issued, pendings, now>>

\* With the password, to an address nobody has (UNIQUE), one's own included.
ChangeEmail(w) ==
    /\ MayOpen(w, "email")
    /\ \E e \in Emails :
         /\ EmailTaken(e) => users[User(w)].email = e
         /\ SetUser(User(w), [users[User(w)] EXCEPT !.email = e])
    /\ Answer(w)
    /\ UNCHANGED <<sessions, invitations, codes, issued, pendings, now>>

\* DELETE scoped to the user: another user's session is not found.
RevokeSession(w) ==
    /\ MayOpen(w, "sessions")
    /\ \E s \in SessionsOf(User(w)) : DeleteSessions({s})
    /\ Answer(w)
    /\ UNCHANGED <<users, invitations, codes, issued, pendings, now>>

\* The list is read for the id to keep: 0 when the cookie's row is gone.
ListSessions(w) ==
    /\ MayOpen(w, "sessions")
    /\ Become(w, [at |-> "revoking", user |-> User(w),
                  keep |-> IF requests[w].session \in SessionsOf(User(w))
                           THEN requests[w].session ELSE 0])
    /\ UNCHANGED <<users, sessions, invitations, codes, issued, pendings, now>>

RevokeOthers(w) ==
    /\ At(w, "revoking")
    /\ DeleteSessions(SessionsOf(User(w)) \ {requests[w].keep})
    /\ Answer(w)
    /\ UNCHANGED <<users, invitations, codes, issued, pendings, now>>

CredentialsNext(w) ==
    \/ BeginTOTPEnrolment(w) \/ StoreSecret(w) \/ ConfirmTOTP(w)
    \/ DisableTOTP(w) \/ RegenerateBackupCodes(w)
    \/ ChangePassword(w) \/ ChangeEmail(w)
    \/ RevokeSession(w) \/ ListSessions(w) \/ RevokeOthers(w)
=============================================================================
