---------------------------- MODULE AuthSessions ----------------------------
(***************************************************************************)
(* The handlers of AuthService, EmailFlow, RecoveryService and the staff   *)
(* administration as transactions on one account, with the clock and the   *)
(* failures that may interrupt them.                                       *)
(***************************************************************************)
EXTENDS AuthAccounts

Locked(p, op) == request[p].op = op /\ request[p].at = "locked"

\* Mutant: the row found before the lock is used, it is not read again.
RereadMutant(p, n) == request[p].row

Reread(p, n) == session[n]

\* The handlers whose failures are audited.
CodeOperations == {"verify_email", "resend_email", "verify_login"}

\* A transaction begins: the row of a token is looked up without a lock, the
\* token of a challenge is decoded, a registration finds the name free.
Lookup(p) ==
    /\ request[p] = Idle
    /\ \E op \in Operations \cap ({"refresh", "logout", "reset", "register"} \cup CodeOperations),
          n \in Session \cup Reset \cup {0} :
         /\ CASE op \in {"refresh", "logout"} -> n \in Session /\ session[n].kind = "token"
              [] op = "reset" -> n \in Reset /\ reset[n].sent
              [] op \in {"verify_email", "resend_email"} ->
                    n \in Session /\ session[n].life > 0 /\ challenge[n].state = "accepted"
              [] op = "verify_login" ->
                    n \in Session /\ session[n].kind = "totp" /\ session[n].life > 0
              [] OTHER -> n = 0 /\ ~account.exists
         /\ request' = [request EXCEPT ![p] =
                [op |-> op, at |-> "found", arg |-> n, user |-> None,
                 row |-> IF op \in {"refresh", "logout"} THEN session[n] ELSE NoSession,
                 age |-> 1]]
    /\ UNCHANGED <<dataVars, userLock>>

\* The operations that begin with the lock of the users row, and their token.
Direct(op, n) ==
    CASE op \in {"login", "request_reset"} -> n = 0 /\ account.exists
      [] op = "change_staff" -> n = 0 /\ account.exists /\ account.staff
      [] op = "create_staff" -> n = 0 /\ ~account.exists
      [] OTHER -> FALSE

\* Mutant: the users row is read without FOR UPDATE.
LockUserMutant(p) ==
    /\ \E op \in Operations, n \in Session \cup Reset \cup {0} :
         /\ \/ request[p] = Idle /\ Direct(op, n)
            \/ request[p].at = "found" /\ request[p].op = op /\ request[p].arg = n
         /\ op = "register" => ~account.exists
         /\ request' = [request EXCEPT ![p] =
                [op |-> op, at |-> "locked", arg |-> n, user |-> account,
                 row |-> IF n \in Session /\ op # "reset" THEN Reread(p, n) ELSE NoSession,
                 age |-> request[p].age]]
    /\ UNCHANGED <<dataVars, userLock>>

\* The users row is locked (or the new one inserted), and read with the row of
\* the token.
LockUser(p) ==
    /\ userLock = None
    /\ userLock' = p
    /\ \E op \in Operations, n \in Session \cup Reset \cup {0} :
         /\ \/ request[p] = Idle /\ Direct(op, n)
            \/ request[p].at = "found" /\ request[p].op = op /\ request[p].arg = n
         /\ op = "register" => ~account.exists
         /\ request' = [request EXCEPT ![p] =
                [op |-> op, at |-> "locked", arg |-> n, user |-> account,
                 row |-> IF n \in Session /\ op # "reset" THEN Reread(p, n) ELSE NoSession,
                 age |-> request[p].age]]
    /\ UNCHANGED dataVars

\* The name was taken meanwhile: the unique index answers 409.
RegisterConflict(p) ==
    /\ request[p].op = "register" /\ request[p].at = "found"
    /\ userLock = None /\ account.exists
    /\ Rollback(p)

\* A crash, a lost connection or an error of the database: 503.
Fail(p) ==
    /\ request[p] # Idle
    /\ Rollback(p)

-----------------------------------------------------------------------------
NewAccount(staff) ==
    [exists |-> TRUE, staff |-> staff, active |-> TRUE, failed |-> 0,
     email |-> FALSE, totp |-> FALSE, mfa |-> FALSE]

Register(p) ==
    /\ Locked(p, "register")
    /\ account' = NewAccount(FALSE)
    /\ Challenge(NewAccount(FALSE))
    /\ Finish(p)
    /\ UNCHANGED <<locked, totpUnused, failures, reset, guesses, proven, signedOut>>

CreateStaff(p) ==
    /\ Locked(p, "create_staff")
    /\ account' = NewAccount(TRUE)
    /\ Finish(p)
    /\ UNCHANGED <<locked, totpUnused, sessionVars, mailVars, failures, reset, historyVars>>

\* Mutant: the attempts are not given back when the lock has run out.
FailedSoFarMutant(user) == user.failed

\* A lock that has run out gives the attempts back.
FailedSoFar(user) == IF locked = 0 THEN 0 ELSE user.failed

\* Mutant: a refused attempt starts the lock anew.
LoginDeniedMutant(p) ==
    /\ Locked(p, "login")
    /\ ~Eligible(request[p].user)
    /\ locked' = LockTime
    /\ Finish(p)
    /\ UNCHANGED <<account, totpUnused, sessionVars, mailVars, failures, reset, historyVars>>

LoginDenied(p) ==
    /\ Locked(p, "login")
    /\ ~Eligible(request[p].user)
    /\ Rollback(p)

WrongPassword(p) ==
    /\ Locked(p, "login")
    /\ LET user == request[p].user
           attempts == FailedSoFar(user) + 1
       IN  /\ Eligible(user)
           /\ account' = [account EXCEPT !.failed = attempts]
           /\ locked' = IF attempts >= MaxFailed THEN LockTime ELSE None
    /\ Finish(p)
    /\ UNCHANGED <<totpUnused, sessionVars, mailVars, failures, reset, historyVars>>

\* With the right password a verified account is signed in; any other account
\* gets a challenge, and keeps its failed attempts if that is refused.
RightPassword(p) ==
    /\ Locked(p, "login")
    /\ LET user == request[p].user
       IN  /\ Eligible(user)
           /\ \/ /\ user.email /\ ~user.totp
                 /\ \E n \in Session : IssueTokens(n, 0)
                 /\ UNCHANGED <<challenge, mailVars>>
              \/ ~(user.email /\ ~user.totp) /\ Challenge(user)
    /\ account' = [account EXCEPT !.failed = 0]
    /\ locked' = None
    /\ Finish(p)
    /\ UNCHANGED <<totpUnused, failures, reset, guesses, proven, signedOut>>

LoginRefused(p) ==
    /\ Locked(p, "login")
    /\ LET user == request[p].user
       IN  Eligible(user) /\ ~(user.email /\ ~user.totp) /\ ChallengeRefused(user)
    /\ Rollback(p)

-----------------------------------------------------------------------------
\* validate_challenge under the lock: an eligible account and an open session.
ValidChallenge(p) == Eligible(request[p].user) /\ Open([request[p].row EXCEPT !.life = session[request[p].arg].life])

\* The code of an open challenge can be compared at all.
Comparable(p) == challenge[request[p].arg].life > 0 /\ Total(failures) < MaxFailed

\* The right code does not help an account that lost its methods, or one that
\* has to use its authenticator first.
OtherMethodNeeded(p) ==
    LET user == request[p].user
    IN  \/ user.mfa /\ ~user.totp /\ ~user.email
        \/ user.totp /\ challenge[request[p].arg].purpose # "transition"

ChallengeDenied(p) ==
    /\ request[p].at = "locked"
    /\ request[p].op \in CodeOperations
    /\ \/ ~ValidChallenge(p)
       \/ request[p].op = "verify_email" /\ Comparable(p) /\ OtherMethodNeeded(p)
    /\ Deny(p, FALSE)

\* The code is expired, wrong, or comes after too many failures.
WrongCode(p) ==
    /\ Locked(p, "verify_email") /\ ValidChallenge(p)
    /\ RefuseCode(p, Comparable(p))

VerifyEmail(p) ==
    /\ Locked(p, "verify_email") /\ ValidChallenge(p)
    /\ Comparable(p) /\ ~OtherMethodNeeded(p)
    /\ LET user == request[p].user
           old == request[p].arg
       IN  \E n \in Session :
                IF user.totp
                  THEN /\ FreshSession(n)
                       /\ session' = [RevokeAll EXCEPT ![n] = TokenRow(n, old),
                                                       ![old].replaced = n]
                       /\ since' = {n}
                  ELSE IssueTokens(n, old)
    /\ account' = [account EXCEPT !.email = TRUE, !.mfa = TRUE, !.totp = FALSE]
    /\ Finish(p)
    /\ UNCHANGED <<locked, totpUnused, challenge, mailVars, failures, reset, guesses, proven, signedOut>>

ResendEmail(p) ==
    /\ Locked(p, "resend_email") /\ ValidChallenge(p)
    /\ \/ SendLimited /\ Rollback(p)
       \/ /\ \E n \in Session, delivered \in BOOLEAN :
                Send(n, challenge[request[p].arg].purpose, delivered, 0)
          /\ Finish(p)
          /\ UNCHANGED <<accountVars, failures, reset, guesses, proven, signedOut>>

-----------------------------------------------------------------------------
\* The authenticator code of an account in transition.
WrongTotp(p) ==
    /\ Locked(p, "verify_login") /\ ValidChallenge(p)
    /\ LET user == request[p].user
       IN  IF user.totp /\ user.mfa
             THEN RefuseCode(p, Total(failures) < MaxFailed)
             ELSE Deny(p, FALSE)

VerifyTotp(p) ==
    /\ Locked(p, "verify_login") /\ ValidChallenge(p)
    /\ request[p].user.totp /\ request[p].user.mfa
    /\ totpUnused /\ Total(failures) < MaxFailed
    /\ \/ SendLimited /\ Rollback(p)
       \/ /\ \E n \in Session, delivered \in BOOLEAN :
                Send(n, "transition", delivered, IF delivered THEN request[p].arg ELSE 0)
          /\ totpUnused' = FALSE
          /\ proven' = TRUE
          /\ Finish(p)
          /\ UNCHANGED <<account, locked, failures, reset, guesses, signedOut>>

-----------------------------------------------------------------------------
\* The row of a refresh token, as it was read under the lock.
Expired(p) == session[request[p].arg].life = 0

RefreshDenied(p) ==
    /\ Locked(p, "refresh")
    /\ LET user == request[p].user
           row == request[p].row
       IN  \/ Expired(p)
           \/ row.revoked /\ row.replaced = 0
           \/ ~row.revoked /\ ~(Eligible(user) /\ user.mfa /\ Authenticated(user))
    /\ Rollback(p)

\* A token that was replaced is presented again: its family ends.
RefreshReused(p) ==
    /\ Locked(p, "refresh") /\ ~Expired(p)
    /\ request[p].row.revoked /\ request[p].row.replaced # 0
    /\ session' = RevokeChain(request[p].arg)
    /\ signedOut' = signedOut \cup {session[request[p].arg].family}
    /\ Finish(p)
    /\ UNCHANGED <<accountVars, challenge, mailVars, failures, reset, guesses, proven, since>>

Refresh(p) ==
    /\ Locked(p, "refresh") /\ ~Expired(p)
    /\ LET user == request[p].user
       IN  /\ ~request[p].row.revoked
           /\ Eligible(user) /\ user.mfa /\ Authenticated(user)
    /\ \E n \in Session : IssueTokens(n, request[p].arg)
    /\ Finish(p)
    /\ UNCHANGED <<accountVars, challenge, mailVars, failures, reset, guesses, proven, signedOut>>

Logout(p) ==
    /\ Locked(p, "logout")
    /\ IF Expired(p)
         THEN UNCHANGED <<session, signedOut>>
         ELSE /\ session' = RevokeChain(request[p].arg)
              /\ signedOut' = signedOut \cup {session[request[p].arg].family}
    /\ Finish(p)
    /\ UNCHANGED <<accountVars, challenge, mailVars, failures, reset, guesses, proven, since>>

-----------------------------------------------------------------------------
\* One recovery mail within the pause; a token that may not have been mailed
\* is used up at once.
RequestReset(p) ==
    /\ Locked(p, "request_reset")
    /\ LET recent == \E r \in Reset : reset[r].sent /\ reset[r].life > ResetTime - ResetPause
       IN  \/ (recent \/ ~request[p].user.active \/ ~request[p].user.email) /\ Rollback(p)
           \/ /\ ~recent /\ request[p].user.active /\ request[p].user.email
              /\ \E r \in Reset, delivered \in BOOLEAN :
                   /\ FreshReset(r)
                   /\ reset' = [reset EXCEPT ![r] =
                        [life |-> ResetTime, used |-> ~delivered, sent |-> TRUE]]
              /\ Finish(p)
              /\ UNCHANGED <<accountVars, sessionVars, mailVars, failures, historyVars>>

\* A new password: the failed attempts, the lock, the other recovery tokens and
\* every session of the account end with it.
ResetPassword(p) ==
    /\ Locked(p, "reset")
    /\ LET r == request[p].arg
           user == request[p].user
       IN  IF ~user.active \/ ~user.email \/ reset[r].used \/ reset[r].life = 0
             THEN Rollback(p)
             ELSE /\ account' = [account EXCEPT !.failed = 0]
                  /\ locked' = None
                  /\ reset' = [x \in Reset |-> [reset[x] EXCEPT !.used = TRUE]]
                  /\ session' = RevokeAll
                  /\ since' = {}
                  /\ Finish(p)
                  /\ UNCHANGED <<totpUnused, challenge, mailVars, failures, guesses, proven, signedOut>>

ChangeStaff(p) ==
    /\ Locked(p, "change_staff")
    /\ \E active \in BOOLEAN : account' = [account EXCEPT !.active = active]
    /\ session' = RevokeAll
    /\ since' = {}
    /\ Finish(p)
    /\ UNCHANGED <<locked, totpUnused, challenge, mailVars, failures, reset, guesses, proven, signedOut>>

-----------------------------------------------------------------------------
\* A transaction older than the window; only a failure tells its age.
Aged(r) ==
    IF r.op \in CodeOperations /\ r.age <= LockTime THEN [r EXCEPT !.age = @ + 1] ELSE r

\* Time passes.
Tick ==
    /\ locked' = IF locked = None THEN None ELSE Less(locked)
    /\ totpUnused' = TRUE
    /\ session' = [n \in Session |-> [session[n] EXCEPT !.life = Less(@)]]
    /\ challenge' = [n \in Session |-> [challenge[n] EXCEPT !.life = Less(@)]]
    /\ pause' = Less(pause)
    /\ sends' = Older(sends)
    /\ failures' = Older(failures)
    /\ guesses' = Older(guesses)
    /\ reset' = [r \in Reset |-> [reset[r] EXCEPT !.life = Less(@)]]
    /\ request' = [p \in Request |-> Aged(request[p])]
    /\ UNCHANGED <<account, proven, since, signedOut, userLock>>

Step(p) ==
    \/ Lookup(p) \/ LockUser(p) \/ RegisterConflict(p) \/ Fail(p)
    \/ Register(p) \/ CreateStaff(p)
    \/ LoginDenied(p) \/ WrongPassword(p) \/ RightPassword(p) \/ LoginRefused(p)
    \/ ChallengeDenied(p) \/ WrongCode(p) \/ VerifyEmail(p) \/ ResendEmail(p)
    \/ WrongTotp(p) \/ VerifyTotp(p)
    \/ RefreshDenied(p) \/ RefreshReused(p) \/ Refresh(p) \/ Logout(p)
    \/ RequestReset(p) \/ ResetPassword(p) \/ ChangeStaff(p)

AuthNext == Tick \/ \E p \in Request : Step(p)

AuthSpec == AuthInit /\ [][AuthNext]_authVars /\ WF_authVars(Tick)

-----------------------------------------------------------------------------
AuthTypeOK ==
    /\ account \in Accounts
    /\ locked \in 0..LockTime \cup {None}
    /\ totpUnused \in BOOLEAN
    /\ session \in [Session -> Sessions]
    /\ challenge \in [Session -> Challenges]
    /\ pause \in 0..ResendTime
    /\ sends \in [1..HourTime -> 0..MaxSends]
    /\ failures \in [1..LockTime -> 0..MaxFailed]
    /\ reset \in [Reset -> [life : 0..ResetTime, used : BOOLEAN, sent : BOOLEAN]]
    /\ request \in [Request -> [op : Operations \cup {"idle"}, at : {"idle", "found", "locked"},
                                arg : Session \cup Reset \cup {0},
                                user : Accounts \cup {None}, row : Sessions,
                                age : 1..LockTime + 1]]
    /\ userLock \in Request \cup {None}
    /\ guesses \in [1..LockTime -> 0..MaxFailed + 1]
    /\ proven \in BOOLEAN
    /\ since \subseteq Session
    /\ signedOut \subseteq Session

\* Sessions rotate as SessionFamilies says, whatever refreshes, logouts, resets
\* and sign-ins run together (issue_tokens, revoke_session_chain, refresh).
Families == INSTANCE SessionFamilies WITH
    holder <- [f \in Session |-> {n \in Session : Usable(n) /\ session[n].family = f}],
    issued <- {n \in Session : session[n].kind = "token"}

ImplementsFamilies == Families!FamilySpec

\* After the answer of a logout, or of a refresh with a token that was replaced
\* (a client that lost an answer, or somebody else), no session of the family
\* is usable, whatever it is or was rotated into by parallel requests.
SignedOutStaysOut == \A n \in Session : Usable(n) => session[n].family \notin signedOut

\* After a password reset, a staff change or the switch of the method, nothing
\* that was signed in before can be used (recovery.py, administration, email_flow).
SignedInSince == \A n \in Session : Accepted(n) => n \in since

\* At most one email challenge is open: a code sent in one tab ends the others.
OneOpenChallenge ==
    \A m, n \in Session :
        /\ session[m].kind = "email" /\ Open(session[m])
        /\ session[n].kind = "email" /\ Open(session[n])
        => m = n

\* Of the requests that began within one lock window, no more than the limit
\* compare a wrong code, over all challenges, resends and parallel requests: the
\* failures a comparison counts are dated by the start of their transactions.
GuessesBounded == Total(guesses) <= MaxFailed

\* An account with an authenticator gets its email method only after a code of
\* the authenticator.
AuthenticatorFirst ==
    [][account.totp /\ ~account'.totp => proven]_authVars

\* A lock ends by itself: refused attempts do not extend it.
LockEnds == locked \notin {None, 0} ~> locked \in {None, 0}
=============================================================================
