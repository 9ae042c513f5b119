---------------------------- MODULE AuthAccounts ----------------------------
(***************************************************************************)
(* Sign-in of one account: passwords, email codes, the transition of an    *)
(* authenticator account, sessions and password recovery.  Accounts share  *)
(* no rows, so one account stands for each of them.                        *)
(*                                                                         *)
(* A request is one transaction.  refresh, logout and the password reset   *)
(* first find their row by a token, without a lock; then every handler     *)
(* locks the users row and reads its rows again, and its writes appear     *)
(* together when it commits.  The audit of a failure bears the time at     *)
(* which its transaction began, before the wait for the users row.         *)
(***************************************************************************)
EXTENDS Integers, FiniteSets, FiniteSetsExt

CONSTANTS
    None,
    Request,          \* transactions open at once
    Operations,       \* the operations of a run
    InitialAccounts,  \* the accounts a run may start with
    Session,          \* the ids of session rows, taken in order
    Reset,            \* the ids of password_resets rows, taken in order
    MaxFailed,        \* max_failed_login_attempts
    LockTime,         \* account_lock_minutes, in ticks
    ResendTime,       \* email_resend_seconds
    CodeTime,         \* life of a code, five minutes
    ChallengeTime,    \* life of an email challenge, thirty minutes
    TotpTime,         \* mfa_challenge_expire_minutes
    TokenTime,        \* refresh_token_expire_days
    ResetTime,        \* life of a recovery token, fifteen minutes
    ResetPause,       \* the pause between two recovery mails, five minutes
    HourTime,         \* one hour
    MaxSends          \* email_max_sends_per_hour

\* The users row with the sign-in methods of the account.
Accounts == [exists : BOOLEAN, staff : BOOLEAN, active : BOOLEAN, failed : 0..MaxFailed,
             email : BOOLEAN, totp : BOOLEAN, mfa : BOOLEAN]

ASSUME AuthAssumption ==
    /\ Session \subseteq Nat \ {0} /\ IsFiniteSet(Session)
    /\ Reset \subseteq Nat \ {0} /\ IsFiniteSet(Reset)
    /\ None \notin Request /\ None \notin Nat
    /\ {MaxFailed, LockTime, ResendTime, CodeTime, ChallengeTime, TotpTime, TokenTime,
        ResetTime, ResetPause, HourTime, MaxSends} \subseteq Nat \ {0}
    /\ ResetPause <= ResetTime
    /\ InitialAccounts \subseteq {a \in Accounts : a.failed = 0 /\ (a.totp => a.exists)}

VARIABLES
    account,     \* the users row, with the methods it may sign in with
    locked,      \* locked_until: None, or the ticks until it is reached
    totpUnused,  \* the current authenticator step was not consumed yet
    session,     \* auth_sessions
    challenge,   \* email_auth_challenges, keyed by the session
    pause,       \* ticks until another email code may be sent
    sends,       \* email codes attempted, by age in ticks
    failures,    \* audited verification failures, by age in ticks
    reset,       \* password_resets
    request,     \* what each open transaction is doing
    userLock,    \* the transaction that holds the users row
    guesses,     \* history: wrong codes that were compared, by the age of their transaction
    proven,      \* history: the authenticator of the account was used
    since,       \* history: rows that go back to a password of after the last reset or change
    signedOut    \* history: families whose end was answered

accountVars == <<account, locked, totpUnused>>
sessionVars == <<session, challenge>>
mailVars == <<pause, sends>>
historyVars == <<guesses, proven, since, signedOut>>
dataVars == <<accountVars, sessionVars, mailVars, failures, reset, historyVars>>
authVars == <<dataVars, request, userLock>>

-----------------------------------------------------------------------------
SessionKinds == {"none", "email", "totp", "token"}

Sessions == [kind : SessionKinds, revoked : BOOLEAN, life : Nat,
             replaced : Session \cup {0}, family : Session \cup {0}]

NoSession == [kind |-> "none", revoked |-> FALSE, life |-> 0,
              replaced |-> 0, family |-> 0]

Purposes == {"none", "login", "register", "transition"}

Challenges == [purpose : Purposes, state : {"none", "accepted", "failed"}, life : Nat]

NoChallenge == [purpose |-> "none", state |-> "none", life |-> 0]

NoReset == [life |-> 0, used |-> TRUE, sent |-> FALSE]

Idle == [op |-> "idle", at |-> "idle", arg |-> 0, user |-> None, row |-> NoSession, age |-> 1]

AuthInit ==
    /\ account \in InitialAccounts
    /\ locked = None
    /\ totpUnused = TRUE
    /\ session = [n \in Session |-> NoSession]
    /\ challenge = [n \in Session |-> NoChallenge]
    /\ pause = 0
    /\ sends = [age \in 1..HourTime |-> 0]
    /\ failures = [age \in 1..LockTime |-> 0]
    /\ reset = [r \in Reset |-> NoReset]
    /\ request = [p \in Request |-> Idle]
    /\ userLock = None
    /\ guesses = [age \in 1..LockTime |-> 0]
    /\ proven = FALSE
    /\ since = {}
    /\ signedOut = {}

-----------------------------------------------------------------------------
\* Events of the last ticks: what is older than the window is forgotten, and
\* more than the limit makes no difference.
Total(counts) == MapThenSumSet(LAMBDA age : counts[age], DOMAIN counts)

Counted(counts, age, limit) ==
    [a \in DOMAIN counts |-> IF a = age /\ counts[a] < limit THEN counts[a] + 1 ELSE counts[a]]

Older(counts) == [age \in DOMAIN counts |-> IF age = 1 THEN 0 ELSE counts[age - 1]]

Less(ticks) == IF ticks = 0 THEN 0 ELSE ticks - 1

\* The next row of a table.
NextId(n, S, used(_)) == ~used(n) /\ \A m \in S : m < n => used(m)

FreshSession(n) == n \in Session /\ NextId(n, Session, LAMBDA m : session[m].kind # "none")

FreshReset(r) == r \in Reset /\ NextId(r, Reset, LAMBDA m : reset[m].sent)

Eligible(user) == user.active /\ locked \in {None, 0}

Authenticated(user) == user.email \/ user.totp

\* What the bearer dependency accepts: a session that was not revoked and did
\* not expire, of an active account with a verified method.
Open(row) == row.kind # "none" /\ ~row.revoked /\ row.life > 0

Usable(n) == session[n].kind = "token" /\ Open(session[n])

Accepted(n) ==
    /\ Usable(n)
    /\ account.active /\ account.mfa /\ Authenticated(account)

-----------------------------------------------------------------------------
\* The end of a transaction.
Finish(p) ==
    /\ request' = [request EXCEPT ![p] = Idle]
    /\ userLock' = IF userLock = p THEN None ELSE userLock

\* An error answer: nothing is kept.
Rollback(p) ==
    /\ Finish(p)
    /\ UNCHANGED dataVars

\* Mutant: the audit of a failure is rolled back with the request.
DenyMutant(p, guessed) ==
    /\ guesses' = IF guessed THEN Counted(guesses, request[p].age, MaxFailed + 1) ELSE guesses
    /\ UNCHANGED <<accountVars, sessionVars, mailVars, failures, reset, proven, since, signedOut>>
    /\ Finish(p)

\* deny() commits the audit of a failed verification and what was done before it.
\* occurred_at is now(), the start of the transaction: after a long wait the
\* failure is old when it is written, or has already left the window.
Deny(p, guessed) ==
    /\ failures' = Counted(failures, request[p].age, MaxFailed)
    /\ guesses' = IF guessed THEN Counted(guesses, request[p].age, MaxFailed + 1) ELSE guesses
    /\ UNCHANGED <<accountVars, sessionVars, mailVars, reset, proven, since, signedOut>>
    /\ Finish(p)

\* A code that was refused: the last failure allowed locks the account.
RefuseCode(p, guessed) ==
    IF Total(failures) + 1 < MaxFailed
      THEN Deny(p, guessed)
      ELSE /\ locked' = LockTime
           /\ failures' = Counted(failures, request[p].age, MaxFailed)
           /\ guesses' = IF guessed THEN Counted(guesses, request[p].age, MaxFailed + 1) ELSE guesses
           /\ UNCHANGED <<account, totpUnused, sessionVars, mailVars, reset, proven, since, signedOut>>
           /\ Finish(p)

\* The session that issue_tokens adds, as a successor of a token session or as
\* the first of a family.
TokenRow(n, previous) ==
    [kind |-> "token", revoked |-> FALSE, life |-> TokenTime, replaced |-> 0,
     family |-> IF previous # 0 /\ session[previous].kind = "token"
                  THEN session[previous].family ELSE n]

IssueTokens(n, previous) ==
    /\ FreshSession(n)
    /\ session' = [m \in Session |->
            IF m = n THEN TokenRow(n, previous)
            ELSE IF m = previous
              THEN [session[m] EXCEPT !.revoked = TRUE, !.replaced = n]
              ELSE session[m]]
    /\ since' = IF previous = 0 \/ previous \in since THEN since \cup {n} ELSE since

RevokedIf(revoke(_)) ==
    [m \in Session |-> [session[m] EXCEPT !.revoked = @ \/ revoke(m)]]

\* Every session of the account ends, challenges included.
RevokeAll == RevokedIf(LAMBDA m : session[m].kind # "none")

\* Mutant: only the presented session is revoked.
RotatedIntoMutant(n) == {n}

\* n and the sessions that replaced it, in turn: the recursive query, whose
\* rounds end with the rows of the table.
RotatedInto(n) ==
    LET chain[k \in 0..Cardinality(Session)] ==
            IF k = 0 THEN {n}
            ELSE chain[k - 1] \cup {session[m].replaced : m \in chain[k - 1] \ {0}}
    IN  chain[Cardinality(Session)] \ {0}

RevokeChain(n) == RevokedIf(LAMBDA m : m \in RotatedInto(n))

-----------------------------------------------------------------------------
(***************************************************************************)
(* EmailFlow.send: at most one challenge of the account stays open.  The   *)
(* attempt is kept even when the mail server does not confirm it.          *)
(***************************************************************************)
SendLimited == pause > 0 \/ Total(sends) >= MaxSends

\* Mutant: only the challenges whose code expired are replaced.
SupersededMutant(m) == challenge[m].purpose # "none" /\ challenge[m].life = 0

Superseded(m) == challenge[m].purpose # "none"

\* The sessions after a send in row n; consumed is the authenticator challenge
\* that authorized it, or 0.
Send(n, purpose, delivered, consumed) ==
    /\ ~SendLimited
    /\ FreshSession(n)
    /\ session' = [RevokedIf(LAMBDA m : Superseded(m) \/ m = consumed)
            EXCEPT ![n] = [kind |-> "email", revoked |-> ~delivered, life |-> ChallengeTime,
                           replaced |-> 0, family |-> 0]]
    /\ challenge' = [challenge EXCEPT ![n] =
            [purpose |-> purpose, state |-> IF delivered THEN "accepted" ELSE "failed",
             life |-> CodeTime]]
    /\ pause' = ResendTime
    /\ sends' = Counted(sends, 1, MaxSends)
    /\ since' = since \cup {n}

\* Mutant: an authenticator account gets the transition code for its password.
ChallengeMutant(user) ==
    \/ user.totp /\ \E n \in Session, delivered \in BOOLEAN : Send(n, "transition", delivered, 0)
    \/ /\ ~user.totp /\ ~user.mfa
       /\ \E n \in Session, delivered \in BOOLEAN : Send(n, "register", delivered, 0)

\* AuthService.challenge after the password was verified.
Challenge(user) ==
    \/ /\ user.totp
       /\ \E n \in Session :
            /\ FreshSession(n)
            /\ session' = [session EXCEPT ![n] =
                    [kind |-> "totp", revoked |-> FALSE, life |-> TotpTime,
                     replaced |-> 0, family |-> 0]]
            /\ since' = since \cup {n}
       /\ UNCHANGED <<challenge, mailVars>>
    \/ /\ ~user.totp /\ (user.mfa => user.email)
       /\ \E n \in Session, delivered \in BOOLEAN :
            Send(n, IF user.email THEN "login" ELSE "register", delivered, 0)

\* The challenge is refused without a trace: 403, or 429 before the next send.
ChallengeRefused(user) ==
    /\ ~user.totp
    /\ (user.mfa /\ ~user.email) \/ SendLimited
=============================================================================
