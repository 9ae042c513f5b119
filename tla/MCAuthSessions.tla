--------------------------- MODULE MCAuthSessions ---------------------------
(* TLC instances of AuthSessions.  Each cfg chooses the operations that     *)
(* compete and how the account starts.                                      *)
EXTENDS AuthSessions, TLC

CONSTANTS r1, r2

NoAccount ==
    [exists |-> FALSE, staff |-> FALSE, active |-> FALSE, failed |-> 0,
     email |-> FALSE, totp |-> FALSE, mfa |-> FALSE]

\* A verified member of staff, and an account of the time of authenticators.
Verified == [NoAccount EXCEPT !.exists = TRUE, !.staff = TRUE, !.active = TRUE,
                              !.email = TRUE, !.mfa = TRUE]

Legacy == [NoAccount EXCEPT !.exists = TRUE, !.active = TRUE, !.totp = TRUE, !.mfa = TRUE]

\* The compatibility flag without any method: it needs the administrator.
Stranded == [NoAccount EXCEPT !.exists = TRUE, !.active = TRUE, !.mfa = TRUE]

MCStaff == {NoAccount, Verified}

MCUnverified == {NoAccount, Legacy, Stranded}

\* Request slots are interchangeable.
Slots == Permutations(Request)
=============================================================================
