----------------------------- MODULE AuthProofs -----------------------------
(***************************************************************************)
(* Sign-in for any number of sessions, requests and ticks: who is signed   *)
(* in, the rotation of refresh tokens as SessionFamilies describes it, and *)
(* the challenges that lead there.                                         *)
(***************************************************************************)
EXTENDS AuthSessions, TLAPS

-----------------------------------------------------------------------------
(***************************************************************************)
(* The inductive invariant.                                                *)
(***************************************************************************)
TokenOps == {"refresh", "logout"}

CodeOps == {"verify_email", "resend_email"}

\* A lock is set before the last attempt is used up, and only accounts that
\* exist have an authenticator.
AccountKept ==
    /\ locked = None => account.failed < MaxFailed
    /\ account.totp => account.exists

\* A transaction found its row before the lock; the row stays.
FoundRow ==
    \A p \in Request : request[p].at = "found" =>
        /\ request[p].op \in TokenOps \cup CodeOperations \cup {"reset", "register"}
        /\ request[p].op \in TokenOps =>
              request[p].arg \in Session /\ session[request[p].arg].kind = "token"
        /\ request[p].op \in CodeOps =>
              request[p].arg \in Session /\ session[request[p].arg].kind = "email"
        /\ request[p].op = "verify_login" =>
              request[p].arg \in Session /\ session[request[p].arg].kind = "totp"
        /\ request[p].op = "reset" => request[p].arg \in Reset

\* Who holds the users row has read it, and the row of its token, as they are.
LockedRead ==
    \A p \in Request : request[p].at = "locked" =>
        /\ userLock = p
        /\ request[p].user = account
        /\ request[p].op \in {"register", "create_staff"} => ~account.exists
        /\ request[p].op = "reset" => request[p].arg \in Reset
        /\ request[p].op \in TokenOps =>
              request[p].arg \in Session /\ session[request[p].arg].kind = "token"
        /\ request[p].op \in CodeOps =>
              request[p].arg \in Session /\ challenge[request[p].arg].purpose # "none"
        /\ request[p].op = "verify_login" =>
              request[p].arg \in Session /\ session[request[p].arg].kind = "totp"
        /\ request[p].op \in TokenOps \cup CodeOps \cup {"verify_login"} =>
              /\ request[p].row.kind = session[request[p].arg].kind
              /\ request[p].row.revoked = session[request[p].arg].revoked

\* The rows of auth_sessions and email_auth_challenges fit together.
RowsFit ==
    /\ \A n \in Session :
          /\ session[n].kind = "email" <=> challenge[n].purpose # "none"
          /\ challenge[n].state = "accepted" => challenge[n].purpose # "none"
          /\ challenge[n].purpose = "transition" => proven
          /\ session[n].kind = "token" =>
                session[n].family \in Session /\ session[session[n].family].kind = "token"
          /\ session[n].kind # "none" /\ ~session[n].revoked => n \in since
    /\ \A m, n \in Session :
          /\ session[m].kind \in {"token", "email"} /\ session[n].kind = session[m].kind
          /\ session[m].kind = "token" => session[m].family = session[n].family
          /\ ~session[m].revoked /\ ~session[n].revoked
          => m = n

AuthInv == AuthTypeOK /\ AccountKept /\ FoundRow /\ LockedRead /\ RowsFit

-----------------------------------------------------------------------------
(***************************************************************************)
(* The rows.  A step lets rows fade, or adds one and lets others fade.     *)
(***************************************************************************)
RequestTable ==
    [Request -> [op : Operations \cup {"idle"}, at : {"idle", "found", "locked"},
                 arg : Session \cup Reset \cup {0},
                 user : Accounts \cup {None}, row : Sessions,
                 age : 1..LockTime + 1]]

\* What the rows of the step keep.
RowsTyped ==
    /\ session \in [Session -> Sessions]
    /\ challenge \in [Session -> Challenges]
    /\ since \subseteq Session

\* Row m is what it was, or was revoked.
Fades(m) ==
    /\ session'[m].kind = session[m].kind
    /\ session'[m].family = session[m].family
    /\ ~session'[m].revoked => ~session[m].revoked
    /\ challenge'[m].purpose = challenge[m].purpose
    /\ challenge'[m].state = challenge[m].state
    /\ session'[m].kind # "none" /\ ~session'[m].revoked => m \in since'

LEMMA RowsFade ==
    ASSUME RowsTyped, RowsFit, RowsTyped', proven => proven',
           \A m \in Session : Fades(m)
    PROVE  RowsFit'
  <1>1. \A n \in Session :
          /\ session'[n].kind = "email" <=> challenge'[n].purpose # "none"
          /\ challenge'[n].state = "accepted" => challenge'[n].purpose # "none"
          /\ challenge'[n].purpose = "transition" => proven'
          /\ session'[n].kind = "token" =>
                session'[n].family \in Session /\ session'[session'[n].family].kind = "token"
          /\ session'[n].kind # "none" /\ ~session'[n].revoked => n \in since'
    BY DEF Fades, RowsFit
  <1>2. \A m, n \in Session :
          /\ session'[m].kind \in {"token", "email"} /\ session'[n].kind = session'[m].kind
          /\ session'[m].kind = "token" => session'[m].family = session'[n].family
          /\ ~session'[m].revoked /\ ~session'[n].revoked
          => m = n
    BY DEF Fades, RowsFit
  <1>3. QED
    BY <1>1, <1>2 DEF RowsFit

\* The row n is new; of its kind (and family) it is the only one that is not revoked.
Added(n) ==
    /\ session[n].kind = "none" /\ session'[n].kind # "none"
    /\ n \in since'
    /\ session'[n].kind = "email" <=> challenge'[n].purpose # "none"
    /\ challenge'[n].state = "accepted" => challenge'[n].purpose # "none"
    /\ challenge'[n].purpose = "transition" => proven'
    /\ session'[n].kind = "token" =>
          \/ session'[n].family = n
          \/ /\ session'[n].family \in Session \ {n}
             /\ session[session'[n].family].kind = "token"
    /\ \A m \in Session \ {n} :
          /\ session[m].kind \in {"token", "email"} /\ session[m].kind = session'[n].kind
          /\ session[m].kind = "token" => session[m].family = session'[n].family
          => session'[m].revoked

LEMMA RowAdded ==
    ASSUME RowsTyped, RowsFit, RowsTyped', proven => proven',
           NEW n \in Session, Added(n),
           \A m \in Session \ {n} : Fades(m)
    PROVE  RowsFit'
  <1>1. \A m \in Session :
          /\ session'[m].kind = "email" <=> challenge'[m].purpose # "none"
          /\ challenge'[m].state = "accepted" => challenge'[m].purpose # "none"
          /\ challenge'[m].purpose = "transition" => proven'
          /\ session'[m].kind # "none" /\ ~session'[m].revoked => m \in since'
    BY DEF Fades, Added, RowsFit
  <1>2. ASSUME NEW m \in Session, session'[m].kind = "token"
        PROVE  session'[m].family \in Session /\ session'[session'[m].family].kind = "token"
    <2>1. CASE m = n
      BY <1>2, <2>1 DEF Fades, Added
    <2>2. CASE m # n
      <3>1. session[m].family \in Session /\ session[session[m].family].kind = "token"
        BY <1>2, <2>2 DEF Fades, RowsFit
      <3>2. session[m].family # n
        BY <3>1 DEF Added
      <3>3. QED
        BY <2>2, <3>1, <3>2 DEF Fades
    <2>3. QED
      BY <2>1, <2>2
  <1>3. ASSUME NEW k \in Session, NEW m \in Session,
               session'[k].kind \in {"token", "email"}, session'[m].kind = session'[k].kind,
               session'[k].kind = "token" => session'[k].family = session'[m].family,
               ~session'[k].revoked, ~session'[m].revoked
        PROVE  k = m
    <2>1. CASE k # n /\ m # n
      BY <1>3, <2>1 DEF Fades, RowsFit
    <2>2. CASE k = n /\ m # n
      BY <1>3, <2>2 DEF Fades, Added
    <2>3. CASE k # n /\ m = n
      BY <1>3, <2>3 DEF Fades, Added
    <2>4. QED
      BY <2>1, <2>2, <2>3
  <1>4. QED
    BY <1>1, <1>2, <1>3 DEF RowsFit

\* Counters of events keep their bounds.
LEMMA CountedTyped ==
    ASSUME NEW K \in Nat \ {0}, NEW M \in Nat, NEW counts \in [1..K -> 0..M]
    PROVE  /\ \A age : Counted(counts, age, M) \in [1..K -> 0..M]
           /\ Older(counts) \in [1..K -> 0..M]
  <1>1. \A a \in 1..K : counts[a] \in 0..M /\ (counts[a] < M => counts[a] + 1 \in 0..M)
    OBVIOUS
  <1>2. \A age : Counted(counts, age, M) \in [1..K -> 0..M]
    BY <1>1 DEF Counted
  <1>3. \A age \in 1..K : age # 1 => age - 1 \in 1..K
    OBVIOUS
  <1>4. Older(counts) \in [1..K -> 0..M]
    BY <1>3 DEF Older
  <1>5. QED
    BY <1>2, <1>4

-----------------------------------------------------------------------------
(***************************************************************************)
(* What the operators that write the rows do to them.                      *)
(***************************************************************************)
LEMMA RowsOfInv ==
    ASSUME AuthInv
    PROVE  RowsTyped /\ RowsFit
  BY DEF AuthInv, AuthTypeOK, RowsTyped

\* A code is sent: one open challenge, for a purpose that was earned.
LEMMA Sent ==
    ASSUME AuthInv, NEW n \in Session, NEW delivered \in BOOLEAN,
           NEW purpose \in {"login", "register", "transition"},
           NEW consumed \in Session \cup {0},
           Send(n, purpose, delivered, consumed),
           proven => proven', purpose = "transition" => proven'
    PROVE  /\ RowsTyped' /\ RowsFit'
           /\ pause' \in 0..ResendTime /\ sends' \in [1..HourTime -> 0..MaxSends]
           /\ \A m \in Session : session[m].kind # "none" => session'[m].kind = session[m].kind
  <1>1. RowsTyped /\ RowsFit
    BY RowsOfInv
  <1>2. /\ session[n].kind = "none"
        /\ session' = [m \in Session |->
              IF m = n
                THEN [kind |-> "email", revoked |-> ~delivered, life |-> ChallengeTime,
                      replaced |-> 0, family |-> 0]
                ELSE [session[m] EXCEPT !.revoked = @ \/ Superseded(m) \/ m = consumed]]
        /\ challenge' = [challenge EXCEPT ![n] =
              [purpose |-> purpose, state |-> IF delivered THEN "accepted" ELSE "failed",
               life |-> CodeTime]]
        /\ since' = since \cup {n}
    BY <1>1 DEF Send, FreshSession, NextId, RevokedIf, RowsTyped
  <1>3. \A m \in Session : Superseded(m) \in BOOLEAN /\ (Superseded(m) <=> session[m].kind = "email")
    BY <1>1 DEF Superseded, RowsFit
  <1>4. {ChallengeTime, CodeTime, ResendTime} \subseteq Nat
    BY AuthAssumption
  <1>5. \A m \in Session \ {n} :
          /\ session'[m] = [session[m] EXCEPT !.revoked = @ \/ Superseded(m) \/ m = consumed]
          /\ challenge'[m] = challenge[m]
    BY <1>1, <1>2 DEF RowsTyped
  <1>6. \A m \in Session \ {n} :
          /\ session'[m] \in Sessions
          /\ session'[m].kind = session[m].kind /\ session'[m].family = session[m].family
          /\ ~session'[m].revoked => ~session[m].revoked /\ ~Superseded(m)
    <2>1. ASSUME NEW m \in Session \ {n}
          PROVE  /\ session'[m] \in Sessions
                 /\ session'[m].kind = session[m].kind /\ session'[m].family = session[m].family
                 /\ ~session'[m].revoked => ~session[m].revoked /\ ~Superseded(m)
      <3>1. PICK b \in BOOLEAN : b = (Superseded(m) \/ m = consumed)
        BY <1>3
      <3>2. session'[m] = [session[m] EXCEPT !.revoked = @ \/ b] /\ session[m] \in Sessions
        BY <1>1, <1>5, <3>1 DEF RowsTyped
      <3>3. QED
        BY <3>1, <3>2 DEF Sessions
    <2>2. QED
      BY <2>1
  <1>7. /\ session'[n].kind = "email" /\ session'[n] \in Sessions
        /\ challenge'[n].purpose = purpose /\ challenge'[n] \in Challenges
    BY <1>1, <1>2, <1>4 DEF RowsTyped, Sessions, SessionKinds, Challenges, Purposes
  <1>8. RowsTyped'
    BY <1>1, <1>2, <1>5, <1>6, <1>7 DEF RowsTyped
  <1>9. \A m \in Session \ {n} : Fades(m)
    BY <1>1, <1>2, <1>5, <1>6 DEF Fades, RowsFit
  <1>10. Added(n)
    BY <1>2, <1>3, <1>6, <1>7 DEF Added
  <1>11. RowsFit'
    BY <1>1, <1>8, <1>9, <1>10, RowAdded
  <1>12. pause' \in 0..ResendTime /\ sends' \in [1..HourTime -> 0..MaxSends]
    <2>1. HourTime \in Nat \ {0} /\ MaxSends \in Nat /\ sends \in [1..HourTime -> 0..MaxSends]
      BY AuthAssumption DEF AuthInv, AuthTypeOK
    <2>2. Counted(sends, 1, MaxSends) \in [1..HourTime -> 0..MaxSends]
      BY <2>1, CountedTyped
    <2>3. QED
      BY <1>4, <2>2 DEF Send
  <1>13. QED
    BY <1>2, <1>6, <1>8, <1>11, <1>12

\* Tokens are issued: the new row succeeds the only open row of its family, or
\* starts one.
LEMMA Issued ==
    ASSUME AuthInv, NEW n \in Session, NEW previous \in Session \cup {0},
           IssueTokens(n, previous), UNCHANGED <<challenge, proven>>,
           previous # 0 => session[previous].kind # "none" /\ ~session[previous].revoked
    PROVE  /\ RowsTyped' /\ RowsFit'
           /\ \A m \in Session : session[m].kind # "none" => session'[m].kind = session[m].kind
  <1>1. RowsTyped /\ RowsFit
    BY RowsOfInv
  <1>2. /\ session[n].kind = "none"
        /\ session' = [m \in Session |->
              IF m = n THEN TokenRow(n, previous)
              ELSE IF m = previous THEN [session[m] EXCEPT !.revoked = TRUE, !.replaced = n]
              ELSE session[m]]
    BY DEF IssueTokens, FreshSession, NextId
  <1>3. since' = since \cup {n}
    BY <1>1 DEF IssueTokens, RowsFit
  <1>4. /\ 0 \notin Session /\ TokenTime \in Nat
    BY AuthAssumption
  <1>5. \A m \in Session \ {n} :
          /\ session'[m] \in Sessions
          /\ session'[m].kind = session[m].kind /\ session'[m].family = session[m].family
          /\ ~session'[m].revoked => ~session[m].revoked /\ m # previous
    BY <1>1, <1>2 DEF RowsTyped, Sessions
  <1>6. /\ session'[n].kind = "token"
        /\ session'[n].family = IF previous # 0 /\ session[previous].kind = "token"
                                  THEN session[previous].family ELSE n
        /\ session'[n] \in Sessions
    BY <1>1, <1>2, <1>4 DEF TokenRow, RowsTyped, Sessions, SessionKinds
  <1>7. RowsTyped'
    BY <1>1, <1>2, <1>3, <1>5, <1>6 DEF RowsTyped
  <1>8. \A m \in Session \ {n} : Fades(m)
    BY <1>1, <1>3, <1>5 DEF Fades, RowsFit
  <1>9. \A m \in Session \ {n} :
          session[m].kind = "token" /\ session[m].family = session'[n].family
          => session'[m].revoked
    <2>1. CASE previous # 0 /\ session[previous].kind = "token"
      <3>1. ASSUME NEW m \in Session \ {n}, m # previous,
                   session[m].kind = "token", session[m].family = session'[n].family
            PROVE  session[m].revoked
        BY <1>1, <1>6, <2>1, <3>1 DEF RowsFit
      <3>2. ASSUME NEW m \in Session \ {n}
            PROVE  session'[m] = IF m = previous
                     THEN [session[m] EXCEPT !.revoked = TRUE, !.replaced = n]
                     ELSE session[m]
        BY <1>2
      <3>3. previous \in Session => [session[previous] EXCEPT !.revoked = TRUE, !.replaced = n].revoked
        BY <1>1 DEF RowsTyped, Sessions
      <3>4. QED
        BY <3>1, <3>2, <3>3
    <2>2. CASE ~(previous # 0 /\ session[previous].kind = "token")
      <3>1. session'[n].family = n /\ session[n].kind # "token"
        BY <1>2, <1>6, <2>2
      <3>2. QED
        BY <1>1, <3>1 DEF RowsFit
    <2>3. QED
      BY <2>1, <2>2
  <1>10. challenge'[n].purpose = "none" /\ challenge'[n].state # "accepted"
    BY <1>1, <1>2 DEF RowsFit
  <1>11. /\ session[n].kind = "none"
         /\ n \in since'
         /\ \/ session'[n].family = n
            \/ /\ session'[n].family \in Session \ {n}
               /\ session[session'[n].family].kind = "token"
    <2>1. CASE previous # 0 /\ session[previous].kind = "token"
      <3>1. /\ session[previous].family \in Session
            /\ session[session[previous].family].kind = "token"
        BY <1>1, <2>1 DEF RowsFit
      <3>2. session[n].kind = "none" /\ n \in since'
        BY <1>2, <1>3
      <3>3. QED
        BY <1>6, <2>1, <3>1, <3>2
    <2>2. CASE ~(previous # 0 /\ session[previous].kind = "token")
      BY <1>2, <1>3, <1>6, <2>2
    <2>3. QED
      BY <2>1, <2>2
  <1>12. Added(n)
    BY <1>6, <1>9, <1>10, <1>11 DEF Added
  <1>13. QED
    BY <1>1, <1>2, <1>5, <1>7, <1>8, <1>12, RowAdded

\* Rows are revoked, and nothing else.
LEMMA Revoked ==
    ASSUME AuthInv, NEW R \in [Session -> BOOLEAN],
           session' = [m \in Session |-> [session[m] EXCEPT !.revoked = @ \/ R[m]]],
           UNCHANGED <<challenge, proven>>, since' \subseteq Session,
           \A m \in Session : session[m].kind # "none" /\ m \in since => R[m] \/ m \in since'
    PROVE  /\ RowsTyped' /\ RowsFit'
           /\ \A m \in Session : session'[m].kind = session[m].kind
  <1>1. RowsTyped /\ RowsFit
    BY RowsOfInv
  <1>2. ASSUME NEW m \in Session
        PROVE  /\ session'[m] \in Sessions
               /\ session'[m].kind = session[m].kind /\ session'[m].family = session[m].family
               /\ ~session'[m].revoked => ~session[m].revoked /\ ~R[m]
    <2>1. session'[m] = [session[m] EXCEPT !.revoked = @ \/ R[m]] /\ R[m] \in BOOLEAN
      OBVIOUS
    <2>2. session[m] \in Sessions
      BY <1>1 DEF RowsTyped
    <2>3. QED
      BY <2>1, <2>2 DEF Sessions
  <1>3. RowsTyped'
    BY <1>1, <1>2 DEF RowsTyped
  <1>4. \A m \in Session : Fades(m)
    BY <1>1, <1>2 DEF Fades, RowsFit
  <1>5. QED
    BY <1>1, <1>2, <1>3, <1>4, RowsFade

-----------------------------------------------------------------------------
(***************************************************************************)
(* The transactions.                                                       *)
(***************************************************************************)
RestTyped ==
    /\ account \in Accounts
    /\ locked \in 0..LockTime \cup {None}
    /\ totpUnused \in BOOLEAN
    /\ pause \in 0..ResendTime
    /\ sends \in [1..HourTime -> 0..MaxSends]
    /\ failures \in [1..LockTime -> 0..MaxFailed]
    /\ reset \in [Reset -> [life : 0..ResetTime, used : BOOLEAN, sent : BOOLEAN]]
    /\ guesses \in [1..LockTime -> 0..MaxFailed + 1]
    /\ proven \in BOOLEAN
    /\ signedOut \subseteq Session

LEMMA Parts ==
    /\ AuthTypeOK <=> /\ RowsTyped /\ RestTyped
                      /\ request \in RequestTable /\ userLock \in Request \cup {None}
    /\ AuthTypeOK' <=> /\ RowsTyped' /\ RestTyped'
                       /\ request' \in RequestTable /\ userLock' \in Request \cup {None}
  BY DEF AuthTypeOK, RowsTyped, RestTyped, RequestTable

\* The end of a transaction leaves the others as they are.
LEMMA Finished ==
    ASSUME AuthInv, NEW p \in Request, Finish(p)
    PROVE  /\ request' \in RequestTable /\ userLock' \in Request \cup {None}
           /\ request'[p].at = "idle"
           /\ \A q \in Request \ {p} : request'[q] = request[q]
           /\ \A q \in Request \ {p} : request[q].at = "locked" => userLock' = userLock
  <1>1. request \in RequestTable /\ userLock \in Request \cup {None}
    BY Parts DEF AuthInv
  <1>2. Idle \in [op : Operations \cup {"idle"}, at : {"idle", "found", "locked"},
                  arg : Session \cup Reset \cup {0},
                  user : Accounts \cup {None}, row : Sessions,
                  age : 1..LockTime + 1]
    BY AuthAssumption DEF Idle, NoSession, Sessions, SessionKinds
  <1>3. Idle.at = "idle"
    BY DEF Idle
  <1>4. \A q \in Request \ {p} : request[q].at = "locked" => userLock = q
    BY DEF AuthInv, LockedRead
  <1>5. QED
    BY <1>1, <1>2, <1>3, <1>4 DEF Finish, RequestTable

\* A commit, by the transaction that holds the users row.
LEMMA Committed ==
    ASSUME AuthInv, NEW p \in Request, request[p].at = "locked", Finish(p),
           RestTyped', AccountKept', RowsTyped', RowsFit',
           \A m \in Session : session[m].kind # "none" => session'[m].kind = session[m].kind
    PROVE  AuthInv'
  <1>1. /\ request' \in RequestTable /\ userLock' \in Request \cup {None}
        /\ request'[p].at = "idle"
        /\ \A q \in Request \ {p} : request'[q] = request[q]
    BY Finished
  <1>2. \A q \in Request \ {p} : request'[q].at # "locked"
    BY <1>1 DEF AuthInv, LockedRead
  <1>3. FoundRow'
    BY <1>1 DEF AuthInv, FoundRow
  <1>4. LockedRead'
    BY <1>1, <1>2 DEF LockedRead
  <1>5. QED
    BY <1>1, <1>3, <1>4, Parts DEF AuthInv

LEMMA RolledBack ==
    ASSUME AuthInv, NEW p \in Request, Rollback(p)
    PROVE  AuthInv'
  <1>0. UNCHANGED dataVars /\ Finish(p)
    BY DEF Rollback
  <1>1. /\ request' \in RequestTable /\ userLock' \in Request \cup {None}
        /\ request'[p].at = "idle"
        /\ \A q \in Request \ {p} : request'[q] = request[q]
        /\ \A q \in Request \ {p} : request[q].at = "locked" => userLock' = userLock
    BY <1>0, Finished
  <1>2. RowsTyped' /\ RestTyped'
    BY <1>0, Parts DEF AuthInv, RowsTyped, RestTyped,
       dataVars, accountVars, sessionVars, mailVars, historyVars
  <1>3. AccountKept' /\ RowsFit'
    BY <1>0 DEF AuthInv, AccountKept, RowsFit,
       dataVars, accountVars, sessionVars, mailVars, historyVars
  <1>4. FoundRow'
    BY <1>0, <1>1 DEF AuthInv, FoundRow, dataVars, sessionVars
  <1>5. LockedRead'
    BY <1>0, <1>1 DEF AuthInv, LockedRead, dataVars, accountVars, sessionVars
  <1>6. QED
    BY <1>1, <1>2, <1>3, <1>4, <1>5, Parts DEF AuthInv

\* A refused code is counted, and may lock the account.
LEMMA Refused ==
    ASSUME AuthInv, NEW p \in Request, request[p].at = "locked",
           NEW guessed \in BOOLEAN,
           Deny(p, guessed) \/ RefuseCode(p, guessed)
    PROVE  AuthInv'
  <1>1. RowsTyped /\ RowsFit /\ RestTyped
    BY RowsOfInv, Parts DEF AuthInv
  <1>2. /\ failures' = Counted(failures, request[p].age, MaxFailed)
        /\ guesses' = IF guessed THEN Counted(guesses, request[p].age, MaxFailed + 1) ELSE guesses
        /\ locked' = locked \/ locked' = LockTime
        /\ account' = account /\ totpUnused' = totpUnused
        /\ session' = session /\ challenge' = challenge /\ since' = since
        /\ pause' = pause /\ sends' = sends
        /\ reset' = reset /\ proven' = proven /\ signedOut' = signedOut
        /\ Finish(p)
    BY DEF Deny, RefuseCode, accountVars, sessionVars, mailVars
  <1>3. MaxFailed \in Nat /\ LockTime \in Nat \ {0} /\ None \notin Nat
    BY AuthAssumption
  <1>4. /\ failures' \in [1..LockTime -> 0..MaxFailed]
        /\ Counted(guesses, request[p].age, MaxFailed + 1) \in [1..LockTime -> 0..MaxFailed + 1]
    <2>1. Counted(failures, request[p].age, MaxFailed) \in [1..LockTime -> 0..MaxFailed]
      BY <1>1, <1>3, CountedTyped DEF RestTyped
    <2>2. MaxFailed + 1 \in Nat
      BY <1>3
    <2>3. Counted(guesses, request[p].age, MaxFailed + 1) \in [1..LockTime -> 0..MaxFailed + 1]
      BY <1>1, <1>3, <2>2, CountedTyped DEF RestTyped
    <2>4. QED
      BY <1>2, <2>1, <2>3
  <1>5. locked' \in 0..LockTime \cup {None} /\ (locked' = None => locked = None)
    BY <1>1, <1>2, <1>3 DEF RestTyped
  <1>6. guesses' \in [1..LockTime -> 0..MaxFailed + 1]
    BY <1>1, <1>2, <1>4 DEF RestTyped
  <1>7. RestTyped'
    BY <1>1, <1>2, <1>4, <1>5, <1>6 DEF RestTyped
  <1>8. AccountKept'
    BY <1>2, <1>5 DEF AuthInv, AccountKept
  <1>9. RowsTyped' /\ RowsFit'
    BY <1>1, <1>2 DEF RowsTyped, RowsFit
  <1>10. QED
    BY <1>2, <1>7, <1>8, <1>9, Committed

\* The challenge after a password was verified.
LEMMA Challenged ==
    ASSUME AuthInv, NEW user \in Accounts, Challenge(user), UNCHANGED proven
    PROVE  /\ RowsTyped' /\ RowsFit'
           /\ pause' \in 0..ResendTime /\ sends' \in [1..HourTime -> 0..MaxSends]
           /\ \A m \in Session : session[m].kind # "none" => session'[m].kind = session[m].kind
  <1>1. RowsTyped /\ RowsFit /\ RestTyped
    BY RowsOfInv, Parts DEF AuthInv
  <1>2. ASSUME NEW n \in Session, FreshSession(n),
               session' = [session EXCEPT ![n] =
                    [kind |-> "totp", revoked |-> FALSE, life |-> TotpTime,
                     replaced |-> 0, family |-> 0]],
               since' = since \cup {n}, UNCHANGED <<challenge, mailVars>>
        PROVE  /\ RowsTyped' /\ RowsFit'
               /\ pause' \in 0..ResendTime /\ sends' \in [1..HourTime -> 0..MaxSends]
               /\ \A m \in Session : session[m].kind # "none" => session'[m].kind = session[m].kind
    <2>1. session[n].kind = "none" /\ TotpTime \in Nat
      BY <1>2, AuthAssumption DEF FreshSession, NextId
    <2>2. \A m \in Session \ {n} : session'[m] = session[m]
      BY <1>1, <1>2 DEF RowsTyped
    <2>3. session'[n].kind = "totp" /\ session'[n] \in Sessions
      BY <1>1, <1>2, <2>1 DEF RowsTyped, Sessions, SessionKinds
    <2>4. RowsTyped'
      BY <1>1, <1>2, <2>2, <2>3 DEF RowsTyped
    <2>5. \A m \in Session \ {n} : Fades(m)
      BY <1>1, <1>2, <2>2 DEF Fades, RowsFit
    <2>6. Added(n)
      <3>1. /\ challenge'[n] = challenge[n] /\ n \in since'
            /\ challenge[n].purpose = "none" /\ challenge[n].state # "accepted"
        BY <1>1, <1>2, <2>1 DEF RowsFit
      <3>2. QED
        BY <2>1, <2>3, <3>1 DEF Added
    <2>7. RowsFit'
      BY <1>1, <2>4, <2>5, <2>6, RowAdded
    <2>8. QED
      <3>1. pause' \in 0..ResendTime /\ sends' \in [1..HourTime -> 0..MaxSends]
        BY <1>1, <1>2 DEF RestTyped, mailVars
      <3>2. QED
        BY <2>1, <2>2, <2>4, <2>7, <3>1
  <1>3. ASSUME NEW n \in Session, NEW delivered \in BOOLEAN,
               Send(n, IF user.email THEN "login" ELSE "register", delivered, 0)
        PROVE  /\ RowsTyped' /\ RowsFit'
               /\ pause' \in 0..ResendTime /\ sends' \in [1..HourTime -> 0..MaxSends]
               /\ \A m \in Session : session[m].kind # "none" => session'[m].kind = session[m].kind
    <2> DEFINE purpose == IF user.email THEN "login" ELSE "register"
    <2>1. purpose \in {"login", "register", "transition"} /\ purpose # "transition"
      OBVIOUS
    <2>2. Send(n, purpose, delivered, 0)
      BY <1>3
    <2> HIDE DEF purpose
    <2>3. QED
      BY <2>1, <2>2, Sent
  <1>4. QED
    BY <1>2, <1>3 DEF Challenge

-----------------------------------------------------------------------------
(***************************************************************************)
(* Every action keeps the invariant.                                       *)
(***************************************************************************)
LEMMA InitHolds == AuthInit => AuthInv
  <1> SUFFICES ASSUME AuthInit PROVE AuthInv
    OBVIOUS
  <1> USE DEF AuthInit
  <1>1. /\ {MaxFailed, LockTime, ResendTime, HourTime, ResetTime, MaxSends} \subseteq Nat \ {0}
        /\ account \in Accounts /\ account.failed = 0 /\ (account.totp => account.exists)
    BY AuthAssumption
  <1>2. RowsTyped
    BY DEF RowsTyped, Sessions, NoSession, SessionKinds, Challenges, NoChallenge, Purposes
  <1>3. RestTyped
    <2>1. /\ account \in Accounts /\ locked \in 0..LockTime \cup {None}
          /\ totpUnused \in BOOLEAN /\ proven \in BOOLEAN /\ signedOut \subseteq Session
          /\ pause \in 0..ResendTime
      <3>1. 0 \in 0..ResendTime
        BY <1>1
      <3>2. QED
        BY <1>1, <3>1
    <2>2. /\ sends \in [1..HourTime -> 0..MaxSends]
          /\ failures \in [1..LockTime -> 0..MaxFailed]
          /\ guesses \in [1..LockTime -> 0..MaxFailed + 1]
      BY <1>1
    <2>3. reset \in [Reset -> [life : 0..ResetTime, used : BOOLEAN, sent : BOOLEAN]]
      BY <1>1 DEF NoReset
    <2>4. QED
      BY <2>1, <2>2, <2>3 DEF RestTyped
  <1>4. request \in RequestTable /\ userLock \in Request \cup {None}
    BY <1>1 DEF RequestTable, Idle, NoSession, Sessions, SessionKinds
  <1>5. AccountKept
    BY <1>1 DEF AccountKept
  <1>6. FoundRow /\ LockedRead
    BY DEF FoundRow, LockedRead, Idle
  <1>7. RowsFit
    BY DEF RowsFit, NoSession, NoChallenge
  <1>8. QED
    BY <1>2, <1>3, <1>4, <1>5, <1>6, <1>7, Parts DEF AuthInv

LEMMA LookupKeeps ==
    ASSUME AuthInv, NEW p \in Request, Lookup(p)
    PROVE  AuthInv'
  <1>1. PICK op \in Operations \cap ({"refresh", "logout", "reset", "register"} \cup CodeOperations),
             n \in Session \cup Reset \cup {0} :
          /\ CASE op \in {"refresh", "logout"} -> n \in Session /\ session[n].kind = "token"
               [] op = "reset" -> n \in Reset /\ reset[n].sent
               [] op \in {"verify_email", "resend_email"} ->
                     n \in Session /\ session[n].life > 0 /\ challenge[n].state = "accepted"
               [] op = "verify_login" ->
                     n \in Session /\ session[n].kind = "totp" /\ session[n].life > 0
               [] OTHER -> n = 0 /\ ~account.exists
          /\ request' = [request EXCEPT ![p] =
                 [op |-> op, at |-> "found", arg |-> n, user |-> None,
                  row |-> IF op \in {"refresh", "logout"} THEN session[n] ELSE NoSession,
                  age |-> 1]]
    BY DEF Lookup
  <1>2. UNCHANGED dataVars /\ userLock' = userLock /\ request[p] = Idle
    BY DEF Lookup
  <1>3. RowsTyped /\ RowsFit /\ RestTyped /\ request \in RequestTable
        /\ userLock \in Request \cup {None}
    BY Parts DEF AuthInv
  <1>4. RowsTyped' /\ RestTyped' /\ AccountKept' /\ RowsFit'
    BY <1>2, <1>3 DEF AuthInv, RowsTyped, RestTyped, AccountKept, RowsFit,
       dataVars, accountVars, sessionVars, mailVars, historyVars
  <1>5. /\ op \in TokenOps => n \in Session /\ session[n].kind = "token"
        /\ op \in CodeOps => n \in Session /\ session[n].kind = "email"
        /\ op = "verify_login" => n \in Session /\ session[n].kind = "totp"
        /\ op = "reset" => n \in Reset
    <2>1. op \in CodeOps => n \in Session /\ challenge[n].state = "accepted"
      BY <1>1 DEF CodeOps
    <2>2. op \in CodeOps => n \in Session /\ session[n].kind = "email"
      BY <1>3, <2>1 DEF RowsFit
    <2>3. QED
      BY <1>1, <2>2 DEF TokenOps
  <1>6. [op |-> op, at |-> "found", arg |-> n, user |-> None,
         row |-> IF op \in {"refresh", "logout"} THEN session[n] ELSE NoSession, age |-> 1]
        \in [op : Operations \cup {"idle"}, at : {"idle", "found", "locked"},
             arg : Session \cup Reset \cup {0},
             user : Accounts \cup {None}, row : Sessions, age : 1..LockTime + 1]
    <2>1. NoSession \in Sessions
      BY DEF NoSession, Sessions, SessionKinds
    <2>2. op \in {"refresh", "logout"} => session[n] \in Sessions
      BY <1>3, <1>5 DEF RowsTyped, TokenOps
    <2>3. 1 \in 1..LockTime + 1
      BY AuthAssumption
    <2>4. QED
      BY <2>1, <2>2, <2>3
  <1>7. request' \in RequestTable
    BY <1>1, <1>3, <1>6 DEF RequestTable
  <1>8. /\ request'[p].at = "found" /\ request'[p].op = op /\ request'[p].arg = n
        /\ \A q \in Request \ {p} : request'[q] = request[q]
    BY <1>1, <1>3 DEF RequestTable
  <1>9. FoundRow'
    BY <1>1, <1>2, <1>5, <1>8 DEF AuthInv, FoundRow, TokenOps, CodeOps, dataVars, sessionVars
  <1>10. LockedRead'
    BY <1>2, <1>8 DEF AuthInv, LockedRead, dataVars, sessionVars, accountVars
  <1>11. QED
    BY <1>2, <1>3, <1>4, <1>7, <1>9, <1>10, Parts DEF AuthInv

LEMMA LockUserKeeps ==
    ASSUME AuthInv, NEW p \in Request, LockUser(p)
    PROVE  AuthInv'
  <1>1. PICK op \in Operations, n \in Session \cup Reset \cup {0} :
          /\ \/ request[p] = Idle /\ Direct(op, n)
             \/ request[p].at = "found" /\ request[p].op = op /\ request[p].arg = n
          /\ op = "register" => ~account.exists
          /\ request' = [request EXCEPT ![p] =
                 [op |-> op, at |-> "locked", arg |-> n, user |-> account,
                  row |-> IF n \in Session /\ op # "reset" THEN session[n] ELSE NoSession,
                  age |-> request[p].age]]
    BY DEF LockUser, Reread
  <1>2. UNCHANGED dataVars /\ userLock = None /\ userLock' = p
    BY DEF LockUser
  <1>3. RowsTyped /\ RestTyped /\ request \in RequestTable
    BY Parts DEF AuthInv
  <1>4. RowsTyped' /\ RestTyped' /\ AccountKept' /\ RowsFit'
    BY <1>2, <1>3 DEF AuthInv, RowsTyped, RestTyped, AccountKept, RowsFit,
       dataVars, accountVars, sessionVars, mailVars, historyVars
  <1>5. /\ op \in TokenOps => n \in Session /\ session[n].kind = "token"
        /\ op = "reset" => n \in Reset
        /\ op \in CodeOps => n \in Session /\ session[n].kind = "email"
        /\ op = "verify_login" => n \in Session /\ session[n].kind = "totp"
        /\ op \in {"register", "create_staff"} => ~account.exists
    <2>1. CASE request[p] = Idle /\ Direct(op, n)
      BY <1>1, <2>1 DEF Direct, TokenOps, CodeOps
    <2>2. CASE request[p].at = "found" /\ request[p].op = op /\ request[p].arg = n
      BY <1>1, <2>2 DEF AuthInv, FoundRow, TokenOps, CodeOps, CodeOperations
    <2>3. QED
      BY <1>1, <2>1, <2>2
  <1>6. op \in CodeOps => n \in Session /\ challenge[n].purpose # "none"
    BY <1>5, RowsOfInv DEF RowsFit
  <1>7. request' \in RequestTable
    <2>1. NoSession \in Sessions /\ (n \in Session => session[n] \in Sessions)
      BY <1>3 DEF NoSession, Sessions, SessionKinds, RowsTyped
    <2>2. [op |-> op, at |-> "locked", arg |-> n, user |-> account,
           row |-> IF n \in Session /\ op # "reset" THEN session[n] ELSE NoSession,
           age |-> request[p].age]
          \in [op : Operations \cup {"idle"}, at : {"idle", "found", "locked"},
               arg : Session \cup Reset \cup {0},
               user : Accounts \cup {None}, row : Sessions,
               age : 1..LockTime + 1]
      BY <1>3, <2>1 DEF RestTyped, RequestTable
    <2>3. QED
      BY <1>1, <1>3, <2>2 DEF RequestTable
  <1>8. /\ request'[p].at = "locked" /\ request'[p].op = op /\ request'[p].arg = n
        /\ request'[p].user = account
        /\ n \in Session /\ op # "reset" => request'[p].row = session[n]
        /\ \A q \in Request \ {p} : request'[q] = request[q]
    BY <1>1, <1>3 DEF RequestTable
  <1>9. \A q \in Request \ {p} : request'[q].at # "locked"
    BY <1>2, <1>8, AuthAssumption DEF AuthInv, LockedRead
  <1>10. FoundRow'
    BY <1>2, <1>8 DEF AuthInv, FoundRow, dataVars, sessionVars
  <1>11. LockedRead'
    <2>1. account' = account /\ session' = session /\ challenge' = challenge
      BY <1>2 DEF dataVars, accountVars, sessionVars
    <2>2. op \in TokenOps \cup CodeOps \cup {"verify_login"} =>
            request'[p].row.kind = session[n].kind /\ request'[p].row.revoked = session[n].revoked
      BY <1>5, <1>8 DEF TokenOps, CodeOps
    <2>3. QED
      BY <1>2, <1>5, <1>6, <1>8, <1>9, <2>1, <2>2 DEF LockedRead
  <1>12. QED
    BY <1>2, <1>4, <1>7, <1>10, <1>11, Parts DEF AuthInv

\* The holder of the users row decides about the account as it is.
LEMMA Reading ==
    ASSUME AuthInv, NEW p \in Request, request[p].at = "locked"
    PROVE  /\ request[p].user = account /\ account \in Accounts
           /\ RowsTyped /\ RowsFit /\ RestTyped /\ AccountKept
  BY RowsOfInv, Parts DEF AuthInv, LockedRead, RestTyped

LEMMA RowsSame ==
    ASSUME AuthInv, UNCHANGED <<session, challenge, since, proven>>
    PROVE  /\ RowsTyped' /\ RowsFit'
           /\ \A m \in Session : session[m].kind # "none" => session'[m].kind = session[m].kind
  <1>1. RowsTyped /\ RowsFit
    BY RowsOfInv
  <1>2. RowsTyped'
    BY <1>1 DEF RowsTyped
  <1>3. RowsFit'
    BY <1>1 DEF RowsFit
  <1>4. QED
    BY <1>2, <1>3

LEMMA RegisterKeeps ==
    ASSUME AuthInv, NEW p \in Request, Register(p)
    PROVE  AuthInv'
  <1>1. /\ request[p].at = "locked" /\ Finish(p)
        /\ account' = NewAccount(FALSE) /\ Challenge(NewAccount(FALSE))
        /\ UNCHANGED <<locked, totpUnused, failures, reset, guesses, proven, signedOut>>
    BY DEF Register, Locked
  <1>2. RestTyped
    BY <1>1, Reading
  <1>3. MaxFailed \in Nat \ {0}
    BY AuthAssumption
  <1>4. NewAccount(FALSE) \in Accounts
    BY <1>3 DEF NewAccount, Accounts
  <1>5. /\ RowsTyped' /\ RowsFit'
        /\ pause' \in 0..ResendTime /\ sends' \in [1..HourTime -> 0..MaxSends]
        /\ \A m \in Session : session[m].kind # "none" => session'[m].kind = session[m].kind
    BY <1>1, <1>4, Challenged
  <1>6. RestTyped'
    BY <1>1, <1>2, <1>4, <1>5 DEF RestTyped
  <1>7. AccountKept'
    BY <1>1, <1>3 DEF AccountKept, NewAccount
  <1>8. QED
    BY <1>1, <1>5, <1>6, <1>7, Committed

LEMMA CreateStaffKeeps ==
    ASSUME AuthInv, NEW p \in Request, CreateStaff(p)
    PROVE  AuthInv'
  <1>1. /\ request[p].at = "locked" /\ Finish(p)
        /\ account' = NewAccount(TRUE)
        /\ UNCHANGED <<locked, totpUnused, failures, reset, guesses, proven, signedOut>>
        /\ UNCHANGED <<session, challenge, since, pause, sends>>
    BY DEF CreateStaff, Locked, sessionVars, mailVars, historyVars
  <1>2. RestTyped
    BY <1>1, Reading
  <1>3. MaxFailed \in Nat \ {0}
    BY AuthAssumption
  <1>4. NewAccount(TRUE) \in Accounts
    BY <1>3 DEF NewAccount, Accounts
  <1>5. RestTyped'
    BY <1>1, <1>2, <1>4 DEF RestTyped
  <1>6. AccountKept'
    BY <1>1, <1>3 DEF AccountKept, NewAccount
  <1>7. QED
    BY <1>1, <1>5, <1>6, RowsSame, Committed

LEMMA WrongPasswordKeeps ==
    ASSUME AuthInv, NEW p \in Request, WrongPassword(p)
    PROVE  AuthInv'
  <1> DEFINE attempts == FailedSoFar(request[p].user) + 1
  <1>1. /\ request[p].at = "locked" /\ Finish(p) /\ Eligible(request[p].user)
        /\ account' = [account EXCEPT !.failed = attempts]
        /\ locked' = IF attempts >= MaxFailed THEN LockTime ELSE None
        /\ UNCHANGED <<totpUnused, failures, reset, guesses, proven, signedOut>>
        /\ UNCHANGED <<session, challenge, since, pause, sends>>
    BY DEF WrongPassword, Locked, sessionVars, mailVars, historyVars
  <1>2. RestTyped /\ AccountKept /\ request[p].user = account
    BY <1>1, Reading
  <1>3. MaxFailed \in Nat \ {0} /\ LockTime \in Nat \ {0} /\ None \notin Nat
    BY AuthAssumption
  <1>4. attempts \in 1..MaxFailed
    BY <1>1, <1>2, <1>3 DEF FailedSoFar, Eligible, RestTyped, AccountKept, Accounts
  <1> HIDE DEF attempts
  <1>5. account' \in Accounts /\ account'.failed = attempts
        /\ account'.totp = account.totp /\ account'.exists = account.exists
    BY <1>1, <1>2, <1>4 DEF RestTyped, Accounts
  <1>6. locked' \in 0..LockTime \cup {None} /\ (locked' = None => attempts < MaxFailed)
    BY <1>1, <1>3, <1>4
  <1>7. RestTyped'
    BY <1>1, <1>2, <1>5, <1>6 DEF RestTyped
  <1>8. AccountKept'
    BY <1>2, <1>5, <1>6 DEF AccountKept
  <1>9. QED
    BY <1>1, <1>7, <1>8, RowsSame, Committed

LEMMA RightPasswordKeeps ==
    ASSUME AuthInv, NEW p \in Request, RightPassword(p)
    PROVE  AuthInv'
  <1> DEFINE user == request[p].user
  <1>1. /\ request[p].at = "locked" /\ Finish(p)
        /\ account' = [account EXCEPT !.failed = 0] /\ locked' = None
        /\ UNCHANGED <<totpUnused, failures, reset, guesses, proven, signedOut>>
        /\ \/ /\ \E n \in Session : IssueTokens(n, 0)
              /\ UNCHANGED <<challenge, pause, sends>>
           \/ Challenge(user)
    BY DEF RightPassword, Locked, mailVars
  <1>2. RestTyped /\ AccountKept /\ user = account /\ account \in Accounts
    BY <1>1, Reading
  <1>3. MaxFailed \in Nat \ {0}
    BY AuthAssumption
  <1>4. /\ RowsTyped' /\ RowsFit'
        /\ pause' \in 0..ResendTime /\ sends' \in [1..HourTime -> 0..MaxSends]
        /\ \A m \in Session : session[m].kind # "none" => session'[m].kind = session[m].kind
    <2>1. CASE (\E n \in Session : IssueTokens(n, 0)) /\ UNCHANGED <<challenge, pause, sends>>
      <3>1. /\ RowsTyped' /\ RowsFit'
            /\ \A m \in Session : session[m].kind # "none" => session'[m].kind = session[m].kind
        BY <1>1, <2>1, Issued
      <3>2. QED
        BY <1>2, <2>1, <3>1 DEF RestTyped
    <2>2. CASE Challenge(user)
      BY <1>1, <1>2, <2>2, Challenged
    <2>3. QED
      BY <1>1, <2>1, <2>2
  <1>5. account' \in Accounts /\ account'.failed = 0
        /\ account'.totp = account.totp /\ account'.exists = account.exists
    BY <1>1, <1>2, <1>3 DEF Accounts
  <1>6. RestTyped'
    BY <1>1, <1>2, <1>4, <1>5 DEF RestTyped
  <1>7. AccountKept'
    BY <1>2, <1>3, <1>5 DEF AccountKept
  <1>8. QED
    BY <1>1, <1>4, <1>6, <1>7, Committed

LEMMA CodeRefusedKeeps ==
    ASSUME AuthInv, NEW p \in Request, ChallengeDenied(p) \/ WrongCode(p) \/ WrongTotp(p)
    PROVE  AuthInv'
  <1>1. request[p].at = "locked"
    BY DEF ChallengeDenied, WrongCode, WrongTotp, Locked
  <1>2. CASE ChallengeDenied(p)
    BY <1>1, <1>2, Refused DEF ChallengeDenied
  <1>3. CASE WrongCode(p)
    <2>1. Comparable(p) \in BOOLEAN
      BY DEF Comparable
    <2>2. RefuseCode(p, Comparable(p))
      BY <1>3 DEF WrongCode
    <2>3. QED
      BY <1>1, <2>1, <2>2, Refused
  <1>4. CASE WrongTotp(p)
    <2>1. RefuseCode(p, Total(failures) < MaxFailed) \/ Deny(p, FALSE)
      BY <1>4 DEF WrongTotp
    <2>2. (Total(failures) < MaxFailed) \in BOOLEAN
      OBVIOUS
    <2>3. QED
      BY <1>1, <2>1, <2>2, Refused
  <1>5. QED
    BY <1>2, <1>3, <1>4

\* The presented challenge is open and was read under the lock.
LEMMA ChallengeOpen ==
    ASSUME AuthInv, NEW p \in Request, request[p].at = "locked",
           request[p].op \in CodeOps \cup {"verify_login"}, ValidChallenge(p)
    PROVE  /\ request[p].arg \in Session
           /\ session[request[p].arg].kind # "none" /\ ~session[request[p].arg].revoked
           /\ request[p].op \in CodeOps => session[request[p].arg].kind = "email"
           /\ request[p].op = "verify_login" => session[request[p].arg].kind = "totp"
  <1>1. /\ request[p].arg \in Session
        /\ request[p].op \in CodeOps => challenge[request[p].arg].purpose # "none"
        /\ request[p].op = "verify_login" => session[request[p].arg].kind = "totp"
        /\ request[p].row.revoked = session[request[p].arg].revoked
    BY DEF AuthInv, LockedRead
  <1>2. request[p].op \in CodeOps => session[request[p].arg].kind = "email"
    BY <1>1, RowsOfInv DEF RowsFit
  <1>3. ~request[p].row.revoked
    <2>1. request[p].row \in Sessions
      BY Parts DEF AuthInv, RequestTable
    <2>2. QED
      BY <2>1 DEF ValidChallenge, Open, Sessions
  <1>4. QED
    BY <1>1, <1>2, <1>3 DEF CodeOps

\* Every row of the account is revoked and one token row is added.
LEMMA Restarted ==
    ASSUME AuthInv, NEW n \in Session, NEW old \in Session,
           FreshSession(n), session[old].kind = "email",
           session' = [RevokeAll EXCEPT ![n] = TokenRow(n, old), ![old].replaced = n],
           since' = {n}, UNCHANGED <<challenge, proven>>
    PROVE  /\ RowsTyped' /\ RowsFit'
           /\ \A m \in Session : session[m].kind # "none" => session'[m].kind = session[m].kind
  <1>1. RowsTyped /\ RowsFit
    BY RowsOfInv
  <1>2. session[n].kind = "none" /\ n # old
    BY DEF FreshSession, NextId
  <1>3. TokenRow(n, old) = [kind |-> "token", revoked |-> FALSE, life |-> TokenTime,
                            replaced |-> 0, family |-> n]
    BY DEF TokenRow
  <1>4. TokenTime \in Nat
    BY AuthAssumption
  <1> DEFINE R == [m \in Session |-> session[m].kind # "none"]
  <1>5. /\ RevokeAll = [m \in Session |-> [session[m] EXCEPT !.revoked = @ \/ R[m]]]
        /\ R \in [Session -> BOOLEAN]
        /\ \A m \in Session : session[m].kind # "none" => R[m]
    BY DEF RevokeAll, RevokedIf
  <1> HIDE DEF R
  <1>6. ASSUME NEW m \in Session
        PROVE  /\ RevokeAll[m] \in Sessions
               /\ RevokeAll[m].kind = session[m].kind /\ RevokeAll[m].family = session[m].family
               /\ session[m].kind # "none" => RevokeAll[m].revoked
               /\ session[m].revoked => RevokeAll[m].revoked
    <2>1. RevokeAll[m] = [session[m] EXCEPT !.revoked = @ \/ R[m]] /\ session[m] \in Sessions
      BY <1>1, <1>5 DEF RowsTyped
    <2>2. QED
      BY <1>5, <2>1 DEF Sessions
  <1>7. session'[n] = TokenRow(n, old)
    BY <1>2, <1>5
  <1>8. ASSUME NEW m \in Session \ {n}
        PROVE  /\ session'[m] \in Sessions
               /\ session'[m].kind = session[m].kind /\ session'[m].family = session[m].family
               /\ session[m].kind # "none" => session'[m].revoked
               /\ session[m].revoked => session'[m].revoked
    <2>1. session'[m] = IF m = old THEN [RevokeAll[m] EXCEPT !.replaced = n] ELSE RevokeAll[m]
      BY <1>2, <1>5
    <2>2. /\ session'[m].kind = RevokeAll[m].kind /\ session'[m].family = RevokeAll[m].family
          /\ session'[m].revoked = RevokeAll[m].revoked /\ session'[m] \in Sessions
      BY <1>6, <2>1 DEF Sessions
    <2>3. QED
      BY <1>6, <2>2
  <1>9. session' \in [Session -> Sessions]
    <2>1. session'[n] \in Sessions
      <3>1. [kind |-> "token", revoked |-> FALSE, life |-> TokenTime,
             replaced |-> 0, family |-> n] \in Sessions
        BY <1>4 DEF Sessions, SessionKinds
      <3>2. QED
        BY <1>3, <1>7, <3>1
    <2>2. RevokeAll = [m \in Session |-> RevokeAll[m]]
      BY <1>5
    <2>3. session' = [m \in Session |->
              IF m = n THEN TokenRow(n, old)
              ELSE IF m = old THEN [RevokeAll[m] EXCEPT !.replaced = n]
              ELSE RevokeAll[m]]
      BY <1>2, <2>2
    <2>4. QED
      BY <1>7, <1>8, <2>1, <2>3
  <1>10. RowsTyped'
    BY <1>1, <1>9 DEF RowsTyped
  <1>11. \A m \in Session \ {n} : Fades(m)
    BY <1>8 DEF Fades
  <1>12. challenge'[n].purpose = "none" /\ challenge'[n].state # "accepted"
    BY <1>1, <1>2 DEF RowsFit
  <1>13. Added(n)
    <2>1. session'[n].kind = "token" /\ session'[n].family = n
      BY <1>3, <1>7
    <2>2. \A m \in Session \ {n} : session[m].kind = "token" => session'[m].revoked
      BY <1>8
    <2>3. n \in since'
      OBVIOUS
    <2>4. QED
      BY <1>2, <1>12, <2>1, <2>2, <2>3 DEF Added
  <1>14. QED
    BY <1>1, <1>2, <1>8, <1>10, <1>11, <1>13, RowAdded

LEMMA VerifyEmailKeeps ==
    ASSUME AuthInv, NEW p \in Request, VerifyEmail(p)
    PROVE  AuthInv'
  <1> DEFINE old == request[p].arg
  <1>1. /\ request[p].at = "locked" /\ request[p].op = "verify_email" /\ Finish(p)
        /\ ValidChallenge(p)
        /\ account' = [account EXCEPT !.email = TRUE, !.mfa = TRUE, !.totp = FALSE]
        /\ UNCHANGED <<locked, totpUnused, challenge, pause, sends, failures, reset,
                       guesses, proven, signedOut>>
    BY DEF VerifyEmail, Locked, mailVars
  <1>2. PICK n \in Session :
          \/ /\ FreshSession(n) /\ since' = {n}
             /\ session' = [RevokeAll EXCEPT ![n] = TokenRow(n, old), ![old].replaced = n]
          \/ IssueTokens(n, old)
    BY DEF VerifyEmail
  <1>3. RestTyped /\ AccountKept /\ account \in Accounts
    BY <1>1, Reading
  <1>4. /\ old \in Session /\ session[old].kind = "email" /\ ~session[old].revoked
    BY <1>1, ChallengeOpen DEF CodeOps
  <1>5. /\ RowsTyped' /\ RowsFit'
        /\ \A m \in Session : session[m].kind # "none" => session'[m].kind = session[m].kind
    BY <1>1, <1>2, <1>4, Restarted, Issued
  <1>6. /\ account' \in Accounts /\ account'.failed = account.failed /\ ~account'.totp
    BY <1>1, <1>3 DEF Accounts
  <1>7. RestTyped'
    BY <1>1, <1>3, <1>6 DEF RestTyped
  <1>8. AccountKept'
    BY <1>1, <1>3, <1>6 DEF AccountKept
  <1>9. QED
    BY <1>1, <1>5, <1>7, <1>8, Committed

LEMMA ResendEmailKeeps ==
    ASSUME AuthInv, NEW p \in Request, ResendEmail(p)
    PROVE  AuthInv'
  <1>1. CASE Rollback(p)
    BY <1>1, RolledBack
  <1>2. ASSUME NEW n \in Session, NEW delivered \in BOOLEAN,
               Send(n, challenge[request[p].arg].purpose, delivered, 0), Finish(p),
               UNCHANGED <<accountVars, failures, reset, guesses, proven, signedOut>>
        PROVE  AuthInv'
    <2> DEFINE purpose == challenge[request[p].arg].purpose
    <2>1. request[p].at = "locked" /\ request[p].op = "resend_email" /\ ValidChallenge(p)
      BY DEF ResendEmail, Locked
    <2>2. RestTyped /\ AccountKept /\ RowsTyped /\ RowsFit
      BY <2>1, Reading
    <2>3. request[p].arg \in Session /\ session[request[p].arg].kind = "email"
      BY <2>1, ChallengeOpen DEF CodeOps
    <2>4. purpose \in {"login", "register", "transition"} /\ (purpose = "transition" => proven)
      BY <2>2, <2>3 DEF RowsFit, RowsTyped, Challenges, Purposes
    <2>5. Send(n, purpose, delivered, 0) /\ proven' = proven
      BY <1>2
    <2> HIDE DEF purpose
    <2>6. /\ RowsTyped' /\ RowsFit'
          /\ pause' \in 0..ResendTime /\ sends' \in [1..HourTime -> 0..MaxSends]
          /\ \A m \in Session : session[m].kind # "none" => session'[m].kind = session[m].kind
      BY <2>4, <2>5, Sent
    <2>7. RestTyped' /\ AccountKept'
      BY <1>2, <2>2, <2>6 DEF RestTyped, AccountKept, accountVars
    <2>8. QED
      BY <1>2, <2>1, <2>6, <2>7, Committed
  <1>3. QED
    BY <1>1, <1>2 DEF ResendEmail

LEMMA VerifyTotpKeeps ==
    ASSUME AuthInv, NEW p \in Request, VerifyTotp(p)
    PROVE  AuthInv'
  <1>1. CASE Rollback(p)
    BY <1>1, RolledBack
  <1>2. ASSUME NEW n \in Session, NEW delivered \in BOOLEAN,
               Send(n, "transition", delivered, IF delivered THEN request[p].arg ELSE 0),
               Finish(p), totpUnused' = FALSE, proven' = TRUE,
               UNCHANGED <<account, locked, failures, reset, guesses, signedOut>>
        PROVE  AuthInv'
    <2> DEFINE consumed == IF delivered THEN request[p].arg ELSE 0
    <2>1. request[p].at = "locked" /\ request[p].op = "verify_login"
      BY DEF VerifyTotp, Locked
    <2>2. RestTyped /\ AccountKept
      BY <2>1, Reading
    <2>3. consumed \in Session \cup {0}
      BY <2>1 DEF AuthInv, LockedRead
    <2>4. Send(n, "transition", delivered, consumed)
      BY <1>2
    <2> HIDE DEF consumed
    <2>5. /\ RowsTyped' /\ RowsFit'
          /\ pause' \in 0..ResendTime /\ sends' \in [1..HourTime -> 0..MaxSends]
          /\ \A m \in Session : session[m].kind # "none" => session'[m].kind = session[m].kind
      BY <1>2, <2>3, <2>4, Sent
    <2>6. RestTyped' /\ AccountKept'
      BY <1>2, <2>2, <2>5 DEF RestTyped, AccountKept
    <2>7. QED
      BY <1>2, <2>1, <2>5, <2>6, Committed
  <1>3. QED
    BY <1>1, <1>2 DEF VerifyTotp

\* A family ends with a logout, or with the reuse of a token.
LEMMA ChainRevoked ==
    ASSUME AuthInv, NEW n \in Session, session' = RevokeChain(n),
           UNCHANGED <<challenge, proven, since>>
    PROVE  /\ RowsTyped' /\ RowsFit'
           /\ \A m \in Session : session'[m].kind = session[m].kind
  <1> DEFINE R == [m \in Session |-> m \in RotatedInto(n)]
  <1>1. R \in [Session -> BOOLEAN]
    OBVIOUS
  <1>2. session' = [m \in Session |-> [session[m] EXCEPT !.revoked = @ \/ R[m]]]
    BY DEF RevokeChain, RevokedIf
  <1> HIDE DEF R
  <1>3. since' \subseteq Session
    BY RowsOfInv DEF RowsTyped
  <1>4. QED
    BY <1>1, <1>2, <1>3, Revoked

\* Every session ends with the password, or with the account's role or state.
LEMMA AllRevoked ==
    ASSUME AuthInv, session' = RevokeAll, since' = {}, UNCHANGED <<challenge, proven>>
    PROVE  /\ RowsTyped' /\ RowsFit'
           /\ \A m \in Session : session'[m].kind = session[m].kind
  <1> DEFINE R == [m \in Session |-> session[m].kind # "none"]
  <1>1. R \in [Session -> BOOLEAN] /\ \A m \in Session : session[m].kind # "none" => R[m]
    OBVIOUS
  <1>2. session' = [m \in Session |-> [session[m] EXCEPT !.revoked = @ \/ R[m]]]
    BY DEF RevokeAll, RevokedIf
  <1> HIDE DEF R
  <1>3. QED
    BY <1>1, <1>2, Revoked

LEMMA ChainEndedKeeps ==
    ASSUME AuthInv, NEW p \in Request, RefreshReused(p) \/ Logout(p)
    PROVE  AuthInv'
  <1>1. /\ request[p].at = "locked" /\ request[p].op \in TokenOps /\ Finish(p)
        /\ UNCHANGED <<account, locked, totpUnused, challenge, pause, sends, failures, reset,
                       guesses, proven, since>>
        /\ \/ session' = session /\ signedOut' = signedOut
           \/ /\ session' = RevokeChain(request[p].arg)
              /\ signedOut' = signedOut \cup {session[request[p].arg].family}
    BY DEF RefreshReused, Logout, Locked, TokenOps, accountVars, mailVars
  <1>2. RestTyped /\ AccountKept /\ RowsTyped /\ RowsFit
    BY <1>1, Reading
  <1>3. request[p].arg \in Session /\ session[request[p].arg].family \in Session
    BY <1>1, <1>2 DEF AuthInv, LockedRead, RowsFit
  <1>4. /\ RowsTyped' /\ RowsFit'
        /\ \A m \in Session : session[m].kind # "none" => session'[m].kind = session[m].kind
    BY <1>1, <1>3, RowsSame, ChainRevoked
  <1>5. RestTyped' /\ AccountKept'
    BY <1>1, <1>2, <1>3 DEF RestTyped, AccountKept
  <1>6. QED
    BY <1>1, <1>4, <1>5, Committed

LEMMA RefreshKeeps ==
    ASSUME AuthInv, NEW p \in Request, Refresh(p)
    PROVE  AuthInv'
  <1>1. /\ request[p].at = "locked" /\ request[p].op \in TokenOps /\ Finish(p)
        /\ ~request[p].row.revoked
        /\ UNCHANGED <<account, locked, totpUnused, challenge, pause, sends, failures, reset,
                       guesses, proven, signedOut>>
        /\ \E n \in Session : IssueTokens(n, request[p].arg)
    BY DEF Refresh, Locked, TokenOps, accountVars, mailVars
  <1>2. RestTyped /\ AccountKept
    BY <1>1, Reading
  <1>3. /\ request[p].arg \in Session /\ session[request[p].arg].kind = "token"
        /\ ~session[request[p].arg].revoked
    BY <1>1 DEF AuthInv, LockedRead
  <1>4. /\ RowsTyped' /\ RowsFit'
        /\ \A m \in Session : session[m].kind # "none" => session'[m].kind = session[m].kind
    BY <1>1, <1>3, Issued
  <1>5. RestTyped' /\ AccountKept'
    BY <1>1, <1>2 DEF RestTyped, AccountKept
  <1>6. QED
    BY <1>1, <1>4, <1>5, Committed

LEMMA RequestResetKeeps ==
    ASSUME AuthInv, NEW p \in Request, RequestReset(p)
    PROVE  AuthInv'
  <1>1. CASE Rollback(p)
    BY <1>1, RolledBack
  <1>2. ASSUME NEW r \in Reset, NEW delivered \in BOOLEAN,
               reset' = [reset EXCEPT ![r] =
                    [life |-> ResetTime, used |-> ~delivered, sent |-> TRUE]],
               Finish(p),
               UNCHANGED <<accountVars, sessionVars, mailVars, failures, historyVars>>
        PROVE  AuthInv'
    <2>1. request[p].at = "locked"
      BY DEF RequestReset, Locked
    <2>2. RestTyped /\ AccountKept /\ ResetTime \in Nat
      BY <2>1, Reading, AuthAssumption
    <2>3. /\ UNCHANGED <<account, locked, totpUnused, session, challenge, pause, sends>>
          /\ UNCHANGED <<failures, guesses, proven, since, signedOut>>
      BY <1>2 DEF accountVars, sessionVars, mailVars, historyVars
    <2>4. reset' \in [Reset -> [life : 0..ResetTime, used : BOOLEAN, sent : BOOLEAN]]
      BY <1>2, <2>2 DEF RestTyped
    <2>5. RestTyped' /\ AccountKept'
      BY <2>2, <2>3, <2>4 DEF RestTyped, AccountKept
    <2>6. QED
      BY <1>2, <2>1, <2>3, <2>5, RowsSame, Committed
  <1>3. QED
    BY <1>1, <1>2 DEF RequestReset

LEMMA ResetPasswordKeeps ==
    ASSUME AuthInv, NEW p \in Request, ResetPassword(p)
    PROVE  AuthInv'
  <1>1. CASE Rollback(p)
    BY <1>1, RolledBack
  <1>2. CASE ~Rollback(p)
    <2>1. /\ request[p].at = "locked" /\ Finish(p)
          /\ account' = [account EXCEPT !.failed = 0] /\ locked' = None
          /\ reset' = [x \in Reset |-> [reset[x] EXCEPT !.used = TRUE]]
          /\ session' = RevokeAll /\ since' = {}
          /\ UNCHANGED <<totpUnused, challenge, pause, sends, failures, guesses, proven, signedOut>>
      BY <1>2 DEF ResetPassword, Locked, mailVars
    <2>2. RestTyped /\ AccountKept /\ account \in Accounts /\ MaxFailed \in Nat \ {0}
      BY <2>1, Reading, AuthAssumption
    <2>3. /\ RowsTyped' /\ RowsFit'
          /\ \A m \in Session : session[m].kind # "none" => session'[m].kind = session[m].kind
      BY <2>1, AllRevoked
    <2>4. /\ account' \in Accounts /\ account'.failed = 0
          /\ account'.totp = account.totp /\ account'.exists = account.exists
      BY <2>1, <2>2 DEF Accounts
    <2>5. reset' \in [Reset -> [life : 0..ResetTime, used : BOOLEAN, sent : BOOLEAN]]
      BY <2>1, <2>2 DEF RestTyped
    <2>6. RestTyped'
      BY <2>1, <2>2, <2>4, <2>5 DEF RestTyped
    <2>7. AccountKept'
      BY <2>2, <2>4 DEF AccountKept
    <2>8. QED
      BY <2>1, <2>3, <2>6, <2>7, Committed
  <1>3. QED
    BY <1>1, <1>2

LEMMA ChangeStaffKeeps ==
    ASSUME AuthInv, NEW p \in Request, ChangeStaff(p)
    PROVE  AuthInv'
  <1>1. PICK active \in BOOLEAN : account' = [account EXCEPT !.active = active]
    BY DEF ChangeStaff
  <1>2. /\ request[p].at = "locked" /\ Finish(p)
        /\ session' = RevokeAll /\ since' = {}
        /\ UNCHANGED <<locked, totpUnused, challenge, pause, sends, failures, reset,
                       guesses, proven, signedOut>>
    BY DEF ChangeStaff, Locked, mailVars
  <1>3. RestTyped /\ AccountKept /\ account \in Accounts
    BY <1>2, Reading
  <1>4. /\ RowsTyped' /\ RowsFit'
        /\ \A m \in Session : session[m].kind # "none" => session'[m].kind = session[m].kind
    BY <1>2, AllRevoked
  <1>5. /\ account' \in Accounts /\ account'.failed = account.failed
        /\ account'.totp = account.totp /\ account'.exists = account.exists
    BY <1>1, <1>3 DEF Accounts
  <1>6. RestTyped' /\ AccountKept'
    BY <1>2, <1>3, <1>5 DEF RestTyped, AccountKept
  <1>7. QED
    BY <1>2, <1>4, <1>6, Committed

LEMMA LessTyped ==
    ASSUME NEW K \in Nat, NEW ticks \in 0..K
    PROVE  Less(ticks) \in 0..K
  BY DEF Less

LEMMA TickKeeps ==
    ASSUME AuthInv, Tick
    PROVE  AuthInv'
  <1>1. RowsTyped /\ RowsFit /\ RestTyped /\ AccountKept
        /\ request \in RequestTable /\ userLock \in Request \cup {None}
    BY RowsOfInv, Parts DEF AuthInv
  <1>2. /\ {MaxFailed, LockTime, ResendTime, HourTime, ResetTime, MaxSends} \subseteq Nat \ {0}
        /\ None \notin Nat
    BY AuthAssumption
  <1>3. /\ locked' = IF locked = None THEN None ELSE Less(locked)
        /\ totpUnused' = TRUE
        /\ session' = [n \in Session |-> [session[n] EXCEPT !.life = Less(@)]]
        /\ challenge' = [n \in Session |-> [challenge[n] EXCEPT !.life = Less(@)]]
        /\ pause' = Less(pause) /\ sends' = Older(sends)
        /\ failures' = Older(failures) /\ guesses' = Older(guesses)
        /\ reset' = [r \in Reset |-> [reset[r] EXCEPT !.life = Less(@)]]
        /\ request' = [p \in Request |-> Aged(request[p])]
        /\ UNCHANGED <<account, proven, since, signedOut, userLock>>
    BY DEF Tick
  <1>r. /\ request' \in RequestTable
        /\ \A p \in Request :
              /\ request'[p].op = request[p].op /\ request'[p].at = request[p].at
              /\ request'[p].arg = request[p].arg /\ request'[p].user = request[p].user
              /\ request'[p].row = request[p].row
    <2>1. ASSUME NEW p \in Request
          PROVE  /\ request'[p] \in [op : Operations \cup {"idle"}, at : {"idle", "found", "locked"},
                                     arg : Session \cup Reset \cup {0},
                                     user : Accounts \cup {None}, row : Sessions,
                                     age : 1..LockTime + 1]
                 /\ request'[p].op = request[p].op /\ request'[p].at = request[p].at
                 /\ request'[p].arg = request[p].arg /\ request'[p].user = request[p].user
                 /\ request'[p].row = request[p].row
      <3>1. request'[p] = Aged(request[p])
        BY <1>3
      <3>2. /\ request[p] \in [op : Operations \cup {"idle"}, at : {"idle", "found", "locked"},
                                arg : Session \cup Reset \cup {0},
                                user : Accounts \cup {None}, row : Sessions,
                                age : 1..LockTime + 1]
            /\ request[p].age <= LockTime => request[p].age + 1 \in 1..LockTime + 1
        BY <1>1, <1>2 DEF RequestTable
      <3>3. QED
        BY <3>1, <3>2 DEF Aged
    <2>2. DOMAIN request' = Request /\ request' = [p \in Request |-> request'[p]]
      BY <1>3
    <2>3. QED
      BY <2>1, <2>2 DEF RequestTable
  <1>4. \A n \in Session :
          /\ session'[n] \in Sessions /\ challenge'[n] \in Challenges
          /\ session'[n].kind = session[n].kind /\ session'[n].family = session[n].family
          /\ session'[n].revoked = session[n].revoked
          /\ challenge'[n].purpose = challenge[n].purpose
          /\ challenge'[n].state = challenge[n].state
    <2>1. ASSUME NEW n \in Session
          PROVE  /\ session'[n] \in Sessions
                 /\ session'[n].kind = session[n].kind /\ session'[n].family = session[n].family
                 /\ session'[n].revoked = session[n].revoked
      <3>1. session[n] \in Sessions /\ Less(session[n].life) \in Nat
        BY <1>1 DEF RowsTyped, Sessions, Less
      <3>2. session'[n] = [session[n] EXCEPT !.life = Less(session[n].life)]
        BY <1>3
      <3>3. QED
        BY <3>1, <3>2 DEF Sessions
    <2>2. ASSUME NEW n \in Session
          PROVE  /\ challenge'[n] \in Challenges
                 /\ challenge'[n].purpose = challenge[n].purpose
                 /\ challenge'[n].state = challenge[n].state
      <3>1. challenge[n] \in Challenges /\ Less(challenge[n].life) \in Nat
        BY <1>1 DEF RowsTyped, Challenges, Less
      <3>2. challenge'[n] = [challenge[n] EXCEPT !.life = Less(challenge[n].life)]
        BY <1>3
      <3>3. QED
        BY <3>1, <3>2 DEF Challenges
    <2>3. QED
      BY <2>1, <2>2
  <1>5. RowsTyped'
    BY <1>1, <1>3, <1>4 DEF RowsTyped
  <1>6. \A m \in Session : Fades(m)
    BY <1>1, <1>3, <1>4 DEF Fades, RowsFit
  <1>7. RowsFit'
    BY <1>1, <1>3, <1>5, <1>6, RowsFade
  <1>8. RestTyped'
    <2>1. locked' \in 0..LockTime \cup {None} /\ pause' \in 0..ResendTime
      BY <1>1, <1>2, <1>3, LessTyped DEF RestTyped
    <2>2. sends' \in [1..HourTime -> 0..MaxSends]
      BY <1>1, <1>2, <1>3, CountedTyped DEF RestTyped
    <2>3. failures' \in [1..LockTime -> 0..MaxFailed]
      BY <1>1, <1>2, <1>3, CountedTyped DEF RestTyped
    <2>4. guesses' \in [1..LockTime -> 0..MaxFailed + 1]
      <3>1. MaxFailed + 1 \in Nat
        BY <1>2
      <3>2. QED
        BY <1>1, <1>2, <1>3, <3>1, CountedTyped DEF RestTyped
    <2>5. reset' \in [Reset -> [life : 0..ResetTime, used : BOOLEAN, sent : BOOLEAN]]
      BY <1>1, <1>2, <1>3, LessTyped DEF RestTyped
    <2>6. QED
      BY <1>1, <1>3, <2>1, <2>2, <2>3, <2>4, <2>5 DEF RestTyped
  <1>9. AccountKept'
    <2>1. locked' = None => locked = None
      BY <1>1, <1>2, <1>3, LessTyped DEF RestTyped
    <2>2. QED
      BY <1>1, <1>3, <2>1 DEF AccountKept
  <1>10. FoundRow'
    <2>1. \A p \in Request : request'[p].at = "found" /\ request'[p].op \in TokenOps \cup CodeOps \cup {"verify_login"}
             => request'[p].arg \in Session
      BY <1>r DEF AuthInv, FoundRow
    <2>2. QED
      BY <1>4, <1>r, <2>1 DEF AuthInv, FoundRow
  <1>11. LockedRead'
    <2>1. ASSUME NEW p \in Request, request'[p].at = "locked",
                 request[p].op \in TokenOps \cup CodeOps \cup {"verify_login"}
          PROVE  request[p].arg \in Session
      BY <1>r, <2>1 DEF AuthInv, LockedRead
    <2>2. ASSUME NEW p \in Request, request'[p].at = "locked"
          PROVE  /\ userLock' = p /\ request'[p].user = account'
                 /\ request'[p].op \in {"register", "create_staff"} => ~account'.exists
                 /\ request'[p].op = "reset" => request'[p].arg \in Reset
      BY <1>3, <1>r, <2>2 DEF AuthInv, LockedRead
    <2>3. ASSUME NEW p \in Request, request'[p].at = "locked"
          PROVE  /\ request'[p].op \in TokenOps =>
                       request'[p].arg \in Session /\ session'[request'[p].arg].kind = "token"
                 /\ request'[p].op = "verify_login" =>
                       request'[p].arg \in Session /\ session'[request'[p].arg].kind = "totp"
                 /\ request'[p].op \in CodeOps =>
                       request'[p].arg \in Session /\ challenge'[request'[p].arg].purpose # "none"
      BY <1>4, <1>r, <2>1, <2>3 DEF AuthInv, LockedRead
    <2>4. ASSUME NEW p \in Request, request'[p].at = "locked",
                 request'[p].op \in TokenOps \cup CodeOps \cup {"verify_login"}
          PROVE  /\ request'[p].row.kind = session'[request'[p].arg].kind
                 /\ request'[p].row.revoked = session'[request'[p].arg].revoked
      BY <1>4, <1>r, <2>1, <2>4 DEF AuthInv, LockedRead
    <2>5. QED
      BY <2>2, <2>3, <2>4 DEF LockedRead
  <1>12. QED
    BY <1>1, <1>3, <1>r, <1>5, <1>7, <1>8, <1>9, <1>10, <1>11, Parts DEF AuthInv

LEMMA StepKeeps ==
    ASSUME AuthInv, NEW p \in Request, Step(p)
    PROVE  AuthInv'
  <1>1. CASE \/ RegisterConflict(p) \/ Fail(p) \/ LoginDenied(p) \/ LoginRefused(p)
             \/ RefreshDenied(p)
    BY <1>1, RolledBack DEF RegisterConflict, Fail, LoginDenied, LoginRefused, RefreshDenied
  <1>2. CASE Lookup(p) \/ LockUser(p)
    BY <1>2, LookupKeeps, LockUserKeeps
  <1>3. CASE Register(p) \/ CreateStaff(p) \/ WrongPassword(p) \/ RightPassword(p)
    BY <1>3, RegisterKeeps, CreateStaffKeeps, WrongPasswordKeeps, RightPasswordKeeps
  <1>4. CASE ChallengeDenied(p) \/ WrongCode(p) \/ WrongTotp(p)
    BY <1>4, CodeRefusedKeeps
  <1>5. CASE VerifyEmail(p) \/ ResendEmail(p) \/ VerifyTotp(p)
    BY <1>5, VerifyEmailKeeps, ResendEmailKeeps, VerifyTotpKeeps
  <1>6. CASE RefreshReused(p) \/ Logout(p) \/ Refresh(p)
    BY <1>6, ChainEndedKeeps, RefreshKeeps
  <1>7. CASE RequestReset(p) \/ ResetPassword(p) \/ ChangeStaff(p)
    BY <1>7, RequestResetKeeps, ResetPasswordKeeps, ChangeStaffKeeps
  <1>8. QED
    BY <1>1, <1>2, <1>3, <1>4, <1>5, <1>6, <1>7 DEF Step

LEMMA InvHolds == AuthSpec => []AuthInv
  <1>1. AuthInit => AuthInv
    BY InitHolds
  <1>2. AuthInv /\ [AuthNext]_authVars => AuthInv'
    <2>1. CASE AuthInv /\ AuthNext
      BY <2>1, TickKeeps, StepKeeps DEF AuthNext
    <2>2. CASE AuthInv /\ UNCHANGED authVars
      BY <2>2 DEF AuthInv, AuthTypeOK, AccountKept, FoundRow, LockedRead, RowsFit, authVars,
         dataVars, accountVars, sessionVars, mailVars, historyVars
    <2>3. QED
      BY <2>1, <2>2
  <1>3. QED
    BY <1>1, <1>2, PTL DEF AuthSpec

-----------------------------------------------------------------------------
(***************************************************************************)
(* The theorems.                                                           *)
(***************************************************************************)
\* The tables of sign-in keep their types, with every count within its limit
\* (users.failed_login_attempts, the sends and failures of a window).
THEOREM AuthTyped == AuthSpec => []AuthTypeOK
  <1>1. AuthInv => AuthTypeOK
    BY DEF AuthInv
  <1>2. QED
    BY <1>1, InvHolds, PTL

\* Nothing that was signed in before a reset of the password, a change by the
\* administrator or the switch of the method is accepted after it
\* (recovery.py reset, administration change, email_flow.py verify).
THEOREM OldSessionsEnd == AuthSpec => []SignedInSince
  <1>1. AuthInv => SignedInSince
    BY DEF AuthInv, RowsFit, SignedInSince, Accepted, Usable, Open
  <1>2. QED
    BY <1>1, InvHolds, PTL

\* However many tabs ask for codes, one email challenge is open
\* (email_flow.py send).
THEOREM ChallengeAlone == AuthSpec => []OneOpenChallenge
  <1>1. AuthInv => OneOpenChallenge
    BY DEF AuthInv, RowsFit, OneOpenChallenge, Open
  <1>2. QED
    BY <1>1, InvHolds, PTL

\* The email method replaces an authenticator only after the authenticator was
\* used (email_flow.py verify, service.py verify_login).
THEOREM AuthenticatorAsked == AuthSpec => AuthenticatorFirst
  <1>1. AuthInv /\ [AuthNext]_authVars => [account.totp /\ ~account'.totp => proven]_authVars
    <2> SUFFICES ASSUME AuthInv, [AuthNext]_authVars, account.totp, ~account'.totp
                 PROVE  proven
      OBVIOUS
    <2>1. account.exists /\ account \in Accounts
      BY DEF AuthInv, AccountKept, AuthTypeOK
    <2>2. PICK p \in Request : Register(p) \/ CreateStaff(p) \/ VerifyEmail(p)
      <3>1. account' # account
        OBVIOUS
      <3>2. account' # account /\ ~account'.totp => AuthNext
        BY DEF authVars, dataVars, accountVars
      <3>3. ~Tick
        BY <3>1 DEF Tick
      <3>4. PICK p \in Request : Step(p)
        BY <3>1, <3>2, <3>3 DEF AuthNext
      <3>5. QED
        BY <2>1, <3>1, <3>4 DEF Step, Lookup, LockUser, RegisterConflict, Fail, Rollback,
           LoginDenied, WrongPassword, RightPassword, LoginRefused, ChallengeDenied,
           WrongCode, ResendEmail, WrongTotp, VerifyTotp, RefreshDenied, RefreshReused,
           Refresh, Logout, RequestReset, ResetPassword, ChangeStaff, Deny, RefuseCode,
           dataVars, accountVars, Accounts
    <2>3. ~Register(p) /\ ~CreateStaff(p)
      BY <2>1 DEF AuthInv, LockedRead, Register, CreateStaff, Locked
    <2>4. VerifyEmail(p) /\ request[p].at = "locked" /\ request[p].op = "verify_email"
      BY <2>2, <2>3 DEF VerifyEmail, Locked
    <2>5. request[p].user = account /\ request[p].arg \in Session
      BY <2>4 DEF AuthInv, LockedRead, CodeOps
    <2>6. challenge[request[p].arg].purpose = "transition"
      BY <2>4, <2>5 DEF VerifyEmail, OtherMethodNeeded
    <2>7. QED
      BY <2>5, <2>6 DEF AuthInv, RowsFit
  <1>2. QED
    BY <1>1, InvHolds, PTL DEF AuthSpec, AuthenticatorFirst

-----------------------------------------------------------------------------
(***************************************************************************)
(* Sessions rotate as SessionFamilies says.                                *)
(***************************************************************************)
Holder == [f \in Session |-> {n \in Session : Usable(n) /\ session[n].family = f}]

Tokens == {n \in Session : session[n].kind = "token"}

LEMMA HolderIs ==
    ASSUME NEW f \in Session, NEW n
    PROVE  n \in Holder[f] <=> n \in Session /\ Usable(n) /\ session[n].family = f
  BY DEF Holder

\* No family has two sessions that can be used.
LEMMA HolderAlone ==
    ASSUME AuthInv, NEW f \in Session, NEW m \in Holder[f], NEW n \in Holder[f]
    PROVE  m = n
  BY HolderIs DEF AuthInv, RowsFit, Usable, Open

\* No token is issued, and some that could be used cannot be used any more.
LEMMA FamiliesEnd ==
    ASSUME AuthInv,
           \A m \in Session :
              /\ session'[m].kind = "token" <=> session[m].kind = "token"
              /\ session[m].kind = "token" => session'[m].family = session[m].family
              /\ Usable(m)' => Usable(m)
    PROVE  \E F \in SUBSET {f \in Session : Holder[f] # {}} :
              /\ Holder' = [f \in Session |-> IF f \in F THEN {} ELSE Holder[f]]
              /\ Tokens' = Tokens
  <1> DEFINE F == {f \in Session : Holder[f] # {} /\ Holder'[f] = {}}
  <1>1. F \in SUBSET {f \in Session : Holder[f] # {}}
    OBVIOUS
  <1>2. ASSUME NEW f \in Session
        PROVE  Holder'[f] = IF f \in F THEN {} ELSE Holder[f]
    <2>1. \A n : n \in Holder'[f] <=> n \in Session /\ Usable(n)' /\ session'[n].family = f
      BY DEF Holder
    <2>2. ASSUME NEW n \in Holder'[f]
          PROVE  n \in Holder[f]
      <3>1. n \in Session /\ Usable(n)' /\ session'[n].family = f
        BY <2>1
      <3>2. session'[n].kind = "token"
        BY <3>1 DEF Usable
      <3>3. QED
        BY <3>1, <3>2, HolderIs
    <2>3. \A m, n \in Holder[f] : m = n
      BY HolderAlone
    <2>4. Holder'[f] # {} => Holder'[f] = Holder[f]
      BY <2>2, <2>3
    <2>5. Holder[f] = {} => Holder'[f] = {}
      BY <2>2
    <2>6. QED
      BY <2>4, <2>5
  <1>3. Holder' = [f \in Session |-> Holder'[f]]
    BY DEF Holder
  <1>4. Holder' = [f \in Session |-> IF f \in F THEN {} ELSE Holder[f]]
    BY <1>2, <1>3
  <1>5. Tokens' = Tokens
    BY DEF Tokens
  <1>6. QED
    BY <1>1, <1>4, <1>5

\* The barred step.
RotationStep ==
    \/ \E F \in SUBSET {f \in Session : Holder[f] # {}} :
          /\ Holder' = [f \in Session |-> IF f \in F THEN {} ELSE Holder[f]]
          /\ Tokens' = Tokens
    \/ \E n \in Session :
          /\ n \notin Tokens /\ Tokens' = Tokens \cup {n}
          /\ \/ Holder' = [Holder EXCEPT ![n] = {n}]
             \/ Holder' = [f \in Session |-> IF f = n THEN {n} ELSE {}]
             \/ \E f \in Session : Holder[f] # {} /\ Holder' = [Holder EXCEPT ![f] = {n}]

LEMMA StepRefines == RotationStep => Families!FamilyNext
  <1> SUFFICES ASSUME RotationStep PROVE Families!FamilyNext
    OBVIOUS
  <1> USE DEF Holder, Tokens
  <1>1. ASSUME NEW F \in SUBSET {f \in Session : Holder[f] # {}},
               Holder' = [f \in Session |-> IF f \in F THEN {} ELSE Holder[f]],
               Tokens' = Tokens
        PROVE  Families!FamilyNext
    BY <1>1 DEF Families!FamilyNext, Families!End, Families!Without, Families!Live
  <1>2. ASSUME NEW n \in Session, n \notin Tokens, Tokens' = Tokens \cup {n},
               Holder' = [Holder EXCEPT ![n] = {n}]
        PROVE  Families!FamilyNext
    BY <1>2 DEF Families!FamilyNext, Families!SignIn
  <1>3. ASSUME NEW n \in Session, n \notin Tokens, Tokens' = Tokens \cup {n},
               Holder' = [f \in Session |-> IF f = n THEN {n} ELSE {}]
        PROVE  Families!FamilyNext
    BY <1>3 DEF Families!FamilyNext, Families!Restart, Families!Without, Families!Live
  <1>4. ASSUME NEW n \in Session, n \notin Tokens, Tokens' = Tokens \cup {n},
               NEW f \in Session, Holder[f] # {}, Holder' = [Holder EXCEPT ![f] = {n}]
        PROVE  Families!FamilyNext
    BY <1>4 DEF Families!FamilyNext, Families!Rotate, Families!Live
  <1>5. QED
    BY <1>1, <1>2, <1>3, <1>4 DEF RotationStep

\* Tokens are issued for a password or a code, or for a token that is replaced.
LEMMA FamilyAdded ==
    ASSUME AuthInv, NEW n \in Session, NEW previous \in Session \cup {0},
           IssueTokens(n, previous),
           previous # 0 => session[previous].kind # "none" /\ ~session[previous].revoked
                           /\ (session[previous].kind = "token" => session[previous].life # 0)
    PROVE  RotationStep
  <1>1. RowsTyped /\ RowsFit /\ 0 \notin Session /\ TokenTime \in Nat \ {0}
    BY RowsOfInv, AuthAssumption
  <1>2. /\ session[n].kind = "none"
        /\ session' = [m \in Session |->
              IF m = n THEN TokenRow(n, previous)
              ELSE IF m = previous THEN [session[m] EXCEPT !.revoked = TRUE, !.replaced = n]
              ELSE session[m]]
    BY DEF IssueTokens, FreshSession, NextId
  <1>3. \A m \in Session \ {n, previous} : session'[m] = session[m]
    BY <1>2
  <1>4. previous # 0 => session'[previous].kind = session[previous].kind
                        /\ session'[previous].revoked = TRUE /\ previous # n
    BY <1>1, <1>2 DEF RowsTyped, Sessions
  <1>5. /\ session'[n].kind = "token" /\ ~session'[n].revoked /\ session'[n].life = TokenTime
        /\ session'[n].family = IF previous # 0 /\ session[previous].kind = "token"
                                  THEN session[previous].family ELSE n
    BY <1>2 DEF TokenRow
  <1>6. Usable(n)' /\ ~Usable(n)
    <2>1. TokenTime > 0
      BY <1>1
    <2>2. Usable(n)'
      BY <1>5, <2>1 DEF Usable, Open
    <2>3. ~Usable(n)
      BY <1>2 DEF Usable
    <2>4. QED
      BY <2>2, <2>3
  <1>7. /\ \A m \in Session \ {n, previous} : Usable(m)' = Usable(m)
        /\ previous # 0 => ~Usable(previous)'
    BY <1>3, <1>4 DEF Usable, Open
  <1>8. n \notin Tokens /\ Tokens' = Tokens \cup {n}
    <2>1. \A m \in Session : session'[m].kind = "token" <=> m = n \/ session[m].kind = "token"
      <3>1. ASSUME NEW m \in Session, m # n
            PROVE  session'[m].kind = session[m].kind
        <4>1. CASE m = previous
          BY <1>1, <1>4, <4>1
        <4>2. CASE m # previous
          BY <1>3, <3>1, <4>2
        <4>3. QED
          BY <4>1, <4>2
      <3>2. QED
        BY <1>5, <3>1
    <2>2. QED
      BY <1>2, <2>1 DEF Tokens
  <1>9. Holder \in [Session -> SUBSET Session] /\ Holder' \in [Session -> SUBSET Session]
    BY DEF Holder
  <1>10. ASSUME NEW f \in Session, NEW m
         PROVE  m \in Holder'[f] <=>
                  \/ m = n /\ f = session'[n].family
                  \/ m \in Holder[f] /\ m # previous
    <2>1. m \in Holder'[f] <=> m \in Session /\ Usable(m)' /\ session'[m].family = f
      BY DEF Holder
    <2>2. CASE m = n
      BY <1>4, <1>6, <2>1, <2>2, HolderIs
    <2>3. CASE m = previous /\ previous # 0
      BY <1>4, <1>7, <2>1, <2>3
    <2>4. CASE m # n /\ (m # previous \/ previous = 0)
      BY <1>1, <1>3, <1>7, <2>1, <2>4, HolderIs
    <2>5. QED
      BY <2>2, <2>3, <2>4
  <1>11. CASE previous # 0 /\ session[previous].kind = "token"
    <2> DEFINE f == session[previous].family
    <2>1. f \in Session /\ previous \in Session
      BY <1>1, <1>11 DEF RowsFit
    <2>2. previous \in Holder[f]
      <3>1. session[previous].life \in Nat
        BY <1>1, <2>1 DEF RowsTyped, Sessions
      <3>2. Usable(previous)
        BY <1>11, <3>1 DEF Usable, Open
      <3>3. QED
        BY <2>1, <3>2, HolderIs
    <2>3. \A g \in Session \ {f} : previous \notin Holder[g]
      BY HolderIs
    <2>4. \A m \in Holder[f] : m = previous
      BY <2>1, <2>2, HolderAlone
    <2>5. Holder'[f] = {n}
      BY <1>5, <1>10, <1>11, <2>1, <2>4
    <2>6. \A g \in Session \ {f} : Holder'[g] = Holder[g]
      BY <1>5, <1>10, <1>11, <2>3
    <2>7. Holder' = [Holder EXCEPT ![f] = {n}]
      BY <1>9, <2>1, <2>5, <2>6
    <2>8. QED
      BY <1>8, <2>1, <2>2, <2>7 DEF RotationStep
  <1>12. CASE ~(previous # 0 /\ session[previous].kind = "token")
    <2>1. \A g \in Session : previous \notin Holder[g]
      BY <1>1, <1>12, HolderIs DEF Usable
    <2>2. Holder[n] = {}
      <3>1. \A m \in Session : session[m].kind = "token" => session[m].family # n
        BY <1>1, <1>2 DEF RowsFit
      <3>2. QED
        BY <3>1, HolderIs DEF Usable
    <2>3. session'[n].family = n
      BY <1>5, <1>12
    <2>4. Holder'[n] = {n}
      BY <1>10, <2>2, <2>3
    <2>5. \A g \in Session \ {n} : Holder'[g] = Holder[g]
      BY <1>10, <2>1, <2>3
    <2>6. Holder' = [Holder EXCEPT ![n] = {n}]
      BY <1>9, <2>4, <2>5
    <2>7. QED
      BY <1>8, <2>6 DEF RotationStep
  <1>13. QED
    BY <1>11, <1>12

\* The switch of the method: all families end and one starts.
LEMMA FamilyRestarted ==
    ASSUME AuthInv, NEW n \in Session, NEW old \in Session,
           FreshSession(n), session[old].kind = "email",
           session' = [RevokeAll EXCEPT ![n] = TokenRow(n, old), ![old].replaced = n]
    PROVE  RotationStep
  <1>1. RowsTyped /\ RowsFit /\ TokenTime \in Nat \ {0}
    BY RowsOfInv, AuthAssumption
  <1>2. session[n].kind = "none" /\ n # old
    BY DEF FreshSession, NextId
  <1> DEFINE R == [m \in Session |-> session[m].kind # "none"]
  <1>3. /\ RevokeAll = [m \in Session |-> [session[m] EXCEPT !.revoked = @ \/ R[m]]]
        /\ R \in [Session -> BOOLEAN]
        /\ \A m \in Session : session[m].kind # "none" => R[m]
    BY DEF RevokeAll, RevokedIf
  <1> HIDE DEF R
  <1>4. ASSUME NEW m \in Session \ {n}
        PROVE  /\ session'[m].kind = session[m].kind
               /\ session[m].kind = "token" => session'[m].revoked
    <2>1. session[m] \in Sessions
      BY <1>1 DEF RowsTyped
    <2>2. /\ RevokeAll[m].kind = session[m].kind
          /\ session[m].kind = "token" => RevokeAll[m].revoked
      BY <1>3, <2>1 DEF Sessions
    <2>3. session'[m] = IF m = old THEN [RevokeAll[m] EXCEPT !.replaced = n] ELSE RevokeAll[m]
      BY <1>2, <1>3
    <2>4. RevokeAll[m] = [session[m] EXCEPT !.revoked = @ \/ R[m]]
      BY <1>3
    <2>5. /\ session'[m].kind = RevokeAll[m].kind /\ session'[m].revoked = RevokeAll[m].revoked
      <3>1. RevokeAll[m] \in Sessions
        BY <1>3, <2>1, <2>4 DEF Sessions
      <3>2. \A row \in Sessions : [row EXCEPT !.replaced = n].kind = row.kind
                                  /\ [row EXCEPT !.replaced = n].revoked = row.revoked
        BY DEF Sessions
      <3>3. QED
        BY <2>3, <3>1, <3>2
    <2>6. QED
      BY <2>2, <2>5
  <1>5. /\ session'[n].kind = "token" /\ ~session'[n].revoked
        /\ session'[n].life = TokenTime /\ session'[n].family = n
    BY <1>2, <1>3 DEF TokenRow
  <1>6. Usable(n)'
    BY <1>1, <1>5 DEF Usable, Open
  <1>7. \A m \in Session \ {n} : ~Usable(m)'
    BY <1>4 DEF Usable, Open
  <1>8. n \notin Tokens /\ Tokens' = Tokens \cup {n}
    <2>1. \A m \in Session : session'[m].kind = "token" <=> m = n \/ session[m].kind = "token"
      BY <1>4, <1>5
    <2>2. QED
      BY <1>2, <2>1 DEF Tokens
  <1>9. \A f \in Session : Holder'[f] = IF f = n THEN {n} ELSE {}
    BY <1>5, <1>6, <1>7 DEF Holder
  <1>10. Holder' = [f \in Session |-> IF f = n THEN {n} ELSE {}]
    BY <1>9 DEF Holder
  <1>11. QED
    BY <1>8, <1>10 DEF RotationStep

\* The rows of a step that issues no token.
NoTokens ==
    \A m \in Session :
        /\ session'[m].kind = "token" <=> session[m].kind = "token"
        /\ session[m].kind = "token" => session'[m].family = session[m].family
        /\ Usable(m)' => Usable(m)

LEMMA NoTokensRefines ==
    ASSUME AuthInv, NoTokens
    PROVE  RotationStep
  BY FamiliesEnd DEF RotationStep, NoTokens

LEMMA RevokedNoTokens ==
    ASSUME AuthInv, NEW R \in [Session -> BOOLEAN],
           session' = [m \in Session |-> [session[m] EXCEPT !.revoked = @ \/ R[m]]]
    PROVE  NoTokens
  <1>1. \A m \in Session : session[m] \in Sessions
    BY RowsOfInv DEF RowsTyped
  <1>2. \A m \in Session :
          /\ session'[m].kind = session[m].kind /\ session'[m].family = session[m].family
          /\ session'[m].life = session[m].life
          /\ ~session'[m].revoked => ~session[m].revoked
    BY <1>1 DEF Sessions
  <1>3. QED
    BY <1>2 DEF NoTokens, Usable, Open

LEMMA SentNoTokens ==
    ASSUME AuthInv, NEW n \in Session, NEW purpose, NEW delivered \in BOOLEAN, NEW consumed,
           Send(n, purpose, delivered, consumed)
    PROVE  NoTokens
  <1>1. RowsTyped /\ RowsFit
    BY RowsOfInv
  <1> DEFINE R == [m \in Session |-> Superseded(m) \/ m = consumed]
  <1>2. /\ session[n].kind = "none" /\ R \in [Session -> BOOLEAN]
        /\ session' = [m \in Session |->
              IF m = n
                THEN [kind |-> "email", revoked |-> ~delivered, life |-> ChallengeTime,
                      replaced |-> 0, family |-> 0]
                ELSE [session[m] EXCEPT !.revoked = @ \/ R[m]]]
    BY <1>1 DEF Send, FreshSession, NextId, RevokedIf, RowsTyped
  <1> HIDE DEF R
  <1>3. \A m \in Session \ {n} :
          /\ session'[m].kind = session[m].kind /\ session'[m].family = session[m].family
          /\ session'[m].life = session[m].life
          /\ ~session'[m].revoked => ~session[m].revoked
    BY <1>1, <1>2 DEF RowsTyped, Sessions
  <1>4. session'[n].kind = "email"
    BY <1>2
  <1>5. QED
    BY <1>2, <1>3, <1>4 DEF NoTokens, Usable, Open

LEMMA ChallengeNoTokens ==
    ASSUME AuthInv, NEW user, Challenge(user)
    PROVE  NoTokens
  <1>1. RowsTyped
    BY RowsOfInv
  <1>2. ASSUME NEW n \in Session, FreshSession(n),
               session' = [session EXCEPT ![n] =
                    [kind |-> "totp", revoked |-> FALSE, life |-> TotpTime,
                     replaced |-> 0, family |-> 0]]
        PROVE  NoTokens
    BY <1>1, <1>2 DEF RowsTyped, FreshSession, NextId, NoTokens, Usable, Open
  <1>3. ASSUME NEW n \in Session, NEW delivered \in BOOLEAN,
               Send(n, IF user.email THEN "login" ELSE "register", delivered, 0)
        PROVE  NoTokens
    BY <1>3, SentNoTokens
  <1>4. QED
    BY <1>2, <1>3 DEF Challenge

LEMMA TickNoTokens ==
    ASSUME AuthInv, Tick
    PROVE  NoTokens
  <1>1. \A m \in Session : session[m] \in Sessions
    BY RowsOfInv DEF RowsTyped
  <1>2. ASSUME NEW m \in Session
        PROVE  /\ session'[m].kind = session[m].kind /\ session'[m].family = session[m].family
               /\ session'[m].revoked = session[m].revoked
               /\ session'[m].life > 0 => session[m].life > 0
    <2>1. session'[m] = [session[m] EXCEPT !.life = Less(session[m].life)]
      BY DEF Tick
    <2>2. session[m].life \in Nat /\ (Less(session[m].life) > 0 => session[m].life > 0)
      BY <1>1 DEF Sessions, Less
    <2>3. QED
      BY <1>1, <2>1, <2>2 DEF Sessions
  <1>3. QED
    BY <1>2 DEF NoTokens, Usable, Open

LEMMA StepRotates ==
    ASSUME AuthInv, NEW p \in Request, Step(p)
    PROVE  RotationStep
  <1> DEFINE arg == request[p].arg
  <1>1. CASE session' = session
    BY <1>1, NoTokensRefines DEF NoTokens, Usable
  <1>2. CASE Register(p) \/ RightPassword(p)
    <2>1. (\E user : Challenge(user)) \/ \E n \in Session : IssueTokens(n, 0)
      BY <1>2 DEF Register, RightPassword
    <2>2. QED
      BY <2>1, ChallengeNoTokens, NoTokensRefines, FamilyAdded
  <1>3. CASE VerifyEmail(p)
    <2>1. /\ request[p].at = "locked" /\ request[p].op = "verify_email" /\ ValidChallenge(p)
          /\ \E n \in Session :
               \/ /\ FreshSession(n)
                  /\ session' = [RevokeAll EXCEPT ![n] = TokenRow(n, arg), ![arg].replaced = n]
               \/ IssueTokens(n, arg)
      BY <1>3 DEF VerifyEmail, Locked
    <2>2. arg \in Session /\ session[arg].kind = "email" /\ ~session[arg].revoked
      BY <2>1, ChallengeOpen DEF CodeOps
    <2>3. QED
      BY <2>1, <2>2, FamilyRestarted, FamilyAdded
  <1>4. CASE ResendEmail(p) \/ VerifyTotp(p)
    <2>1. session' = session \/ \E n \in Session, delivered \in BOOLEAN :
                                   \E purpose, consumed : Send(n, purpose, delivered, consumed)
      BY <1>4 DEF ResendEmail, VerifyTotp, Rollback, dataVars, sessionVars
    <2>2. QED
      BY <1>1, <2>1, SentNoTokens, NoTokensRefines
  <1>5. CASE RefreshReused(p) \/ Logout(p)
    <2>1. session' = session \/ session' = RevokeChain(arg)
      BY <1>5 DEF RefreshReused, Logout
    <2> DEFINE R == [m \in Session |-> m \in RotatedInto(arg)]
    <2>2. CASE session' = RevokeChain(arg)
      <3>1. session' = [m \in Session |-> [session[m] EXCEPT !.revoked = @ \/ R[m]]]
        BY <2>2 DEF RevokeChain, RevokedIf
      <3>2. R \in [Session -> BOOLEAN]
        OBVIOUS
      <3> HIDE DEF R
      <3>3. QED
        BY <3>1, <3>2, RevokedNoTokens, NoTokensRefines
    <2>3. QED
      BY <1>1, <2>1, <2>2
  <1>6. CASE Refresh(p)
    <2>1. /\ request[p].at = "locked" /\ request[p].op = "refresh" /\ ~request[p].row.revoked
          /\ session[arg].life # 0 /\ \E n \in Session : IssueTokens(n, arg)
      BY <1>6 DEF Refresh, Locked, Expired
    <2>2. arg \in Session /\ session[arg].kind = "token" /\ ~session[arg].revoked
      BY <2>1 DEF AuthInv, LockedRead, TokenOps
    <2>3. QED
      BY <2>1, <2>2, FamilyAdded
  <1>7. CASE ResetPassword(p) \/ ChangeStaff(p)
    <2>1. session' = session \/ session' = RevokeAll
      BY <1>7 DEF ResetPassword, ChangeStaff, Rollback, dataVars, sessionVars
    <2> DEFINE R == [m \in Session |-> session[m].kind # "none"]
    <2>2. CASE session' = RevokeAll
      <3>1. session' = [m \in Session |-> [session[m] EXCEPT !.revoked = @ \/ R[m]]]
        BY <2>2 DEF RevokeAll, RevokedIf
      <3>2. R \in [Session -> BOOLEAN]
        OBVIOUS
      <3> HIDE DEF R
      <3>3. QED
        BY <3>1, <3>2, RevokedNoTokens, NoTokensRefines
    <2>3. QED
      BY <1>1, <2>1, <2>2
  <1>8. CASE \/ Lookup(p) \/ LockUser(p) \/ RegisterConflict(p) \/ Fail(p) \/ CreateStaff(p)
             \/ LoginDenied(p) \/ WrongPassword(p) \/ LoginRefused(p)
             \/ ChallengeDenied(p) \/ WrongCode(p) \/ WrongTotp(p)
             \/ RefreshDenied(p) \/ RequestReset(p)
    <2>1. session' = session
      BY <1>8 DEF Lookup, LockUser, RegisterConflict, Fail, CreateStaff, LoginDenied,
         WrongPassword, LoginRefused, ChallengeDenied, WrongCode, WrongTotp, RefreshDenied,
         RequestReset, Rollback, Deny, RefuseCode, dataVars, sessionVars
    <2>2. QED
      BY <1>1, <2>1
  <1>9. QED
    BY <1>2, <1>3, <1>4, <1>5, <1>6, <1>7, <1>8 DEF Step

\* Whatever sign-ins, refreshes, logouts, resets and expiries run together, at
\* most one session of a family can be used, a refresh replaces it by a new
\* one, and a family that ended never comes back (AuthService.issue_tokens,
\* refresh, revoke_session_chain).
THEOREM SessionsRotate == AuthSpec => ImplementsFamilies
  <1>1. AuthInit => Families!FamilyInit
    BY DEF AuthInit, Families!FamilyInit, NoSession, Usable
  <1>2. AuthInv /\ [AuthNext]_authVars => [Families!FamilyNext]_(Families!familyVars)
    <2> SUFFICES ASSUME AuthInv, [AuthNext]_authVars
                 PROVE  [Families!FamilyNext]_(Families!familyVars)
      OBVIOUS
    <2>1. CASE Tick
      BY <2>1, TickNoTokens, NoTokensRefines, StepRefines
    <2>2. ASSUME NEW p \in Request, Step(p)
          PROVE  Families!FamilyNext
      BY <2>2, StepRotates, StepRefines
    <2>3. CASE UNCHANGED authVars
      BY <2>3 DEF authVars, dataVars, sessionVars, Families!familyVars, Usable
    <2>4. QED
      BY <2>1, <2>2, <2>3 DEF AuthNext
  <1>3. QED
    BY <1>1, <1>2, InvHolds, PTL DEF AuthSpec, ImplementsFamilies, Families!FamilySpec
=============================================================================
