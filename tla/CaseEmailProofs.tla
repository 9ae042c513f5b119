-------------------------- MODULE CaseEmailProofs ---------------------------
(***************************************************************************)
(* The outbox of CaseEmail for any number of events, rows, transactions    *)
(* and workers: no mail goes out twice and the record tells the truth.     *)
(***************************************************************************)
EXTENDS CaseEmail, TLAPS

-----------------------------------------------------------------------------
(***************************************************************************)
(* The inductive invariant.                                                *)
(***************************************************************************)
Unsent == {"NONE", "PENDING", "FAILED"}

Locking(w) == worker[w].at \in {"check", "block", "claim"}

Sending(w) == worker[w].at \in {"send", "record"}

\* A worker that decides about a row holds its lock, and the row still waits.
DecidesLocked ==
    \A w \in Worker : Locking(w) =>
        /\ worker[w].row \in Row
        /\ rowLock[worker[w].row] = w
        /\ mail[worker[w].row].status = "PENDING"
        /\ worker[w].at = "block" => worker[w].result \in BlockReasons

\* Who holds a lock is deciding about that row.
LockOwned ==
    \A r \in Row : rowLock[r] # None =>
        /\ rowLock[r] \in Worker
        /\ Locking(rowLock[r])
        /\ worker[rowLock[r]].row = r

\* A worker that uses the network owns a claimed row, alone.
ClaimOwned ==
    /\ \A w \in Worker : Sending(w) =>
          /\ worker[w].row \in Row
          /\ mail[worker[w].row].status = "PROCESSING"
    /\ \A v, w \in Worker :
          Sending(v) /\ Sending(w) /\ worker[v].row = worker[w].row => v = w

\* What the SMTP server has of a row, by the status of the row.
InboxTold ==
    \A r \in Row :
        /\ Len(inbox[r]) <= 1
        /\ mail[r].status \in Unsent => inbox[r] = <<>>
        /\ mail[r].status = "SENT" => inbox[r] # <<>>

\* What the SMTP server has of a row, by what its worker knows.
ResultTold ==
    \A w \in Worker :
        /\ worker[w].at = "send" => inbox[worker[w].row] = <<>>
        /\ worker[w].at = "record" =>
              /\ worker[w].result \in Results
              /\ worker[w].result = "ACCEPTED" => inbox[worker[w].row] # <<>>
              /\ worker[w].result \in {"REJECTED", "BLOCKED"} => inbox[worker[w].row] = <<>>

\* One row per event.
EventOnce ==
    /\ \A r, s \in Row :
          r # s /\ mail[r].event = mail[s].event => mail[r].event = None
    /\ \A r \in Row : mail[r].status # "NONE" => mail[r].event # None

\* An open transaction has a row and an event for itself.
ReportsOwn ==
    /\ \A q \in Request : request[q] # NoRequest =>
          /\ request[q].event \in Event
          /\ request[q].row \in Row
          /\ mail[request[q].row].status = "NONE"
          /\ \A r \in Row : mail[r].event # request[q].event
    /\ \A p, q \in Request :
          p # q /\ request[p] # NoRequest /\ request[q] # NoRequest =>
             request[p].event # request[q].event /\ request[p].row # request[q].row

\* Only a row that was never to be sent has no address.
Addressed ==
    \A r \in Row : mail[r].to = None =>
        mail[r].status \in {"NONE", "FAILED"} /\ mail[r].reason \in {"NONE", "EMAIL_NOT_VERIFIED"}

\* The attempts of a row, by its status.
NumbersTold ==
    \A r \in Row : \A i \in 1..Len(attempts[r]) :
        /\ attempts[r][i].number = i
        /\ attempts[r][i].result \in {"ACCEPTED", "UNKNOWN"} =>
              i = Len(attempts[r]) /\ mail[r].status \notin Unsent

\* The number a worker read for the next attempt is still the next number.
NumberRead ==
    \A w \in Worker : Sending(w) =>
        /\ worker[w].number = Len(attempts[worker[w].row]) + 1
        /\ \A i \in 1..Len(attempts[worker[w].row]) :
              attempts[worker[w].row][i].result \in {"REJECTED", "BLOCKED"}

EmailInv ==
    /\ EmailTypeOK
    /\ DecidesLocked /\ LockOwned /\ ClaimOwned
    /\ InboxTold /\ ResultTold
    /\ EventOnce /\ ReportsOwn /\ Addressed
    /\ NumbersTold /\ NumberRead

-----------------------------------------------------------------------------
(***************************************************************************)
(* Every action keeps it.  Each proof first says what the action does to   *)
(* each row and each worker, then takes the conjuncts one by one.          *)
(***************************************************************************)
\* The table of the mails.
MailTable == [Row -> [event : Event \cup {None}, status : Statuses,
                      reason : Reasons, to : Address \cup {None}]]

WorkerTable == [Worker -> [at : {"idle", "check", "block", "claim", "send", "record"},
                           row : Row \cup {None}, number : Nat, result : Reasons]]

\* An update of the status and the reason of a mail.
LEMMA MailTyped ==
    ASSUME NEW m \in MailTable, NEW r \in Row, NEW st \in Statuses, NEW reason \in Reasons
    PROVE  [m EXCEPT ![r].status = st, ![r].reason = reason] \in MailTable
  BY DEF MailTable

\* A step of a worker: with a result, or with a number.
LEMMA WorkerTyped ==
    ASSUME NEW t \in WorkerTable, NEW w \in Worker,
           NEW at \in {"idle", "check", "block", "claim", "send", "record"}
    PROVE  /\ \A x \in Reasons : [t EXCEPT ![w].at = at, ![w].result = x] \in WorkerTable
           /\ \A n \in Nat : [t EXCEPT ![w].at = at, ![w].number = n] \in WorkerTable
  <1>1. \A x \in Reasons : [t EXCEPT ![w].at = at, ![w].result = x] \in WorkerTable
    BY DEF WorkerTable
  <1>2. ASSUME NEW n \in Nat
        PROVE  [t EXCEPT ![w].at = at, ![w].number = n] \in WorkerTable
    <2>1. [t[w] EXCEPT !.at = at, !.number = n] \in
             [at : {"idle", "check", "block", "claim", "send", "record"},
              row : Row \cup {None}, number : Nat, result : Reasons]
      BY DEF WorkerTable
    <2>2. QED
      BY <2>1 DEF WorkerTable
  <1>3. QED
    BY <1>1, <1>2

\* One more attempt of a row.
LEMMA RowTyped ==
    ASSUME NEW S, NEW f \in [Row -> Seq(S)], NEW r \in Row, NEW x \in S
    PROVE  [f EXCEPT ![r] = Append(@, x)] \in [Row -> Seq(S)]
  OBVIOUS

\* The elements of a sequence.
LEMMA ElementTyped ==
    ASSUME NEW S, NEW h \in Seq(S)
    PROVE  \A i \in 1..Len(h) : h[i] \in S
  OBVIOUS

LEMMA EmailInitInv == Init => EmailInv
  <1> SUFFICES ASSUME Init PROVE EmailInv
    OBVIOUS
  <1> USE EmailAssumption DEF Init, NoMail, NoRequest, IdleWorker
  <1>1. EmailTypeOK
    BY DEF EmailTypeOK, Statuses, Reasons, Results, BlockReasons
  <1>2. DecidesLocked /\ LockOwned /\ ClaimOwned /\ ResultTold /\ NumberRead
    BY DEF DecidesLocked, LockOwned, ClaimOwned, ResultTold, NumberRead, Locking, Sending
  <1>3. InboxTold /\ EventOnce /\ ReportsOwn /\ Addressed /\ NumbersTold
    BY DEF InboxTold, EventOnce, ReportsOwn, Addressed, NumbersTold, Unsent
  <1>4. QED
    BY <1>1, <1>2, <1>3 DEF EmailInv

LEMMA EnqueueInv ==
    ASSUME EmailInv, NEW q \in Request, NEW e \in Event, NEW r \in Row, Enqueue(q, e, r)
    PROVE  EmailInv'
  <1> USE EmailAssumption DEF EmailInv, NoMail, NoRequest, IdleWorker
  <1>a. /\ UNCHANGED <<mail, attempts, rowLock, worker, inbox>>
        /\ request'[q].event = e /\ request'[q].row = r
        /\ \A p \in Request \ {q} : request'[p] = request[p]
        /\ mail[r].status = "NONE"
        /\ \A s \in Row : mail[s].event # e
        /\ \A p \in Request : request[p].event # e /\ request[p].row # r
    BY DEF Enqueue, EmailTypeOK
  <1>1. EmailTypeOK'
    BY DEF EmailTypeOK, Enqueue
  <1>2. DecidesLocked'
    BY <1>a DEF DecidesLocked, Locking
  <1>3. LockOwned'
    BY <1>a DEF LockOwned, Locking
  <1>4. ClaimOwned'
    BY <1>a DEF ClaimOwned, Sending
  <1>5. InboxTold'
    BY <1>a DEF InboxTold, Unsent
  <1>6. ResultTold'
    BY <1>a DEF ResultTold
  <1>7. EventOnce'
    BY <1>a DEF EventOnce
  <1>8. ReportsOwn'
    <2>1. ASSUME NEW p \in Request, request'[p] # NoRequest
          PROVE  /\ request'[p].event \in Event /\ request'[p].row \in Row
                 /\ mail'[request'[p].row].status = "NONE"
                 /\ \A s \in Row : mail'[s].event # request'[p].event
      BY <2>1, <1>a DEF ReportsOwn
    <2>2. ASSUME NEW o \in Request, NEW p \in Request, o # p,
                 request'[o] # NoRequest, request'[p] # NoRequest
          PROVE  request'[o].event # request'[p].event /\ request'[o].row # request'[p].row
      BY <2>2, <1>a DEF ReportsOwn
    <2>3. QED
      BY <2>1, <2>2 DEF ReportsOwn
  <1>9. Addressed'
    BY <1>a DEF Addressed
  <1>10. NumbersTold'
    BY <1>a DEF NumbersTold, Unsent
  <1>11. NumberRead'
    BY <1>a DEF NumberRead, Sending
  <1>12. QED
    BY ONLY <1>1, <1>2, <1>3, <1>4, <1>5, <1>6, <1>7, <1>8, <1>9, <1>10, <1>11 DEF EmailInv

LEMMA EnqueueCommitInv ==
    ASSUME EmailInv, NEW q \in Request, EnqueueCommit(q)
    PROVE  EmailInv'
  <1> USE EmailAssumption DEF EmailInv, NoMail, NoRequest, IdleWorker
  <1> DEFINE r == request[q].row
  <1>r. /\ r \in Row /\ mail[r].status = "NONE"
        /\ request[q].event \in Event /\ request[q].event # None
        /\ \A s \in Row : mail[s].event # request[q].event
        /\ \A p \in Request \ {q} : request[p] # NoRequest =>
              request[p].row # r /\ request[p].event # request[q].event
    BY DEF ReportsOwn, EnqueueCommit
  <1>a. /\ UNCHANGED <<attempts, rowLock, worker, inbox>>
        /\ mail'[r].event = request[q].event /\ mail'[r].status \in {"PENDING", "FAILED"}
        /\ mail'[r].to = None => mail'[r].status = "FAILED" /\ mail'[r].reason = "EMAIL_NOT_VERIFIED"
        /\ \A s \in Row \ {r} : mail'[s] = mail[s]
        /\ request'[q] = NoRequest
        /\ \A p \in Request \ {q} : request'[p] = request[p]
    BY <1>r DEF EnqueueCommit, EmailTypeOK
  <1>1. EmailTypeOK'
    BY <1>r DEF EmailTypeOK, EnqueueCommit, Statuses, Reasons, BlockReasons, Results
  <1> HIDE DEF r
  <1>2. DecidesLocked'
    BY <1>r, <1>a DEF DecidesLocked, Locking
  <1>3. LockOwned'
    BY <1>r, <1>a DEF LockOwned, Locking
  <1>4. ClaimOwned'
    BY <1>r, <1>a DEF ClaimOwned, Sending
  <1>5. InboxTold'
    BY <1>r, <1>a DEF InboxTold, Unsent
  <1>6. ResultTold'
    BY <1>r, <1>a DEF ResultTold
  <1>7. EventOnce'
    BY <1>r, <1>a DEF EventOnce
  <1>8. ReportsOwn'
    <2>1. ASSUME NEW p \in Request, request'[p] # NoRequest
          PROVE  /\ request'[p].event \in Event /\ request'[p].row \in Row
                 /\ mail'[request'[p].row].status = "NONE"
                 /\ \A s \in Row : mail'[s].event # request'[p].event
      <3>1. request'[p] = request[p] /\ request[p] # NoRequest
        BY <2>1, <1>r, <1>a
      <3>2. /\ request[p].event \in Event /\ request[p].row \in Row
            /\ mail[request[p].row].status = "NONE"
            /\ \A s \in Row : mail[s].event # request[p].event
        BY <3>1 DEF ReportsOwn
      <3>3. mail'[request[p].row] = mail[request[p].row]
        BY <3>1, <3>2, <1>r, <1>a
      <3>4. \A s \in Row : mail'[s].event # request[p].event
        BY <3>1, <3>2, <1>r, <1>a
      <3>5. QED
        BY <3>1, <3>2, <3>3, <3>4
    <2>2. ASSUME NEW o \in Request, NEW p \in Request, o # p,
                 request'[o] # NoRequest, request'[p] # NoRequest
          PROVE  request'[o].event # request'[p].event /\ request'[o].row # request'[p].row
      BY <2>2, <1>r, <1>a DEF ReportsOwn
    <2>3. QED
      BY <2>1, <2>2 DEF ReportsOwn
  <1>9. Addressed'
    BY <1>r, <1>a DEF Addressed
  <1>10. NumbersTold'
    BY <1>r, <1>a DEF NumbersTold, Unsent
  <1>11. NumberRead'
    BY <1>r, <1>a DEF NumberRead, Sending
  <1>12. QED
    BY ONLY <1>1, <1>2, <1>3, <1>4, <1>5, <1>6, <1>7, <1>8, <1>9, <1>10, <1>11 DEF EmailInv

LEMMA EnqueueRollbackInv ==
    ASSUME EmailInv, NEW q \in Request, EnqueueRollback(q)
    PROVE  EmailInv'
  <1> USE EmailAssumption DEF EmailInv, NoMail, NoRequest, IdleWorker
  <1>a. /\ UNCHANGED <<mail, attempts, rowLock, worker, inbox>>
        /\ request'[q] = NoRequest
        /\ \A p \in Request \ {q} : request'[p] = request[p]
    BY DEF EnqueueRollback, EmailTypeOK
  <1>1. EmailTypeOK'
    BY DEF EmailTypeOK, EnqueueRollback
  <1>2. DecidesLocked'
    BY <1>a DEF DecidesLocked, Locking
  <1>3. LockOwned'
    BY <1>a DEF LockOwned, Locking
  <1>4. ClaimOwned'
    BY <1>a DEF ClaimOwned, Sending
  <1>5. InboxTold'
    BY <1>a DEF InboxTold, Unsent
  <1>6. ResultTold'
    BY <1>a DEF ResultTold
  <1>7. EventOnce'
    BY <1>a DEF EventOnce
  <1>8. ReportsOwn'
    <2>1. ASSUME NEW p \in Request, request'[p] # NoRequest
          PROVE  /\ request'[p].event \in Event /\ request'[p].row \in Row
                 /\ mail'[request'[p].row].status = "NONE"
                 /\ \A s \in Row : mail'[s].event # request'[p].event
      <3>1. request'[p] = request[p] /\ request[p] # NoRequest
        BY <2>1, <1>a
      <3>2. /\ request[p].event \in Event /\ request[p].row \in Row
            /\ mail[request[p].row].status = "NONE"
            /\ \A s \in Row : mail[s].event # request[p].event
        BY <3>1 DEF ReportsOwn
      <3>3. mail'[request[p].row] = mail[request[p].row]
        BY <3>1, <3>2, <1>a
      <3>4. \A s \in Row : mail'[s].event # request[p].event
        BY <3>1, <3>2, <1>a
      <3>5. QED
        BY <3>1, <3>2, <3>3, <3>4
    <2>2. ASSUME NEW o \in Request, NEW p \in Request, o # p,
                 request'[o] # NoRequest, request'[p] # NoRequest
          PROVE  request'[o].event # request'[p].event /\ request'[o].row # request'[p].row
      BY <2>2, <1>a DEF ReportsOwn
    <2>3. QED
      BY <2>1, <2>2 DEF ReportsOwn
  <1>9. Addressed'
    BY <1>a DEF Addressed
  <1>10. NumbersTold'
    BY <1>a DEF NumbersTold, Unsent
  <1>11. NumberRead'
    BY <1>a DEF NumberRead, Sending
  <1>12. QED
    BY ONLY <1>1, <1>2, <1>3, <1>4, <1>5, <1>6, <1>7, <1>8, <1>9, <1>10, <1>11 DEF EmailInv

LEMMA PickInv ==
    ASSUME EmailInv, NEW w \in Worker, NEW r \in Row, Pick(w, r)
    PROVE  EmailInv'
  <1> USE EmailAssumption DEF EmailInv, NoMail, NoRequest, IdleWorker
  <1>a. /\ UNCHANGED <<mail, attempts, request, inbox>>
        /\ worker[w].at = "idle" /\ rowLock[r] = None /\ mail[r].status = "PENDING"
        /\ worker'[w].at = "check" /\ worker'[w].row = r
        /\ \A v \in Worker \ {w} : worker'[v] = worker[v]
        /\ rowLock'[r] = w
        /\ \A s \in Row \ {r} : rowLock'[s] = rowLock[s]
    BY DEF Pick, Claimable, EmailTypeOK
  <1>1. EmailTypeOK'
    BY DEF EmailTypeOK, Pick, Reasons
  <1>2. DecidesLocked'
    <2>1. ASSUME NEW v \in Worker, Locking(v)'
          PROVE  /\ worker'[v].row \in Row
                 /\ rowLock'[worker'[v].row] = v
                 /\ mail'[worker'[v].row].status = "PENDING"
                 /\ worker'[v].at = "block" => worker'[v].result \in BlockReasons
      <3>1. CASE v = w
        BY <3>1, <1>a
      <3>2. CASE v # w
        <4>1. worker'[v] = worker[v] /\ Locking(v)
          BY <2>1, <3>2, <1>a DEF Locking
        <4>2. worker[v].row # r
          BY <4>1, <1>a DEF DecidesLocked
        <4>3. worker[v].row \in Row /\ rowLock[worker[v].row] = v
          BY <4>1 DEF DecidesLocked
        <4>4. rowLock'[worker[v].row] = v /\ mail' = mail
          BY <4>2, <4>3, <1>a
        <4>5. QED
          BY <4>1, <4>3, <4>4 DEF DecidesLocked
      <3>3. QED
        BY <3>1, <3>2
    <2>2. QED
      BY <2>1 DEF DecidesLocked
  <1>3. LockOwned'
    BY <1>a DEF LockOwned, Locking
  <1>4. ClaimOwned'
    BY <1>a DEF ClaimOwned, Sending
  <1>5. InboxTold'
    BY <1>a DEF InboxTold, Unsent
  <1>6. ResultTold'
    BY <1>a DEF ResultTold
  <1>7. EventOnce'
    BY <1>a DEF EventOnce
  <1>8. ReportsOwn'
    BY <1>a DEF ReportsOwn
  <1>9. Addressed'
    BY <1>a DEF Addressed
  <1>10. NumbersTold'
    BY <1>a DEF NumbersTold, Unsent
  <1>11. NumberRead'
    BY <1>a DEF NumberRead, Sending
  <1>12. QED
    BY ONLY <1>1, <1>2, <1>3, <1>4, <1>5, <1>6, <1>7, <1>8, <1>9, <1>10, <1>11 DEF EmailInv

LEMMA VerifyInv ==
    ASSUME EmailInv, NEW w \in Worker, Verify(w)
    PROVE  EmailInv'
  <1> USE EmailAssumption DEF EmailInv, NoMail, NoRequest, IdleWorker
  <1> DEFINE r == worker[w].row
  <1>r. /\ worker[w].row = r /\ r \in Row /\ rowLock[r] = w /\ mail[r].status = "PENDING" /\ r # None
        /\ \A v \in Worker \ {w} : worker[v].row = r => ~Locking(v) /\ ~Sending(v)
        /\ mail[r].event # None /\ mail[r].to # None
        /\ \A q \in Request : request[q] # NoRequest => request[q].row # r
    BY DEF Verify, DecidesLocked, ClaimOwned, EventOnce, ReportsOwn, Addressed, Locking, Sending

  <1>a. /\ UNCHANGED <<mail, attempts, rowLock, request, inbox>>
        /\ worker[w].at = "check"
        /\ worker'[w].at \in {"claim", "block"} /\ worker'[w].row = r
        /\ worker'[w].at = "block" => worker'[w].result \in BlockReasons
        /\ \A v \in Worker \ {w} : worker'[v] = worker[v]
    BY <1>r DEF Verify, EmailTypeOK, BlockReasons
  <1>1. EmailTypeOK'
    <2>1. \E reason \in Reasons, at \in {"block", "claim"} :
          worker' = [worker EXCEPT ![w].at = at, ![w].result = reason]
      BY DEF Verify, Reasons, BlockReasons
    <2>2. worker' \in WorkerTable
      <3>1. worker \in WorkerTable
        BY DEF EmailTypeOK, WorkerTable
      <3>2. PICK reason \in Reasons, at \in {"block", "claim"} :
               worker' = [worker EXCEPT ![w].at = at, ![w].result = reason]
        BY <2>1
      <3>3. QED
        BY <3>1, <3>2, WorkerTyped
    <2>3. QED
      BY <2>2 DEF EmailTypeOK, WorkerTable, Verify
  <1> HIDE DEF r
  <1>2. DecidesLocked'
    BY <1>r, <1>a DEF DecidesLocked, Locking
  <1>3. LockOwned'
    BY <1>r, <1>a DEF LockOwned, Locking
  <1>4. ClaimOwned'
    BY <1>r, <1>a DEF ClaimOwned, Sending
  <1>5. InboxTold'
    BY <1>r, <1>a DEF InboxTold, Unsent
  <1>6. ResultTold'
    BY <1>r, <1>a DEF ResultTold
  <1>7. EventOnce'
    BY <1>r, <1>a DEF EventOnce
  <1>8. ReportsOwn'
    BY <1>r, <1>a DEF ReportsOwn
  <1>9. Addressed'
    BY <1>r, <1>a DEF Addressed
  <1>10. NumbersTold'
    BY <1>r, <1>a DEF NumbersTold, Unsent
  <1>11. NumberRead'
    <2>1. ASSUME NEW v \in Worker, Sending(v)'
          PROVE  /\ worker'[v].number = Len(attempts'[worker'[v].row]) + 1
                 /\ \A i \in 1..Len(attempts'[worker'[v].row]) :
                       attempts'[worker'[v].row][i].result \in {"REJECTED", "BLOCKED"}
      <3>1. v # w
        BY <2>1, <1>a DEF Sending
      <3>2. worker'[v] = worker[v] /\ attempts' = attempts
        BY <3>1, <1>a
      <3>3. Sending(v)
        BY <2>1, <3>2 DEF Sending
      <3>4. QED
        BY <3>2, <3>3 DEF NumberRead
    <2>2. QED
      BY <2>1 DEF NumberRead
  <1>12. QED
    BY ONLY <1>1, <1>2, <1>3, <1>4, <1>5, <1>6, <1>7, <1>8, <1>9, <1>10, <1>11 DEF EmailInv

LEMMA BlockInv ==
    ASSUME EmailInv, NEW w \in Worker, Block(w)
    PROVE  EmailInv'
  <1> USE EmailAssumption DEF EmailInv, NoMail, NoRequest, IdleWorker
  <1> DEFINE r == worker[w].row
  <1>r. /\ worker[w].row = r /\ r \in Row /\ rowLock[r] = w /\ mail[r].status = "PENDING" /\ r # None
        /\ \A v \in Worker \ {w} : worker[v].row = r => ~Locking(v) /\ ~Sending(v)
        /\ mail[r].event # None /\ mail[r].to # None
        /\ \A q \in Request : request[q] # NoRequest => request[q].row # r
    BY DEF Block, DecidesLocked, ClaimOwned, EventOnce, ReportsOwn, Addressed, Locking, Sending

  <1>a. /\ UNCHANGED <<attempts, request, inbox>>
        /\ mail'[r].status = "FAILED" /\ mail'[r].event = mail[r].event
        /\ mail'[r].to = mail[r].to
        /\ \A s \in Row \ {r} : mail'[s] = mail[s]
        /\ worker'[w].at = "idle"
        /\ \A v \in Worker \ {w} : worker'[v] = worker[v]
        /\ rowLock'[r] = None
        /\ \A s \in Row \ {r} : rowLock'[s] = rowLock[s]
    BY <1>r DEF Block, EmailTypeOK
  <1>b. worker[w].result \in BlockReasons
    BY DEF Block, DecidesLocked, Locking
  <1>o. \A v \in Worker \ {w} : Locking(v) \/ Sending(v) =>
           /\ worker'[v] = worker[v] /\ worker[v].row # r
           /\ mail'[worker[v].row] = mail[worker[v].row]
           /\ rowLock'[worker[v].row] = rowLock[worker[v].row]
           /\ inbox'[worker[v].row] = inbox[worker[v].row]
           /\ attempts'[worker[v].row] = attempts[worker[v].row]
    BY <1>r, <1>a DEF DecidesLocked, ClaimOwned
  <1>q. /\ \A q \in Request : request[q] # NoRequest => mail'[request[q].row] = mail[request[q].row]
        /\ \A s \in Row : mail'[s].event = mail[s].event
        /\ request' = request
    BY <1>r, <1>a DEF ReportsOwn
  <1>1. EmailTypeOK'
    <2>1. mail' \in MailTable
      BY <1>r, <1>b, MailTyped DEF EmailTypeOK, MailTable, Block, Reasons, Statuses
    <2>2. QED
      BY <1>r, <2>1 DEF EmailTypeOK, MailTable, Block, Reasons
  <1> HIDE DEF r
  <1>2. DecidesLocked'
    BY <1>r, <1>a, <1>o, <1>q DEF DecidesLocked, Locking
  <1>3. LockOwned'
    BY <1>r, <1>a, <1>o, <1>q DEF LockOwned, Locking
  <1>4. ClaimOwned'
    BY <1>r, <1>a, <1>o, <1>q DEF ClaimOwned, Sending
  <1>5. InboxTold'
    BY <1>r, <1>a, <1>o, <1>q DEF InboxTold, Unsent
  <1>6. ResultTold'
    BY <1>r, <1>a, <1>o, <1>q DEF ResultTold
  <1>7. EventOnce'
    BY <1>r, <1>a, <1>o, <1>q DEF EventOnce
  <1>8. ReportsOwn'
    <2>1. ASSUME NEW p \in Request, request'[p] # NoRequest
          PROVE  /\ request'[p].event \in Event /\ request'[p].row \in Row
                 /\ mail'[request'[p].row].status = "NONE"
                 /\ \A s \in Row : mail'[s].event # request'[p].event
      <3>1. request'[p] = request[p] /\ request[p] # NoRequest
        BY <2>1, <1>q
      <3>2. /\ request[p].event \in Event /\ request[p].row \in Row
            /\ mail[request[p].row].status = "NONE"
            /\ \A s \in Row : mail[s].event # request[p].event
        BY <3>1 DEF ReportsOwn
      <3>3. mail'[request[p].row] = mail[request[p].row]
        BY <3>1, <3>2, <1>q
      <3>4. \A s \in Row : mail'[s].event # request[p].event
        BY <3>1, <3>2, <1>q
      <3>5. QED
        BY <3>1, <3>2, <3>3, <3>4
    <2>2. ASSUME NEW o \in Request, NEW p \in Request, o # p,
                 request'[o] # NoRequest, request'[p] # NoRequest
          PROVE  request'[o].event # request'[p].event /\ request'[o].row # request'[p].row
      BY <2>2, <1>q DEF ReportsOwn
    <2>3. QED
      BY <2>1, <2>2 DEF ReportsOwn
  <1>9. Addressed'
    <2>1. mail'[r].to # None
      BY <1>r, <1>a
    <2>2. \A s \in Row \ {r} : mail'[s] = mail[s]
      BY <1>a
    <2>3. QED
      BY <2>1, <2>2 DEF Addressed
  <1>10. NumbersTold'
    BY <1>r, <1>a, <1>o, <1>q DEF NumbersTold, Unsent
  <1>11. NumberRead'
    BY <1>r, <1>a, <1>o, <1>q DEF NumberRead, Sending
  <1>12. QED
    BY ONLY <1>1, <1>2, <1>3, <1>4, <1>5, <1>6, <1>7, <1>8, <1>9, <1>10, <1>11 DEF EmailInv

LEMMA ClaimInv ==
    ASSUME EmailInv, NEW w \in Worker, Claim(w)
    PROVE  EmailInv'
  <1> USE EmailAssumption DEF EmailInv, NoMail, NoRequest, IdleWorker
  <1> DEFINE r == worker[w].row
  <1>r. /\ worker[w].row = r /\ r \in Row /\ rowLock[r] = w /\ mail[r].status = "PENDING" /\ r # None
        /\ \A v \in Worker \ {w} : worker[v].row = r => ~Locking(v) /\ ~Sending(v)
        /\ mail[r].event # None /\ mail[r].to # None
        /\ \A q \in Request : request[q] # NoRequest => request[q].row # r
    BY DEF Claim, DecidesLocked, ClaimOwned, EventOnce, ReportsOwn, Addressed, Locking, Sending

  <1>n. Len(attempts[r]) + 1 \in Nat
    BY <1>r DEF EmailTypeOK
  <1>a. /\ UNCHANGED <<attempts, request, inbox>>
        /\ mail'[r].status = "PROCESSING" /\ mail'[r].event = mail[r].event
        /\ mail'[r].to = mail[r].to
        /\ \A s \in Row \ {r} : mail'[s] = mail[s]
        /\ worker'[w].at = "send" /\ worker'[w].row = r
        /\ worker'[w].number = Len(attempts[r]) + 1
        /\ \A v \in Worker \ {w} : worker'[v] = worker[v]
        /\ rowLock'[r] = None
        /\ \A s \in Row \ {r} : rowLock'[s] = rowLock[s]
    BY <1>r DEF Claim, EmailTypeOK
  <1>b. \A i \in 1..Len(attempts[r]) : attempts[r][i].result \in {"REJECTED", "BLOCKED"}
    <2>1. attempts[r] \in Seq([number : Nat, result : Results])
      BY <1>r DEF EmailTypeOK
    <2>2. \A i \in 1..Len(attempts[r]) : attempts[r][i] \in [number : Nat, result : Results]
      BY <2>1, ElementTyped
    <2>3. QED
      BY <1>r, <2>2 DEF NumbersTold, Unsent, Results
  <1>e. inbox[r] = <<>>
    BY <1>r DEF InboxTold, Unsent
  <1>o. \A v \in Worker \ {w} : Locking(v) \/ Sending(v) =>
           /\ worker'[v] = worker[v] /\ worker[v].row # r
           /\ mail'[worker[v].row] = mail[worker[v].row]
           /\ rowLock'[worker[v].row] = rowLock[worker[v].row]
           /\ inbox'[worker[v].row] = inbox[worker[v].row]
           /\ attempts'[worker[v].row] = attempts[worker[v].row]
    BY <1>r, <1>a DEF DecidesLocked, ClaimOwned
  <1>q. /\ \A q \in Request : request[q] # NoRequest => mail'[request[q].row] = mail[request[q].row]
        /\ \A s \in Row : mail'[s].event = mail[s].event
        /\ request' = request
    BY <1>r, <1>a DEF ReportsOwn
  <1>1. EmailTypeOK'
    <2>1. mail' \in MailTable
      BY <1>r, MailTyped DEF EmailTypeOK, MailTable, Claim, Reasons, Results, Statuses
    <2>2. worker' \in WorkerTable
      <3>1. worker \in WorkerTable /\ "send" \in {"idle", "check", "block", "claim", "send", "record"}
        BY DEF EmailTypeOK, WorkerTable
      <3>2. worker' = [worker EXCEPT ![w].at = "send", ![w].number = Len(attempts[r]) + 1]
        BY DEF Claim
      <3>3. QED
        BY <1>n, <3>1, <3>2, WorkerTyped
    <2>3. QED
      BY <1>r, <2>1, <2>2 DEF EmailTypeOK, MailTable, WorkerTable, Claim
  <1> HIDE DEF r
  <1>2. DecidesLocked'
    BY <1>r, <1>a, <1>o, <1>q DEF DecidesLocked, Locking
  <1>3. LockOwned'
    BY <1>r, <1>a, <1>o, <1>q DEF LockOwned, Locking
  <1>4. ClaimOwned'
    BY <1>r, <1>a, <1>o, <1>q DEF ClaimOwned, Sending
  <1>5. InboxTold'
    BY <1>r, <1>a, <1>o, <1>q DEF InboxTold, Unsent
  <1>6. ResultTold'
    <2>1. ASSUME NEW v \in Worker
          PROVE  /\ worker'[v].at = "send" => inbox'[worker'[v].row] = <<>>
                 /\ worker'[v].at = "record" =>
                      /\ worker'[v].result \in Results
                      /\ worker'[v].result = "ACCEPTED" => inbox'[worker'[v].row] # <<>>
                      /\ worker'[v].result \in {"REJECTED", "BLOCKED"} => inbox'[worker'[v].row] = <<>>
      <3>1. CASE v = w
        BY <3>1, <1>a, <1>e, <1>r
      <3>2. CASE v # w
        <4>1. worker'[v] = worker[v]
          BY <3>2, <1>a
        <4>2. Sending(v) => inbox'[worker[v].row] = inbox[worker[v].row]
          BY <3>2, <1>o
        <4>3. QED
          BY <4>1, <4>2 DEF ResultTold, Sending
      <3>3. QED
        BY <3>1, <3>2
    <2>2. QED
      BY <2>1 DEF ResultTold
  <1>7. EventOnce'
    BY <1>r, <1>a, <1>o, <1>q DEF EventOnce
  <1>8. ReportsOwn'
    <2>1. ASSUME NEW p \in Request, request'[p] # NoRequest
          PROVE  /\ request'[p].event \in Event /\ request'[p].row \in Row
                 /\ mail'[request'[p].row].status = "NONE"
                 /\ \A s \in Row : mail'[s].event # request'[p].event
      <3>1. request'[p] = request[p] /\ request[p] # NoRequest
        BY <2>1, <1>q
      <3>2. /\ request[p].event \in Event /\ request[p].row \in Row
            /\ mail[request[p].row].status = "NONE"
            /\ \A s \in Row : mail[s].event # request[p].event
        BY <3>1 DEF ReportsOwn
      <3>3. mail'[request[p].row] = mail[request[p].row]
        BY <3>1, <3>2, <1>q
      <3>4. \A s \in Row : mail'[s].event # request[p].event
        BY <3>1, <3>2, <1>q
      <3>5. QED
        BY <3>1, <3>2, <3>3, <3>4
    <2>2. ASSUME NEW o \in Request, NEW p \in Request, o # p,
                 request'[o] # NoRequest, request'[p] # NoRequest
          PROVE  request'[o].event # request'[p].event /\ request'[o].row # request'[p].row
      BY <2>2, <1>q DEF ReportsOwn
    <2>3. QED
      BY <2>1, <2>2 DEF ReportsOwn
  <1>9. Addressed'
    <2>1. mail'[r].to # None
      BY <1>r, <1>a
    <2>2. \A s \in Row \ {r} : mail'[s] = mail[s]
      BY <1>a
    <2>3. QED
      BY <2>1, <2>2 DEF Addressed
  <1>10. NumbersTold'
    BY <1>r, <1>a, <1>o, <1>q DEF NumbersTold, Unsent
  <1>11. NumberRead'
    <2>1. ASSUME NEW v \in Worker, Sending(v)'
          PROVE  /\ worker'[v].number = Len(attempts'[worker'[v].row]) + 1
                 /\ \A i \in 1..Len(attempts'[worker'[v].row]) :
                       attempts'[worker'[v].row][i].result \in {"REJECTED", "BLOCKED"}
      <3>1. CASE v = w
        BY <2>1, <3>1, <1>r, <1>a, <1>b DEF Sending, NumberRead
      <3>2. CASE v # w
        <4>1. worker'[v] = worker[v] /\ Sending(v)
          BY <2>1, <3>2, <1>a DEF Sending
        <4>2. attempts'[worker[v].row] = attempts[worker[v].row]
          BY <3>2, <4>1, <1>o
        <4>3. QED
          BY <4>1, <4>2 DEF NumberRead
      <3>3. QED
        BY <3>1, <3>2
    <2>2. QED
      BY <2>1 DEF NumberRead
  <1>12. QED
    BY ONLY <1>1, <1>2, <1>3, <1>4, <1>5, <1>6, <1>7, <1>8, <1>9, <1>10, <1>11 DEF EmailInv

LEMMA SendInv ==
    ASSUME EmailInv, NEW w \in Worker, Send(w)
    PROVE  EmailInv'
  <1> USE EmailAssumption DEF EmailInv, NoMail, NoRequest, IdleWorker
  <1> DEFINE r == worker[w].row
  <1>r. /\ worker[w].row = r /\ r \in Row /\ mail[r].status = "PROCESSING"
        /\ \A v \in Worker \ {w} : Sending(v) => worker[v].row # r
        /\ \A v \in Worker : Locking(v) => worker[v].row # r
        /\ mail[r].event # None /\ mail[r].to # None
        /\ \A q \in Request : request[q] # NoRequest => request[q].row # r
    BY DEF Send, DecidesLocked, ClaimOwned, EventOnce, ReportsOwn, Addressed, Locking, Sending

  <1>b. PICK result \in Results :
           /\ worker' = [worker EXCEPT ![w].at = "record", ![w].result = result]
           /\ \/ /\ result \in {"ACCEPTED", "UNKNOWN"}
                 /\ inbox' = [inbox EXCEPT ![r] = Append(@, mail[r].to)]
              \/ /\ result # "ACCEPTED"
                 /\ UNCHANGED inbox
    BY DEF Send
  <1>e. inbox[r] = <<>> /\ mail[r].to \in Address
    BY <1>r DEF Send, ResultTold, EmailTypeOK
  <1>a. /\ UNCHANGED <<mail, attempts, rowLock, request>>
        /\ worker[w].at = "send"
        /\ worker'[w].at = "record" /\ worker'[w].row = r /\ worker'[w].result = result
        /\ worker'[w].number = worker[w].number
        /\ \A v \in Worker \ {w} : worker'[v] = worker[v]
        /\ \A s \in Row \ {r} : inbox'[s] = inbox[s]
    BY <1>r, <1>b DEF Send, EmailTypeOK
  <1>s. \/ result \in {"ACCEPTED", "UNKNOWN"} /\ inbox'[r] = <<mail[r].to>>
        \/ result # "ACCEPTED" /\ inbox'[r] = <<>>
    BY <1>r, <1>b, <1>e DEF EmailTypeOK
  <1>c. /\ Len(inbox'[r]) <= 1
        /\ result = "ACCEPTED" => inbox'[r] # <<>>
        /\ result \in {"REJECTED", "BLOCKED"} => inbox'[r] = <<>>
    <2>1. CASE result \in {"ACCEPTED", "UNKNOWN"} /\ inbox'[r] = <<mail[r].to>>
      <3>1. Len(<<mail[r].to>>) = 1 /\ <<mail[r].to>> # <<>>
        OBVIOUS
      <3>2. QED
        BY <2>1, <3>1
    <2>2. CASE result # "ACCEPTED" /\ inbox'[r] = <<>>
      BY <2>2
    <2>3. QED
      BY <1>s, <2>1, <2>2
  <1>o. \A v \in Worker \ {w} : Locking(v) \/ Sending(v) =>
           /\ worker'[v] = worker[v] /\ worker[v].row # r
           /\ mail'[worker[v].row] = mail[worker[v].row]
           /\ rowLock'[worker[v].row] = rowLock[worker[v].row]
           /\ inbox'[worker[v].row] = inbox[worker[v].row]
           /\ attempts'[worker[v].row] = attempts[worker[v].row]
    BY <1>r, <1>a DEF DecidesLocked, ClaimOwned
  <1>q. /\ \A q \in Request : request[q] # NoRequest => mail'[request[q].row] = mail[request[q].row]
        /\ \A s \in Row : mail'[s].event = mail[s].event
        /\ request' = request
    BY <1>r, <1>a DEF ReportsOwn
  <1>1. EmailTypeOK'
    <2>1. worker' \in WorkerTable
      <3>1. worker \in WorkerTable /\ "record" \in {"idle", "check", "block", "claim", "send", "record"}
        BY DEF EmailTypeOK, WorkerTable
      <3>2. result \in Reasons
        BY DEF Reasons
      <3>3. QED
        BY <1>b, <3>1, <3>2, WorkerTyped
    <2>2. inbox' \in [Row -> Seq(Address)]
      <3>1. Append(inbox[r], mail[r].to) \in Seq(Address) /\ inbox \in [Row -> Seq(Address)]
        BY <1>r, <1>e DEF EmailTypeOK
      <3>2. QED
        BY <1>r, <1>b, <3>1
    <2>3. QED
      BY <2>1, <2>2, <1>a DEF EmailTypeOK, WorkerTable, Send
  <1> HIDE DEF r
  <1>2. DecidesLocked'
    BY <1>r, <1>a, <1>o, <1>q DEF DecidesLocked, Locking
  <1>3. LockOwned'
    BY <1>r, <1>a, <1>o, <1>q DEF LockOwned, Locking
  <1>4. ClaimOwned'
    BY <1>r, <1>a, <1>o, <1>q DEF ClaimOwned, Sending
  <1>5. InboxTold'
    BY <1>r, <1>a, <1>c DEF InboxTold, Unsent
  <1>6. ResultTold'
    <2>1. ASSUME NEW v \in Worker
          PROVE  /\ worker'[v].at = "send" => inbox'[worker'[v].row] = <<>>
                 /\ worker'[v].at = "record" =>
                      /\ worker'[v].result \in Results
                      /\ worker'[v].result = "ACCEPTED" => inbox'[worker'[v].row] # <<>>
                      /\ worker'[v].result \in {"REJECTED", "BLOCKED"} => inbox'[worker'[v].row] = <<>>
      <3>1. CASE v = w
        BY <3>1, <1>r, <1>a, <1>c
      <3>2. CASE v # w
        <4>1. worker'[v] = worker[v]
          BY <3>2, <1>a
        <4>2. Sending(v) => inbox'[worker[v].row] = inbox[worker[v].row]
          BY <3>2, <1>o
        <4>3. QED
          BY <4>1, <4>2 DEF ResultTold, Sending
      <3>3. QED
        BY <3>1, <3>2
    <2>2. QED
      BY <2>1 DEF ResultTold
  <1>7. EventOnce'
    BY <1>r, <1>a, <1>o, <1>q DEF EventOnce
  <1>8. ReportsOwn'
    <2>1. ASSUME NEW p \in Request, request'[p] # NoRequest
          PROVE  /\ request'[p].event \in Event /\ request'[p].row \in Row
                 /\ mail'[request'[p].row].status = "NONE"
                 /\ \A s \in Row : mail'[s].event # request'[p].event
      <3>1. request'[p] = request[p] /\ request[p] # NoRequest
        BY <2>1, <1>q
      <3>2. /\ request[p].event \in Event /\ request[p].row \in Row
            /\ mail[request[p].row].status = "NONE"
            /\ \A s \in Row : mail[s].event # request[p].event
        BY <3>1 DEF ReportsOwn
      <3>3. mail'[request[p].row] = mail[request[p].row]
        BY <3>1, <3>2, <1>q
      <3>4. \A s \in Row : mail'[s].event # request[p].event
        BY <3>1, <3>2, <1>q
      <3>5. QED
        BY <3>1, <3>2, <3>3, <3>4
    <2>2. ASSUME NEW o \in Request, NEW p \in Request, o # p,
                 request'[o] # NoRequest, request'[p] # NoRequest
          PROVE  request'[o].event # request'[p].event /\ request'[o].row # request'[p].row
      BY <2>2, <1>q DEF ReportsOwn
    <2>3. QED
      BY <2>1, <2>2 DEF ReportsOwn
  <1>9. Addressed'
    BY <1>r, <1>a, <1>o, <1>q DEF Addressed
  <1>10. NumbersTold'
    BY <1>r, <1>a, <1>o, <1>q DEF NumbersTold, Unsent
  <1>11. NumberRead'
    <2>1. ASSUME NEW v \in Worker, Sending(v)'
          PROVE  /\ worker'[v].number = Len(attempts'[worker'[v].row]) + 1
                 /\ \A i \in 1..Len(attempts'[worker'[v].row]) :
                       attempts'[worker'[v].row][i].result \in {"REJECTED", "BLOCKED"}
      <3>1. CASE v = w
        <4>1. Sending(w)
          BY <1>a DEF Sending
        <4>2. /\ worker[w].number = Len(attempts[worker[w].row]) + 1
              /\ \A i \in 1..Len(attempts[worker[w].row]) :
                    attempts[worker[w].row][i].result \in {"REJECTED", "BLOCKED"}
          BY <4>1 DEF NumberRead
        <4>3. /\ worker'[v].number = worker[w].number
              /\ worker'[v].row = worker[w].row /\ attempts' = attempts
          BY <3>1, <1>r, <1>a
        <4>4. QED
          BY <4>2, <4>3
      <3>2. CASE v # w
        <4>1. worker'[v] = worker[v] /\ Sending(v)
          BY <2>1, <3>2, <1>a DEF Sending
        <4>2. attempts'[worker[v].row] = attempts[worker[v].row]
          BY <3>2, <4>1, <1>o
        <4>3. QED
          BY <4>1, <4>2 DEF NumberRead
      <3>3. QED
        BY <3>1, <3>2
    <2>2. QED
      BY <2>1 DEF NumberRead
  <1>12. QED
    BY ONLY <1>1, <1>2, <1>3, <1>4, <1>5, <1>6, <1>7, <1>8, <1>9, <1>10, <1>11 DEF EmailInv

LEMMA RecordInv ==
    ASSUME EmailInv, NEW w \in Worker, Record(w)
    PROVE  EmailInv'
  <1> USE EmailAssumption DEF EmailInv, NoMail, NoRequest, IdleWorker
  <1> DEFINE r == worker[w].row
  <1>r. /\ worker[w].row = r /\ r \in Row /\ mail[r].status = "PROCESSING"
        /\ \A v \in Worker \ {w} : Sending(v) => worker[v].row # r
        /\ \A v \in Worker : Locking(v) => worker[v].row # r
        /\ mail[r].event # None /\ mail[r].to # None
        /\ \A q \in Request : request[q] # NoRequest => request[q].row # r
    BY DEF Record, DecidesLocked, ClaimOwned, EventOnce, ReportsOwn, Addressed, Locking, Sending

  <1> DEFINE result == worker[w].result
  <1>b. /\ result \in Results /\ worker[w].number = Len(attempts[r]) + 1
        /\ \A i \in 1..Len(attempts[r]) : attempts[r][i].result \in {"REJECTED", "BLOCKED"}
        /\ result = "ACCEPTED" => inbox[r] # <<>>
        /\ result \in {"REJECTED", "BLOCKED"} => inbox[r] = <<>>
    BY DEF Record, ResultTold, NumberRead, Sending
  <1>a. /\ UNCHANGED <<rowLock, request, inbox>>
        /\ mail'[r].event = mail[r].event /\ mail'[r].to = mail[r].to
        /\ result = "ACCEPTED" => mail'[r].status = "SENT"
        /\ result \in {"REJECTED", "BLOCKED"} => mail'[r].status = "FAILED"
        /\ result = "UNKNOWN" => mail'[r].status = "PROCESSING"
        /\ \A s \in Row \ {r} : mail'[s] = mail[s] /\ attempts'[s] = attempts[s]
        /\ attempts'[r] = Append(attempts[r], [number |-> worker[w].number, result |-> result])
        /\ worker'[w].at = "idle"
        /\ \A v \in Worker \ {w} : worker'[v] = worker[v]
    <2>1. /\ mail' = [mail EXCEPT
               ![r].status = CASE result = "ACCEPTED" -> "SENT"
                               [] result \in {"REJECTED", "BLOCKED"} -> "FAILED"
                               [] OTHER -> @,
               ![r].reason = result]
          /\ attempts' = [attempts EXCEPT ![r] =
                Append(@, [number |-> worker[w].number, result |-> result])]
          /\ worker' = [worker EXCEPT ![w] = IdleWorker]
          /\ UNCHANGED <<rowLock, request, inbox>>
      BY DEF Record
    <2>2. /\ mail'[r].event = mail[r].event /\ mail'[r].to = mail[r].to
          /\ result = "ACCEPTED" => mail'[r].status = "SENT"
          /\ result \in {"REJECTED", "BLOCKED"} => mail'[r].status = "FAILED"
          /\ result = "UNKNOWN" => mail'[r].status = "PROCESSING"
          /\ \A s \in Row \ {r} : mail'[s] = mail[s]
      BY <1>r, <2>1 DEF EmailTypeOK
    <2>3. /\ attempts'[r] = Append(attempts[r], [number |-> worker[w].number, result |-> result])
          /\ \A s \in Row \ {r} : attempts'[s] = attempts[s]
      BY <1>r, <2>1 DEF EmailTypeOK
    <2>4. worker'[w].at = "idle" /\ \A v \in Worker \ {w} : worker'[v] = worker[v]
      BY <2>1 DEF EmailTypeOK
    <2>5. QED
      BY ONLY <2>1, <2>2, <2>3, <2>4
  <1>c. /\ Len(attempts'[r]) = Len(attempts[r]) + 1
        /\ attempts'[r][Len(attempts[r]) + 1] = [number |-> Len(attempts[r]) + 1, result |-> result]
        /\ \A i \in 1..Len(attempts[r]) : attempts'[r][i] = attempts[r][i]
        /\ Len(attempts[r]) \in Nat
    <2>1. /\ attempts[r] \in Seq([number : Nat, result : Results])
          /\ [number |-> worker[w].number, result |-> result] \in [number : Nat, result : Results]
      BY <1>r, <1>b DEF EmailTypeOK
    <2>2. attempts'[r] = Append(attempts[r], [number |-> Len(attempts[r]) + 1, result |-> result])
      BY <1>a, <1>b
    <2>3. QED
      BY ONLY <2>1, <2>2, <1>b
  <1>o. \A v \in Worker \ {w} : Locking(v) \/ Sending(v) =>
           /\ worker'[v] = worker[v] /\ worker[v].row # r
           /\ mail'[worker[v].row] = mail[worker[v].row]
           /\ rowLock'[worker[v].row] = rowLock[worker[v].row]
           /\ inbox'[worker[v].row] = inbox[worker[v].row]
           /\ attempts'[worker[v].row] = attempts[worker[v].row]
    BY <1>r, <1>a DEF DecidesLocked, ClaimOwned
  <1>q. /\ \A q \in Request : request[q] # NoRequest => mail'[request[q].row] = mail[request[q].row]
        /\ \A s \in Row : mail'[s].event = mail[s].event
        /\ request' = request
    BY <1>r, <1>a DEF ReportsOwn
  <1>1. EmailTypeOK'
    <2>1. mail' \in MailTable
      <3>1. PICK st \in Statuses : mail' = [mail EXCEPT ![r].status = st, ![r].reason = result]
        BY <1>r, <1>b DEF EmailTypeOK, Record, Statuses, Results
      <3>2. mail \in MailTable /\ result \in Reasons
        BY <1>b DEF EmailTypeOK, MailTable, Reasons
      <3>3. QED
        BY <1>r, <3>1, <3>2, MailTyped
    <2>2. attempts' \in [Row -> Seq([number : Nat, result : Results])]
      <3>1. [number |-> worker[w].number, result |-> result] \in [number : Nat, result : Results]
        BY <1>b DEF EmailTypeOK
      <3>2. attempts' = [attempts EXCEPT ![r] =
                Append(@, [number |-> worker[w].number, result |-> result])]
        BY DEF Record
      <3>3. QED
        BY <1>r, <3>1, <3>2, RowTyped DEF EmailTypeOK
    <2>3. QED
      BY <1>r, <2>1, <2>2 DEF EmailTypeOK, MailTable, Record, Reasons
  <1> HIDE DEF r
  <1>2. DecidesLocked'
    BY <1>r, <1>a, <1>o, <1>q DEF DecidesLocked, Locking
  <1>3. LockOwned'
    BY <1>r, <1>a, <1>o, <1>q DEF LockOwned, Locking
  <1>4. ClaimOwned'
    BY <1>r, <1>a, <1>o, <1>q DEF ClaimOwned, Sending
  <1>5. InboxTold'
    BY <1>r, <1>a, <1>b DEF InboxTold, Unsent, Results
  <1>6. ResultTold'
    BY <1>r, <1>a, <1>o, <1>q DEF ResultTold
  <1>7. EventOnce'
    BY <1>r, <1>a, <1>o, <1>q DEF EventOnce
  <1>8. ReportsOwn'
    <2>1. ASSUME NEW p \in Request, request'[p] # NoRequest
          PROVE  /\ request'[p].event \in Event /\ request'[p].row \in Row
                 /\ mail'[request'[p].row].status = "NONE"
                 /\ \A s \in Row : mail'[s].event # request'[p].event
      <3>1. request'[p] = request[p] /\ request[p] # NoRequest
        BY <2>1, <1>q
      <3>2. /\ request[p].event \in Event /\ request[p].row \in Row
            /\ mail[request[p].row].status = "NONE"
            /\ \A s \in Row : mail[s].event # request[p].event
        BY <3>1 DEF ReportsOwn
      <3>3. mail'[request[p].row] = mail[request[p].row]
        BY <3>1, <3>2, <1>q
      <3>4. \A s \in Row : mail'[s].event # request[p].event
        BY <3>1, <3>2, <1>q
      <3>5. QED
        BY <3>1, <3>2, <3>3, <3>4
    <2>2. ASSUME NEW o \in Request, NEW p \in Request, o # p,
                 request'[o] # NoRequest, request'[p] # NoRequest
          PROVE  request'[o].event # request'[p].event /\ request'[o].row # request'[p].row
      BY <2>2, <1>q DEF ReportsOwn
    <2>3. QED
      BY <2>1, <2>2 DEF ReportsOwn
  <1>9. Addressed'
    <2>1. mail'[r].to # None
      BY <1>r, <1>a
    <2>2. \A s \in Row \ {r} : mail'[s] = mail[s]
      BY <1>a
    <2>3. QED
      BY <2>1, <2>2 DEF Addressed
  <1>10. NumbersTold'
    <2>1. ASSUME NEW i \in 1..Len(attempts'[r])
          PROVE  /\ attempts'[r][i].number = i
                 /\ attempts'[r][i].result \in {"ACCEPTED", "UNKNOWN"} =>
                       i = Len(attempts'[r]) /\ mail'[r].status \notin Unsent
      <3>1. CASE i = Len(attempts[r]) + 1
        BY <3>1, <1>a, <1>b, <1>c DEF Unsent, Results
      <3>2. CASE i \in 1..Len(attempts[r])
        <4>1. attempts'[r][i] = attempts[r][i] /\ attempts[r][i].number = i
          BY <3>2, <1>r, <1>c DEF NumbersTold
        <4>2. attempts[r][i].result \in {"REJECTED", "BLOCKED"}
          BY <3>2, <1>b
        <4>3. QED
          BY <4>1, <4>2
      <3>3. QED
        BY <3>1, <3>2, <1>c
    <2>2. \A s \in Row \ {r} : mail'[s] = mail[s] /\ attempts'[s] = attempts[s]
      BY <1>a
    <2>3. ASSUME NEW s \in Row \ {r}, NEW i \in 1..Len(attempts'[s])
          PROVE  /\ attempts'[s][i].number = i
                 /\ attempts'[s][i].result \in {"ACCEPTED", "UNKNOWN"} =>
                       i = Len(attempts'[s]) /\ mail'[s].status \notin Unsent
      <3>1. attempts'[s] = attempts[s] /\ mail'[s] = mail[s]
        BY <2>2
      <3>2. i \in 1..Len(attempts[s])
        BY <3>1
      <3>3. /\ attempts[s][i].number = i
            /\ attempts[s][i].result \in {"ACCEPTED", "UNKNOWN"} =>
                  i = Len(attempts[s]) /\ mail[s].status \notin Unsent
        BY <3>2 DEF NumbersTold
      <3>4. QED
        BY <3>1, <3>3
    <2>4. QED
      BY <2>1, <2>3 DEF NumbersTold
  <1>11. NumberRead'
    <2>1. ASSUME NEW v \in Worker, Sending(v)'
          PROVE  /\ worker'[v].number = Len(attempts'[worker'[v].row]) + 1
                 /\ \A i \in 1..Len(attempts'[worker'[v].row]) :
                       attempts'[worker'[v].row][i].result \in {"REJECTED", "BLOCKED"}
      <3>1. CASE v = w
        BY <2>1, <3>1, <1>a DEF Sending, NumberRead
      <3>2. CASE v # w
        <4>1. worker'[v] = worker[v] /\ Sending(v)
          BY <2>1, <3>2, <1>a DEF Sending
        <4>2. attempts'[worker[v].row] = attempts[worker[v].row]
          BY <3>2, <4>1, <1>o
        <4>3. QED
          BY <4>1, <4>2 DEF NumberRead
      <3>3. QED
        BY <3>1, <3>2
    <2>2. QED
      BY <2>1 DEF NumberRead
  <1>12. QED
    BY ONLY <1>1, <1>2, <1>3, <1>4, <1>5, <1>6, <1>7, <1>8, <1>9, <1>10, <1>11 DEF EmailInv

LEMMA CrashInv ==
    ASSUME EmailInv, NEW w \in Worker, Crash(w)
    PROVE  EmailInv'
  <1> USE EmailAssumption DEF EmailInv, NoMail, NoRequest, IdleWorker
  <1>a. /\ UNCHANGED <<mail, attempts, request, inbox>>
        /\ worker'[w].at = "idle"
        /\ \A v \in Worker \ {w} : worker'[v] = worker[v]
        /\ \A r \in Row : rowLock'[r] = IF rowLock[r] = w THEN None ELSE rowLock[r]
    BY DEF Crash, EmailTypeOK
  <1>1. EmailTypeOK'
    <2>1. rowLock' \in [Row -> Worker \cup {None}] /\ crashes' \in Nat
      BY DEF EmailTypeOK, Crash
    <2>2. QED
      BY <2>1 DEF EmailTypeOK, Crash, Reasons
  <1>2. DecidesLocked'
    <2>1. ASSUME NEW v \in Worker, Locking(v)'
          PROVE  /\ worker'[v].row \in Row
                 /\ rowLock'[worker'[v].row] = v
                 /\ mail'[worker'[v].row].status = "PENDING"
                 /\ worker'[v].at = "block" => worker'[v].result \in BlockReasons
      <3>1. v # w
        BY <2>1, <1>a DEF Locking
      <3>2. worker'[v] = worker[v] /\ Locking(v) /\ mail' = mail
        BY <2>1, <3>1, <1>a DEF Locking
      <3>3. worker[v].row \in Row /\ rowLock[worker[v].row] = v
        BY <3>2 DEF DecidesLocked
      <3>4. rowLock'[worker[v].row] = v
        BY <3>1, <3>3, <1>a
      <3>5. QED
        BY <3>2, <3>3, <3>4 DEF DecidesLocked
    <2>2. QED
      BY <2>1 DEF DecidesLocked
  <1>3. LockOwned'
    BY <1>a DEF LockOwned, Locking
  <1>4. ClaimOwned'
    BY <1>a DEF ClaimOwned, Sending
  <1>5. InboxTold'
    BY <1>a DEF InboxTold, Unsent
  <1>6. ResultTold'
    BY <1>a DEF ResultTold
  <1>7. EventOnce'
    BY <1>a DEF EventOnce
  <1>8. ReportsOwn'
    BY <1>a DEF ReportsOwn
  <1>9. Addressed'
    BY <1>a DEF Addressed
  <1>10. NumbersTold'
    BY <1>a DEF NumbersTold, Unsent
  <1>11. NumberRead'
    BY <1>a DEF NumberRead, Sending
  <1>12. QED
    BY ONLY <1>1, <1>2, <1>3, <1>4, <1>5, <1>6, <1>7, <1>8, <1>9, <1>10, <1>11 DEF EmailInv

LEMMA RetryInv ==
    ASSUME EmailInv, NEW r \in Row, Retry(r)
    PROVE  EmailInv'
  <1> USE EmailAssumption DEF EmailInv, NoMail, NoRequest, IdleWorker
  <1>a. /\ UNCHANGED <<attempts, rowLock, request, worker, inbox>>
        /\ mail[r].status = "FAILED" /\ mail[r].reason \in {"REJECTED", "BLOCKED"}
        /\ mail'[r].status = "PENDING" /\ mail'[r].event = mail[r].event
        /\ mail'[r].to = mail[r].to
        /\ \A s \in Row \ {r} : mail'[s] = mail[s]
    BY DEF Retry, EmailTypeOK
  <1>q. /\ \A q \in Request : request[q] # NoRequest => mail'[request[q].row] = mail[request[q].row]
        /\ \A s \in Row : mail'[s].event = mail[s].event
        /\ request' = request
    BY <1>a DEF ReportsOwn
  <1>1. EmailTypeOK'
    <2>1. mail' \in MailTable
      <3>1. mail \in MailTable
        BY DEF EmailTypeOK, MailTable
      <3>2. "PENDING" \in Statuses /\ "QUEUED" \in Reasons
        BY DEF Statuses, Reasons
      <3>3. mail' = [mail EXCEPT ![r].status = "PENDING", ![r].reason = "QUEUED"]
        BY DEF Retry
      <3>4. QED
        BY <3>1, <3>2, <3>3, MailTyped
    <2>2. QED
      BY <2>1 DEF EmailTypeOK, MailTable, Retry
  <1>2. DecidesLocked'
    BY <1>a DEF DecidesLocked, Locking
  <1>3. LockOwned'
    BY <1>a DEF LockOwned, Locking
  <1>4. ClaimOwned'
    BY <1>a DEF ClaimOwned, Sending
  <1>5. InboxTold'
    BY <1>a DEF InboxTold, Unsent
  <1>6. ResultTold'
    BY <1>a DEF ResultTold
  <1>7. EventOnce'
    BY <1>a DEF EventOnce
  <1>8. ReportsOwn'
    <2>1. ASSUME NEW p \in Request, request'[p] # NoRequest
          PROVE  /\ request'[p].event \in Event /\ request'[p].row \in Row
                 /\ mail'[request'[p].row].status = "NONE"
                 /\ \A s \in Row : mail'[s].event # request'[p].event
      <3>1. request'[p] = request[p] /\ request[p] # NoRequest
        BY <2>1, <1>q
      <3>2. /\ request[p].event \in Event /\ request[p].row \in Row
            /\ mail[request[p].row].status = "NONE"
            /\ \A s \in Row : mail[s].event # request[p].event
        BY <3>1 DEF ReportsOwn
      <3>3. mail'[request[p].row] = mail[request[p].row]
        BY <3>1, <3>2, <1>q
      <3>4. \A s \in Row : mail'[s].event # request[p].event
        BY <3>1, <3>2, <1>q
      <3>5. QED
        BY <3>1, <3>2, <3>3, <3>4
    <2>2. ASSUME NEW o \in Request, NEW p \in Request, o # p,
                 request'[o] # NoRequest, request'[p] # NoRequest
          PROVE  request'[o].event # request'[p].event /\ request'[o].row # request'[p].row
      BY <2>2, <1>q DEF ReportsOwn
    <2>3. QED
      BY <2>1, <2>2 DEF ReportsOwn
  <1>9. Addressed'
    BY <1>a DEF Addressed
  <1>10. NumbersTold'
    BY <1>a DEF NumbersTold, Unsent
  <1>11. NumberRead'
    BY <1>a DEF NumberRead, Sending
  <1>12. QED
    BY ONLY <1>1, <1>2, <1>3, <1>4, <1>5, <1>6, <1>7, <1>8, <1>9, <1>10, <1>11 DEF EmailInv

LEMMA ChangeProofInv ==
    ASSUME EmailInv, ChangeProof
    PROVE  EmailInv'
  <1> USE EmailAssumption DEF EmailInv, NoMail, NoRequest, IdleWorker
  <1>a. UNCHANGED <<mail, attempts, rowLock, request, worker, inbox>>
    BY DEF ChangeProof
  <1>1. EmailTypeOK'
    BY DEF EmailTypeOK, ChangeProof
  <1>2. DecidesLocked'
    BY <1>a DEF DecidesLocked, Locking
  <1>3. LockOwned'
    BY <1>a DEF LockOwned, Locking
  <1>4. ClaimOwned'
    BY <1>a DEF ClaimOwned, Sending
  <1>5. InboxTold'
    BY <1>a DEF InboxTold, Unsent
  <1>6. ResultTold'
    BY <1>a DEF ResultTold
  <1>7. EventOnce'
    BY <1>a DEF EventOnce
  <1>8. ReportsOwn'
    BY <1>a DEF ReportsOwn
  <1>9. Addressed'
    BY <1>a DEF Addressed
  <1>10. NumbersTold'
    BY <1>a DEF NumbersTold, Unsent
  <1>11. NumberRead'
    BY <1>a DEF NumberRead, Sending
  <1>12. QED
    BY ONLY <1>1, <1>2, <1>3, <1>4, <1>5, <1>6, <1>7, <1>8, <1>9, <1>10, <1>11 DEF EmailInv

LEMMA ChangePortalInv ==
    ASSUME EmailInv, ChangePortal
    PROVE  EmailInv'
  <1> USE EmailAssumption DEF EmailInv, NoMail, NoRequest, IdleWorker
  <1>a. UNCHANGED <<mail, attempts, rowLock, request, worker, inbox>>
    BY DEF ChangePortal
  <1>1. EmailTypeOK'
    BY DEF EmailTypeOK, ChangePortal
  <1>2. DecidesLocked'
    BY <1>a DEF DecidesLocked, Locking
  <1>3. LockOwned'
    BY <1>a DEF LockOwned, Locking
  <1>4. ClaimOwned'
    BY <1>a DEF ClaimOwned, Sending
  <1>5. InboxTold'
    BY <1>a DEF InboxTold, Unsent
  <1>6. ResultTold'
    BY <1>a DEF ResultTold
  <1>7. EventOnce'
    BY <1>a DEF EventOnce
  <1>8. ReportsOwn'
    BY <1>a DEF ReportsOwn
  <1>9. Addressed'
    BY <1>a DEF Addressed
  <1>10. NumbersTold'
    BY <1>a DEF NumbersTold, Unsent
  <1>11. NumberRead'
    BY <1>a DEF NumberRead, Sending
  <1>12. QED
    BY ONLY <1>1, <1>2, <1>3, <1>4, <1>5, <1>6, <1>7, <1>8, <1>9, <1>10, <1>11 DEF EmailInv

\* Every step keeps the invariant.
LEMMA EmailNextInv == EmailInv /\ [Next]_emailVars => EmailInv'
  <1> SUFFICES ASSUME EmailInv, [Next]_emailVars PROVE EmailInv'
    OBVIOUS
  <1>1. ASSUME NEW q \in Request,
               \/ \E e \in Event, r \in Row : Enqueue(q, e, r)
               \/ EnqueueCommit(q)
               \/ EnqueueRollback(q)
        PROVE  EmailInv'
    BY <1>1, EnqueueInv, EnqueueCommitInv, EnqueueRollbackInv
  <1>2. ASSUME NEW w \in Worker, WorkerStep(w) PROVE EmailInv'
    BY <1>2, PickInv, VerifyInv, BlockInv, ClaimInv, SendInv, RecordInv DEF WorkerStep
  <1>3. ASSUME NEW w \in Worker, Crash(w) PROVE EmailInv'
    BY <1>3, CrashInv
  <1>4. ASSUME NEW r \in Row, Retry(r) PROVE EmailInv'
    BY <1>4, RetryInv
  <1>5. CASE ChangeProof \/ ChangePortal
    BY <1>5, ChangeProofInv, ChangePortalInv
  <1>6. CASE UNCHANGED emailVars
    <2>1. UNCHANGED <<mail, attempts, rowLock, request, worker, proof, portal, inbox, crashes>>
      BY <1>6 DEF emailVars
    <2>2. EmailTypeOK'
      BY <2>1 DEF EmailInv, EmailTypeOK
    <2>3. DecidesLocked' /\ LockOwned' /\ ClaimOwned'
      BY <2>1 DEF EmailInv, DecidesLocked, LockOwned, ClaimOwned, Locking, Sending
    <2>4. InboxTold' /\ ResultTold' /\ EventOnce' /\ ReportsOwn' /\ Addressed'
      BY <2>1 DEF EmailInv, InboxTold, ResultTold, EventOnce, ReportsOwn, Addressed
    <2>5. NumbersTold' /\ NumberRead'
      BY <2>1 DEF EmailInv, NumbersTold, NumberRead, Sending
    <2>6. QED
      BY <2>2, <2>3, <2>4, <2>5 DEF EmailInv
  <1>7. QED
    BY <1>1, <1>2, <1>3, <1>4, <1>5, <1>6 DEF Next

\* The invariant holds in every reachable state.
LEMMA EmailInvariant == Spec => []EmailInv
  BY EmailInitInv, EmailNextInv, PTL DEF Spec

-----------------------------------------------------------------------------
(***************************************************************************)
(* The theorems.                                                           *)
(***************************************************************************)
\* The outbox is well typed: a status is a status, a lock is a worker's
\* (case_email.py:115-168).
THEOREM EmailTyped == Spec => []EmailTypeOK
  <1>1. EmailInv => EmailTypeOK
    BY DEF EmailInv
  <1>2. QED
    BY <1>1, EmailInvariant, PTL

\* However many transactions, workers, crashes and retries: no mail is handed to
\* the SMTP server twice, and no event has two mails (case_email.py:59-180).
THEOREM NeverTwice == Spec => []AtMostOnce
  <1>1. EmailInv => AtMostOnce
    BY DEF EmailInv, AtMostOnce, InboxTold, EventOnce
  <1>2. QED
    BY <1>1, EmailInvariant, PTL

\* SENT mail was accepted and FAILED mail was not (case_email.py:154-167); the
\* attempts of a mail are numbered without a gap or a repetition, and none
\* follows an attempt that may have delivered it (case_email.py:146-147, 161).
THEOREM RecordsTold == Spec => []RecordsTrue
  <1>1. EmailInv => RecordsTrue
    BY DEF EmailInv, RecordsTrue, InboxTold, Unsent, NumbersTold
  <1>2. QED
    BY <1>1, EmailInvariant, PTL
=============================================================================
