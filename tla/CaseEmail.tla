----------------------------- MODULE CaseEmail ------------------------------
(***************************************************************************)
(* The outbox of case emails (app/modules/communications/case_email.py).   *)
(* A case transaction enqueues one row per event; worker processes claim   *)
(* rows, hand them to the SMTP server outside any transaction and record   *)
(* the result; an operator may requeue a failed row.  A worker can die     *)
(* between any two steps, and the answer of the SMTP server can be lost.   *)
(***************************************************************************)
EXTENDS Naturals, Sequences

CONSTANTS
    Event,        \* the case events mail is about: event type and source row
    Row,          \* notification rows, numbered in the order of created_at
    Request,      \* the case transactions that may be open at once
    Worker,       \* worker processes
    Address,      \* email addresses
    None,         \* no address, event, row or worker
    MaxAttempts,  \* bound on the SMTP attempts for one row
    MaxCrashes    \* bound on the crashes of worker processes

ASSUME EmailAssumption ==
    /\ Row \subseteq Nat
    /\ None \notin Event \cup Row \cup Worker \cup Address
    /\ MaxAttempts \in Nat
    /\ MaxCrashes \in Nat

VARIABLES
    mail,      \* notifications and case_email_intents, by row
    attempts,  \* notification_attempts of a row
    rowLock,   \* the worker whose transaction holds the row
    request,   \* the open case transactions
    worker,    \* the workers
    proof,     \* the address verified_email returns for the complainant
    portal,    \* is the portal address configured?
    inbox,     \* the addresses the SMTP server has accepted a row's mail for
    crashes    \* crashes so far

emailVars == <<mail, attempts, rowLock, request, worker, proof, portal, inbox, crashes>>

-----------------------------------------------------------------------------
Statuses == {"NONE", "PENDING", "PROCESSING", "SENT", "FAILED"}

BlockReasons == {"EMAIL_NOT_VERIFIED", "EMAIL_CHANGED", "TRACKING_URL_MISSING"}

\* What the SMTP adapter answers: accepted, refused, never reached, or unknown
\* because the connection broke after the message may have been sent.
Results == {"ACCEPTED", "REJECTED", "BLOCKED", "UNKNOWN"}

\* intent.reason, the SMTP reasons named by the result.
Reasons == {"NONE", "QUEUED"} \cup BlockReasons \cup Results

NoMail == [event |-> None, status |-> "NONE", reason |-> "NONE", to |-> None]

NoRequest == [event |-> None, row |-> None, to |-> None, linked |-> FALSE]

IdleWorker == [at |-> "idle", row |-> None, number |-> 0, result |-> "NONE"]

Init ==
    /\ mail = [r \in Row |-> NoMail]
    /\ attempts = [r \in Row |-> <<>>]
    /\ rowLock = [r \in Row |-> None]
    /\ request = [q \in Request |-> NoRequest]
    /\ worker = [w \in Worker |-> IdleWorker]
    /\ proof \in Address \cup {None}
    /\ portal \in BOOLEAN
    /\ inbox = [r \in Row |-> <<>>]
    /\ crashes = 0

-----------------------------------------------------------------------------
(***************************************************************************)
(* enqueue, inside the transaction of the case change.                     *)
(***************************************************************************)
\* The advisory lock of the event, and no committed row for it: prepare one.
\* The transaction that finds a row returns it and changes nothing.  created_at
\* is the start of the transaction, so any free row may be the one it gets.
Enqueue(q, e, r) ==
    /\ request[q] = NoRequest
    /\ \A p \in Request : request[p].event # e
    /\ \A s \in Row : mail[s].event # e
    /\ mail[r] = NoMail
    /\ \A p \in Request : request[p].row # r
    /\ request' = [request EXCEPT ![q] =
            [event |-> e, row |-> r, to |-> proof, linked |-> portal]]
    /\ UNCHANGED <<mail, attempts, rowLock, worker, proof, portal, inbox, crashes>>

\* The case transaction commits: the row becomes visible, to be sent or not.
EnqueueCommit(q) ==
    /\ request[q] # NoRequest
    /\ LET reason == IF request[q].to = None THEN "EMAIL_NOT_VERIFIED"
                     ELSE IF ~request[q].linked THEN "TRACKING_URL_MISSING"
                     ELSE "QUEUED"
       IN  mail' = [mail EXCEPT ![request[q].row] =
              [event |-> request[q].event, to |-> request[q].to, reason |-> reason,
               status |-> IF reason = "QUEUED" THEN "PENDING" ELSE "FAILED"]]
    /\ request' = [request EXCEPT ![q] = NoRequest]
    /\ UNCHANGED <<attempts, rowLock, worker, proof, portal, inbox, crashes>>

EnqueueRollback(q) ==
    /\ request[q] # NoRequest
    /\ request' = [request EXCEPT ![q] = NoRequest]
    /\ UNCHANGED <<mail, attempts, rowLock, worker, proof, portal, inbox, crashes>>

-----------------------------------------------------------------------------
(***************************************************************************)
(* process_one.                                                            *)
(***************************************************************************)
\* The rows FOR UPDATE SKIP LOCKED may return.
Claimable == {r \in Row : mail[r].status = "PENDING" /\ rowLock[r] = None}

\* The oldest of them, locked.
Pick(w, r) ==
    /\ worker[w].at = "idle"
    /\ r \in Claimable
    /\ \A s \in Claimable : r <= s
    /\ rowLock' = [rowLock EXCEPT ![r] = w]
    /\ worker' = [worker EXCEPT ![w] = [IdleWorker EXCEPT !.at = "check", !.row = r]]
    /\ UNCHANGED <<mail, attempts, request, proof, portal, inbox, crashes>>

\* Is the address still the verified one, and the portal configured?
Verify(w) ==
    /\ worker[w].at = "check"
    /\ LET r == worker[w].row
           reason == IF proof = None THEN "EMAIL_NOT_VERIFIED"
                     ELSE IF proof # mail[r].to THEN "EMAIL_CHANGED"
                     ELSE IF ~portal THEN "TRACKING_URL_MISSING"
                     ELSE "NONE"
       IN  worker' = [worker EXCEPT
              ![w].at = IF reason = "NONE" THEN "claim" ELSE "block",
              ![w].result = reason]
    /\ UNCHANGED <<mail, attempts, rowLock, request, proof, portal, inbox, crashes>>

\* Mutant: the reason is written where the status belongs.
BlockMutant(w) ==
    /\ worker[w].at = "block"
    /\ LET r == worker[w].row
       IN  /\ mail' = [mail EXCEPT ![r].status = worker[w].result]
           /\ rowLock' = [rowLock EXCEPT ![r] = None]
    /\ worker' = [worker EXCEPT ![w] = IdleWorker]
    /\ UNCHANGED <<attempts, request, proof, portal, inbox, crashes>>

\* Mutant: the block is never committed, so the row stays first in line.
BlockRolledBack(w) ==
    /\ worker[w].at = "block"
    /\ rowLock' = [rowLock EXCEPT ![worker[w].row] = None]
    /\ worker' = [worker EXCEPT ![w] = IdleWorker]
    /\ UNCHANGED <<mail, attempts, request, proof, portal, inbox, crashes>>

Block(w) ==
    /\ worker[w].at = "block"
    /\ LET r == worker[w].row
       IN  /\ mail' = [mail EXCEPT ![r].status = "FAILED", ![r].reason = worker[w].result]
           /\ rowLock' = [rowLock EXCEPT ![r] = None]
    /\ worker' = [worker EXCEPT ![w] = IdleWorker]
    /\ UNCHANGED <<attempts, request, proof, portal, inbox, crashes>>

\* The claim commits before the network is used.
Claim(w) ==
    /\ worker[w].at = "claim"
    /\ LET r == worker[w].row
       IN  /\ Len(attempts[r]) < MaxAttempts
           /\ mail' = [mail EXCEPT ![r].status = "PROCESSING", ![r].reason = "UNKNOWN"]
           /\ rowLock' = [rowLock EXCEPT ![r] = None]
           /\ worker' = [worker EXCEPT ![w].at = "send",
                                       ![w].number = Len(attempts[r]) + 1]
    /\ UNCHANGED <<attempts, request, proof, portal, inbox, crashes>>

\* mail.send_case_message: the message goes to the address of the row.
Send(w) ==
    /\ worker[w].at = "send"
    /\ \E result \in Results :
          /\ worker' = [worker EXCEPT ![w].at = "record", ![w].result = result]
          /\ \/ /\ result \in {"ACCEPTED", "UNKNOWN"}
                /\ LET r == worker[w].row
                   IN  inbox' = [inbox EXCEPT ![r] = Append(@, mail[r].to)]
             \/ /\ result # "ACCEPTED"
                /\ UNCHANGED inbox
    /\ UNCHANGED <<mail, attempts, rowLock, request, proof, portal, crashes>>

\* Mutant: an unknown outcome is recorded as a failure.
RecordMutant(w) ==
    /\ worker[w].at = "record"
    /\ LET r == worker[w].row
           result == worker[w].result
       IN  /\ rowLock[r] = None
           /\ mail' = [mail EXCEPT
                 ![r].status = IF result = "ACCEPTED" THEN "SENT" ELSE "FAILED",
                 ![r].reason = result]
           /\ attempts' = [attempts EXCEPT ![r] =
                 Append(@, [number |-> worker[w].number, result |-> result])]
    /\ worker' = [worker EXCEPT ![w] = IdleWorker]
    /\ UNCHANGED <<rowLock, request, proof, portal, inbox, crashes>>

\* The second transaction: the known result, and one attempt row.
Record(w) ==
    /\ worker[w].at = "record"
    /\ LET r == worker[w].row
           result == worker[w].result
       IN  /\ rowLock[r] = None
           /\ mail' = [mail EXCEPT
                 ![r].status = CASE result = "ACCEPTED" -> "SENT"
                                 [] result \in {"REJECTED", "BLOCKED"} -> "FAILED"
                                 [] OTHER -> @,
                 ![r].reason = result]
           /\ attempts' = [attempts EXCEPT ![r] =
                 Append(@, [number |-> worker[w].number, result |-> result])]
    /\ worker' = [worker EXCEPT ![w] = IdleWorker]
    /\ UNCHANGED <<rowLock, request, proof, portal, inbox, crashes>>

WorkerStep(w) ==
    \/ \E r \in Row : Pick(w, r)
    \/ Verify(w) \/ Block(w) \/ Claim(w) \/ Send(w) \/ Record(w)

\* The process dies; its open transaction is rolled back.  A new process with
\* the same name starts with nothing in memory.
Crash(w) ==
    /\ worker[w].at # "idle"
    /\ crashes < MaxCrashes
    /\ crashes' = crashes + 1
    /\ worker' = [worker EXCEPT ![w] = IdleWorker]
    /\ rowLock' = [r \in Row |-> IF rowLock[r] = w THEN None ELSE rowLock[r]]
    /\ UNCHANGED <<mail, attempts, request, proof, portal, inbox>>

-----------------------------------------------------------------------------
\* Mutant: a mail that hangs in PROCESSING can be requeued.
RetryMutant(r) ==
    /\ rowLock[r] = None
    /\ mail[r].status \in {"FAILED", "PROCESSING"}
    /\ mail[r].reason \in {"REJECTED", "BLOCKED", "UNKNOWN"}
    /\ Len(attempts[r]) < MaxAttempts
    /\ mail' = [mail EXCEPT ![r].status = "PENDING", ![r].reason = "QUEUED"]
    /\ UNCHANGED <<attempts, rowLock, request, worker, proof, portal, inbox, crashes>>

\* The operator requeues a mail that was definitely not sent.
Retry(r) ==
    /\ rowLock[r] = None
    /\ mail[r].status = "FAILED"
    /\ mail[r].reason \in {"REJECTED", "BLOCKED"}
    /\ Len(attempts[r]) < MaxAttempts
    /\ mail' = [mail EXCEPT ![r].status = "PENDING", ![r].reason = "QUEUED"]
    /\ UNCHANGED <<attempts, rowLock, request, worker, proof, portal, inbox, crashes>>

\* The complainant verifies another address, or loses the verified one.
ChangeProof ==
    /\ proof' \in Address \cup {None}
    /\ UNCHANGED <<mail, attempts, rowLock, request, worker, portal, inbox, crashes>>

\* The service is configured anew.
ChangePortal ==
    /\ portal' = ~portal
    /\ UNCHANGED <<mail, attempts, rowLock, request, worker, proof, inbox, crashes>>

Next ==
    \/ \E q \in Request :
         \/ \E e \in Event, r \in Row : Enqueue(q, e, r)
         \/ EnqueueCommit(q)
         \/ EnqueueRollback(q)
    \/ \E w \in Worker : WorkerStep(w) \/ Crash(w)
    \/ \E r \in Row : Retry(r)
    \/ ChangeProof
    \/ ChangePortal

Spec == Init /\ [][Next]_emailVars

(***************************************************************************)
(* A worker started with --watch polls the outbox for ever; a worker that  *)
(* died is started again.  Nobody has to enqueue, retry or change anything.*)
(***************************************************************************)
FairSpec == Spec /\ \A w \in Worker : WF_emailVars(WorkerStep(w))

-----------------------------------------------------------------------------
\* Type invariant.
EmailTypeOK ==
    /\ mail \in [Row -> [event : Event \cup {None}, status : Statuses,
                         reason : Reasons, to : Address \cup {None}]]
    /\ attempts \in [Row -> Seq([number : Nat, result : Results])]
    /\ rowLock \in [Row -> Worker \cup {None}]
    /\ request \in [Request -> [event : Event \cup {None}, row : Row \cup {None},
                                to : Address \cup {None}, linked : BOOLEAN]]
    /\ worker \in [Worker -> [at : {"idle", "check", "block", "claim", "send", "record"},
                              row : Row \cup {None}, number : Nat,
                              result : Reasons]]
    /\ proof \in Address \cup {None}
    /\ portal \in BOOLEAN
    /\ inbox \in [Row -> Seq(Address)]
    /\ crashes \in Nat

\* No event is mailed twice: not by two transactions that report it, not by two
\* workers, not by a worker that dies after sending, and not by an operator's
\* retry (case_email.py:150: "Crash/unknown outcomes stay PROCESSING and cannot
\* be resent").
AtMostOnce ==
    /\ \A r \in Row : Len(inbox[r]) <= 1
    /\ \A r, s \in Row : r # s /\ mail[r].event = mail[s].event => mail[r].event = None

\* The records tell the truth about the delivery: SENT was accepted by the SMTP
\* server, PENDING and FAILED were not, and only PROCESSING is open.  The
\* attempts of a row are numbered 1, 2, ..., although the number is read in one
\* transaction and written in another, and only the last one was accepted.
RecordsTrue ==
    \A r \in Row :
        /\ mail[r].status = "SENT" => inbox[r] # <<>>
        /\ mail[r].status \in {"NONE", "PENDING", "FAILED"} => inbox[r] = <<>>
        /\ \A i \in 1..Len(attempts[r]) :
             /\ attempts[r][i].number = i
             /\ attempts[r][i].result \in {"ACCEPTED", "UNKNOWN"} => i = Len(attempts[r])

\* Every mail that waits is sent, refused or blocked in the end: the worker
\* takes the oldest row first, and no row it cannot send may stay in front
\* (case_email.py:127-139).
QueuedIsHandled ==
    \A r \in Row : mail[r].status = "PENDING" ~> mail[r].status # "PENDING"
=============================================================================
