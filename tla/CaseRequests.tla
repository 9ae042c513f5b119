---------------------------- MODULE CaseRequests ----------------------------
(***************************************************************************)
(* All the handlers together on one database, and what their interleaving  *)
(* must preserve: the requests implement CaseFile.                         *)
(***************************************************************************)
EXTENDS DeskTransactions, RefusalTransactions, InvestigationTransactions

Init ==
    /\ FileInit
    /\ req = [p \in Request |-> Idle]
    /\ held = [p \in Request |-> {}]

\* A step of the handler a request runs, its authorization included.
Progress(p) ==
    \/ ActiveOfficerWithRole(p)
    \/ DeskOfficer(p)
    \/ InvestigationOfficer(p)
    \/ FlushOfficerKey(p)
    \/ FlushUserKey(p)
    \/ DeskStep(p)
    \/ RefusalStep(p)
    \/ InvestigationStep(p)

Next ==
    \/ Submit
    \/ \E p \in Request : Call(p) \/ Progress(p) \/ Rollback(p) \/ DeadlockVictim(p)

Spec == Init /\ [][Next]_vars

(***************************************************************************)
(* Fairness.  The server process keeps running the handlers of the open    *)
(* requests, and PostgreSQL grants a row lock in the order of the waiters, *)
(* so a step that becomes possible again and again is taken.  Clients need *)
(* not call, and nothing has to fail, except that PostgreSQL does look for *)
(* deadlocks.                                                              *)
(***************************************************************************)
Fairness ==
    \A p \in Request : SF_vars(Progress(p)) /\ WF_vars(DeadlockVictim(p))

FairSpec == Spec /\ Fairness

-----------------------------------------------------------------------------
\* Every commit of the handlers is a step the case database promises, whatever
\* the requests that run at the same time: no complaint decided twice, no busy
\* or moved investigator assigned, no entry by somebody who lost the docket.
\* This is the property the row locks are there for.
ImplementsCaseFile == FileSpec

\* A status of an open docket is changed by the officer who holds the docket at
\* the commit, also when it was reassigned while the request was under way
\* (investigations/service.py:55: "Reassignment cannot race a note, status
\* update or evidence operation authorized against an old assignment").
StatusByAssignee ==
    [][\A c \in Complaint :
          docketStatus[c] \in {"ACTIVE", "ON_HOLD"} /\ docketStatus'[c] # docketStatus[c] =>
             \E p \in Request :
                /\ req[p].op = "status" /\ req[p].case = c
                /\ req[p].actor = assignee[c]
                /\ docketStatus[c] = req[p].expected
                /\ req'[p].op = "idle"]_vars

\* A review is started by an officer who is, at the commit, an active officer of
\* the complaint's station: the row lock of _officer holds off the administrator
\* (complaints/service.py:202).
ReviewerOnDuty ==
    [][\A c \in Complaint :
          complaintStatus[c] = "SUBMITTED" /\ complaintStatus'[c] = "UNDER_REVIEW" =>
             \E p \in Request :
                /\ req[p].op = "review" /\ req[p].case = c /\ req'[p].op = "idle"
                /\ posting[req[p].actor].active
                /\ posting[req[p].actor].station = home[c]]_vars

\* Every request is answered: no lock is kept by a request that has ended, and
\* requests that wait for each other are broken up.
EveryRequestAnswered ==
    \A p \in Request : req[p].op # "idle" ~> req[p].op = "idle"

\* The services lock rows in one consistent order, so that they never wait for
\* each other in a circle.
NoLockCycle == \A S \in SUBSET Request : ~Deadlocked(S)

\* p and q lock the same rows in opposite orders.  Docket approval and case
\* material lock the complaint before the docket, assignment and a change of
\* status after it; the commander's review locks the complaint before the
\* refusal, the escalation queues after it.  The administrator locks the user
\* before the officer, while whoever inserts a row that names the officer (a
\* decision, docket, approval, statement, note or assignment), or has locked that
\* officer to read it, then refers to the user in the audit row.  Of two
\* assignments each may have locked the officer who signs the other.
Opposed(p, q) ==
    \/ /\ req[p].op \in {"approve", "material"} /\ req[q].op \in {"assign", "status"}
       /\ req[p].case = req[q].case
    \/ /\ req[p].op = "refusal_review" /\ req[q].op \in {"escalation", "ncc_escalation"}
       /\ req[p].case = req[q].case
    \/ /\ req[p].op = "change"
       /\ req[q].op \in {"review", "decide", "open", "approve", "material", "note", "assign"}
       /\ req[p].target = req[q].actor
    \/ /\ req[p].op = "change" /\ req[q].op = "assign"
       /\ req[p].target = req[q].target
    \/ /\ req[p].op = "assign" /\ req[q].op = "assign" /\ p # q
       /\ req[p].target = req[q].actor

\* They do not: but requests of these handlers that wait for each other in a
\* circle, however many, always include two of these, about the same case or the
\* same officer, so that no other mix of them makes the database cancel one.
CyclesAreOpposed ==
    \A S \in SUBSET Request : Deadlocked(S) => \E p, q \in S : Opposed(p, q)
=============================================================================
