-------------------------- MODULE CaseTransactions --------------------------
(***************************************************************************)
(* Requests that run against the case tables.  Every request of the        *)
(* service is one PostgreSQL transaction at READ COMMITTED: it reads       *)
(* committed rows, locks rows until it ends, and publishes all its writes  *)
(* in one commit.  This module holds what the handlers share: the request  *)
(* records, the row locks, the reads that authorize an officer, rollback   *)
(* and the deadlock detector.  DeskTransactions, RefusalTransactions and   *)
(* InvestigationTransactions hold the handlers.                            *)
(***************************************************************************)
EXTENDS CaseFile

CONSTANTS
    Request,     \* request slots: how many transactions may be open at once
    Operations   \* the operations the requests of a run may call

VARIABLES
    req,         \* what each open request is doing
    held         \* the row locks each request holds

transactionVars == <<req, held>>
vars == <<fileVars, transactionVars>>

-----------------------------------------------------------------------------
Verdicts == {"APPROVED", "RETURNED_FOR_CORRECTION"}

NoPosting == [station |-> None, role |-> "NONE", active |-> FALSE]

\* A request is named by its operation and the step it takes next.
New(op, at, c, o) ==
    [op |-> op, at |-> at, case |-> c, actor |-> o, seen |-> None,
     target |-> None, choice |-> "NONE", expected |-> "NONE", post |-> NoPosting]

Idle == New("idle", "start", None, None)

\* An investigator asks for a status, and names the one the docket should have.
StatusCall(c, o, e, k) ==
    [New("status", "posting", c, o) EXCEPT !.expected = e, !.choice = k]

\* The administrator asks for a posting of an officer.
ChangeCall(t, p) ==
    [New("change", "user", None, None) EXCEPT !.target = t, !.post = p]

\* The requests clients may send: any officer may try any operation.
Calls ==
    UNION {
      {New("review", "role", c, o) : c \in Complaint, o \in Officer},
      {[New("decide", "role", c, o) EXCEPT !.choice = k] :
          c \in Complaint, o \in Officer, k \in ReasonKinds \cup {"ACCEPTED"}},
      {New("open", "role", c, o) : c \in Complaint, o \in Officer},
      {[New("approve", "role", c, o) EXCEPT !.choice = v] :
          c \in Complaint, o \in Officer, v \in Verdicts},
      {New("material", "role", c, o) : c \in Complaint, o \in Officer},
      {[New("refusal_review", "role", c, o) EXCEPT !.choice = k] :
          c \in Complaint, o \in Officer, k \in {"ACKNOWLEDGE", "ESCALATE"}},
      {[New("escalation", "role", c, o) EXCEPT !.choice = k] :
          c \in Complaint, o \in Officer, k \in {"ACKNOWLEDGED", "RESOLVED"}},
      {[New("ncc_escalation", "escalation", c, None) EXCEPT !.choice = k] :
          c \in Complaint, k \in {"ACKNOWLEDGED", "RESOLVED"}},
      {[New("assign", "posting", c, o) EXCEPT !.target = t] :
          c \in Complaint, o \in Officer, t \in Officer},
      {New("unassign", "posting", c, o) : c \in Complaint, o \in Officer},
      {New("note", "posting", c, o) : c \in Complaint, o \in Officer},
      {StatusCall(c, o, e, k) :
          c \in Complaint, o \in Officer, e \in {"ACTIVE", "ON_HOLD"},
          k \in {"ACTIVE", "ON_HOLD", "CLOSED"}},
      {ChangeCall(t, p) : t \in Officer, p \in NewPostings} }

At(p, op, step) == req[p].op = op /\ req[p].at = step

-----------------------------------------------------------------------------
(***************************************************************************)
(* Row locks: FOR UPDATE conflicts with every other lock on the row, FOR   *)
(* SHARE and the FOR KEY SHARE of a foreign-key check only with it.        *)
(***************************************************************************)
Modes == {"UPDATE", "SHARE", "KEY SHARE"}

Lock(table, key, mode) == [row |-> <<table, key>>, mode |-> mode]

\* Mutant: a shared lock does not hold off an update.
ConflictMutant(l, m) ==
    l.row = m.row /\ l.mode = "UPDATE" /\ m.mode = "UPDATE"

Conflict(l, m) ==
    l.row = m.row /\ (l.mode = "UPDATE" \/ m.mode = "UPDATE")

Grantable(p, locks) ==
    \A q \in Request \ {p} : \A l \in locks, m \in held[q] : ~Conflict(l, m)

\* The foreign-key checks of an insert lock the rows it refers to.
OfficerKey(p) == Lock("officers", req[p].actor, "KEY SHARE")
UserKey(p) == Lock("users", req[p].actor, "KEY SHARE")

\* What the last flush of p refers to: the audited user, for an assignment the
\* complaint of the notification.  The other handlers that notify have locked
\* the complaint already, and an account of the NCC or the administration is
\* nobody's target.
LastKeys(p) ==
    CASE req[p].op \in {"change", "ncc_escalation"} -> {}
      [] req[p].op = "assign" -> {Lock("complaints", req[p].case, "KEY SHARE")}
      [] OTHER -> {UserKey(p)}

\* The escalation record a request is about.
EscalationTarget(p) ==
    IF \/ req[p].op = "ncc_escalation"
       \/ req[p].op = "refusal_review" /\ req[p].choice = "ESCALATE"
      THEN "NCC"
      ELSE "STATION_COMMANDER"

\* The complaint belongs to the station p read for its officer.
InScope(p) == home[req[p].case] = req[p].seen

\* The row query of p asks for the officer's station as well, so that it finds
\* and locks no row of another station.
StationFiltered(p) ==
    \/ req[p].at = "docket"
    \/ req[p].at = "complaint" /\ req[p].op \in {"approve", "refusal_review"}
    \/ req[p].at = "escalation" /\ req[p].op = "escalation"

\* Mutant: the charge desk locks the officer row FOR UPDATE, not FOR SHARE.
NextRowMutant(p) ==
    CASE req[p].at \in {"complaint", "trigger"} -> {Lock("complaints", req[p].case, "UPDATE")}
      [] req[p].at = "docket" /\ docketStatus[req[p].case] # "NONE" ->
            {Lock("dockets", req[p].case, "UPDATE")}
      [] req[p].at = "desk_officer" -> {Lock("officers", req[p].actor, "UPDATE")}
      [] req[p].at = "target" -> {Lock("officers", req[p].target, "UPDATE")}
      [] req[p].at = "user" -> {Lock("users", req[p].target, "UPDATE")}
      [] req[p].at = "officer_key" -> {OfficerKey(p)}
      [] req[p].at \in {"user_key", "existing"} -> {UserKey(p)}
      [] req[p].at = "commit" -> LastKeys(p)
      [] OTHER -> {}

\* The row the next step of p is about.
NextRow(p) ==
    CASE req[p].at \in {"complaint", "trigger"} -> {Lock("complaints", req[p].case, "UPDATE")}
      [] req[p].at = "docket" /\ docketStatus[req[p].case] # "NONE" ->
            {Lock("dockets", req[p].case, "UPDATE")}
      [] req[p].at = "escalation"
         /\ escalation[req[p].case][EscalationTarget(p)] # "NONE" ->
            {Lock("refusal_escalations", <<req[p].case, EscalationTarget(p)>>, "UPDATE")}
      [] req[p].at = "desk_officer" -> {Lock("officers", req[p].actor, "SHARE")}
      [] req[p].at = "target" -> {Lock("officers", req[p].target, "UPDATE")}
      [] req[p].at = "user" -> {Lock("users", req[p].target, "UPDATE")}
      [] req[p].at = "officer_key" -> {OfficerKey(p)}
      [] req[p].at \in {"user_key", "existing"} -> {UserKey(p)}
      [] req[p].at = "commit" -> LastKeys(p)
      [] OTHER -> {}

\* The locks p must hold before its next step.
Wanted(p) == IF StationFiltered(p) /\ ~InScope(p) THEN {} ELSE NextRow(p)

WaitsFor(p, q) ==
    /\ p # q
    /\ \E l \in Wanted(p), m \in held[q] : Conflict(l, m)

\* Every request of S waits for another one of S.
Deadlocked(S) == S # {} /\ \A p \in S : \E q \in S : WaitsFor(p, q)

-----------------------------------------------------------------------------
(***************************************************************************)
(* Steps of a request.                                                     *)
(***************************************************************************)
\* p takes the locks of its step and goes on to the next one.
Advance(p, next) ==
    /\ req' = [req EXCEPT ![p].at = next]
    /\ held' = [held EXCEPT ![p] = @ \cup Wanted(p)]

\* Mutant: the locks stay behind.
FinishMutant(p) ==
    /\ req' = [req EXCEPT ![p] = Idle]
    /\ UNCHANGED held

\* The transaction ends and its locks go, by commit or by rollback.
Finish(p) ==
    /\ req' = [req EXCEPT ![p] = Idle]
    /\ held' = [held EXCEPT ![p] = {}]

\* A step that checks ok: go on, or answer 4xx and roll back.
Check(p, ok, next) ==
    /\ Grantable(p, Wanted(p))
    /\ IF ok THEN Advance(p, next) ELSE Finish(p)
    /\ UNCHANGED fileVars

\* For mutants: the same check where FOR UPDATE was forgotten.
CheckUnlocked(p, ok, next) ==
    /\ IF ok
         THEN req' = [req EXCEPT ![p].at = next] /\ UNCHANGED held
         ELSE Finish(p)
    /\ UNCHANGED fileVars

\* The commit of p: the effect has set the tables.
Commit(p) ==
    /\ Grantable(p, Wanted(p))
    /\ Finish(p)

Call(p) ==
    /\ req[p].op = "idle"
    /\ \E r \in Calls :
          /\ r.op \in Operations
          /\ req' = [req EXCEPT ![p] = r]
    /\ UNCHANGED <<held, fileVars>>

\* An exception, a lost connection or a crash of the process, at any step.
Rollback(p) ==
    /\ req[p].op # "idle"
    /\ Finish(p)
    /\ UNCHANGED fileVars

\* PostgreSQL cancels one transaction of every cycle of waits.
DeadlockVictim(p) ==
    /\ \E S \in SUBSET Request : p \in S /\ Deadlocked(S)
    /\ Finish(p)
    /\ UNCHANGED fileVars

\* Registration, online or at the counter: it inserts a row nobody else knows.
Submit ==
    /\ "register" \in Operations
    /\ \E c \in Complaint, s \in Station : Register(c, s)
    /\ UNCHANGED transactionVars

-----------------------------------------------------------------------------
(***************************************************************************)
(* Who may act.  Both services authorize an officer with two reads and no  *)
(* lock; the charge desk locks the officer row FOR SHARE.                  *)
(***************************************************************************)
RoleOf(op) ==
    CASE op \in {"review", "decide", "open"} -> {"CHARGE_OFFICER"}
      [] op \in {"approve", "assign", "unassign", "refusal_review", "escalation"} ->
            {"STATION_COMMANDER"}
      [] op \in {"note", "status"} -> {"INVESTIGATING_OFFICER"}
      [] op = "material" -> {"CHARGE_OFFICER", "INVESTIGATING_OFFICER"}
      [] OTHER -> {}

HasRole(p) == posting[req[p].actor].role \in RoleOf(req[p].op)

\* The read of an active officer row; its station decides what is in scope.
ReadStation(p, next) ==
    /\ Grantable(p, Wanted(p))
    /\ LET officer == posting[req[p].actor]
       IN  IF officer.active
             THEN /\ req' = [req EXCEPT ![p].at = next, ![p].seen = officer.station]
                  /\ held' = [held EXCEPT ![p] = @ \cup Wanted(p)]
             ELSE Finish(p)
    /\ UNCHANGED fileVars

\* DocketService._active_officer_with_role: role first, officer row second.
ActiveOfficerWithRole(p) ==
    /\ req[p].op \in {"decide", "open", "approve", "refusal_review", "escalation"}
    /\ \/ req[p].at = "role" /\ Check(p, HasRole(p), "posting")
       \/ req[p].at = "posting" /\ ReadStation(p,
            CASE req[p].op = "decide" -> "decider"
              [] req[p].op = "escalation" -> "escalation"
              [] OTHER -> "complaint")

\* StationComplaintService._officer: roles first, then the row FOR SHARE.
DeskOfficer(p) ==
    /\ req[p].op \in {"review", "material"}
    /\ \/ req[p].at = "role" /\ req[p].op = "review"
            /\ Check(p, HasRole(p), "desk_officer")
       \/ req[p].at = "desk_role"
            /\ Check(p, posting[req[p].actor].role = "CHARGE_OFFICER", "desk_officer")
       \/ req[p].at = "desk_officer"
            /\ ReadStation(p, IF req[p].op = "review" THEN "complaint" ELSE "scope")

\* InvestigationService.officer: the row first, the role second.
InvestigationOfficer(p) ==
    /\ \/ req[p].op \in {"assign", "unassign", "note", "status"}
       \/ req[p].op = "material" /\ req[p].choice = "INVESTIGATING_OFFICER"
    /\ \/ req[p].at = "posting" /\ ReadStation(p, "investigation_role")
       \/ req[p].at = "investigation_role"
            /\ Check(p, posting[req[p].actor].role \in
                          RoleOf(req[p].op) \ {"CHARGE_OFFICER"}, "docket")

-----------------------------------------------------------------------------
(***************************************************************************)
(* Rows are inserted at successive flushes, each of which takes the locks  *)
(* of its foreign keys and keeps them while the next one waits: the row a  *)
(* case is about first, the audit row and the messages at the commit.      *)
(***************************************************************************)
\* Decision, docket, approval, note, statement, assignment: each names the officer.
FlushOfficerKey(p) ==
    /\ req[p].op \in {"decide", "open", "approve", "material", "note", "assign"}
    /\ req[p].at = "officer_key"
    /\ Check(p, TRUE, IF req[p].op = "assign" /\ docketStatus[req[p].case] # "APPROVED"
                       THEN "user_key"
                       ELSE "commit")

\* The user of an assignment: the status history of a docket it activates is
\* written before the assignment, the audit row of any other one after it.
FlushUserKey(p) ==
    /\ At(p, "assign", "user_key")
    /\ Check(p, TRUE, IF docketStatus[req[p].case] = "APPROVED" THEN "officer_key" ELSE "commit")
=============================================================================
