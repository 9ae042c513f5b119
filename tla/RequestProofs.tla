--------------------------- MODULE RequestProofs ----------------------------
(***************************************************************************)
(* Proofs about CaseRequests for every number of requests, complaints and  *)
(* officers: whatever requests run at the same time, each commit is a step *)
(* of CaseFile.  The argument is that of two-phase locking: what a handler *)
(* has read under a row lock is still true when it commits (Knows), since  *)
(* whoever changes a row holds its lock (Guarded) and no two requests hold *)
(* conflicting locks (Exclusive).                                          *)
(***************************************************************************)
EXTENDS CaseRequests, CaseFileProofs

-----------------------------------------------------------------------------
(***************************************************************************)
(* The invariant.                                                          *)
(***************************************************************************)
ComplaintLock(c) == Lock("complaints", c, "UPDATE")
DocketLock(c) == Lock("dockets", c, "UPDATE")
StaffLock(o) == Lock("officers", o, "UPDATE")
DutyLock(o) == Lock("officers", o, "SHARE")

Compatible(L, M) == \A l \in L, m \in M : ~Conflict(l, m)

\* No two requests hold locks that conflict.
Exclusive == \A p, q \in Request : p # q => Compatible(held[p], held[q])

Names ==
    {"idle", "review", "decide", "open", "approve", "material", "refusal_review",
     "escalation", "ncc_escalation", "assign", "unassign", "note", "status", "change"}

Places ==
    {"start", "role", "posting", "decider", "desk_role", "desk_officer", "scope",
     "investigation_role", "complaint", "docket", "existing", "escalation", "user",
     "target", "eligible", "busy", "trigger", "officer_key", "user_key", "moving", "commit"}

\* An assignment that has passed its checks inserts its rows.
Inserting == {"trigger", "user_key", "officer_key", "commit"}

Choices ==
    {"NONE", "ACCEPTED", "ACKNOWLEDGE", "ESCALATE", "ACKNOWLEDGED", "RESOLVED",
     "ACTIVE", "ON_HOLD", "CLOSED"} \cup ReasonKinds \cup Verdicts \cup StaffRoles

RequestRecords ==
    [op : Names, at : Places, case : Complaint \cup {None},
     actor : Officer \cup {None}, seen : Station \cup {None},
     target : Officer \cup {None}, choice : Choices,
     expected : {"NONE", "ACTIVE", "ON_HOLD"}, post : NewPostings \cup {NoPosting}]

\* A request carries the arguments its operation needs.
Argued(r) ==
    /\ r.op \notin {"idle", "change"} => r.case \in Complaint
    /\ r.op \notin {"idle", "change", "ncc_escalation"} => r.actor \in Officer
    /\ r.op \in {"assign", "change"} => r.target \in Officer
    /\ r.op = "change" => r.post \in NewPostings
    /\ r.op = "decide" => r.choice \in ReasonKinds \cup {"ACCEPTED"}
    /\ r.op = "approve" => r.choice \in Verdicts
    /\ r.op = "refusal_review" => r.choice \in {"ACKNOWLEDGE", "ESCALATE"}
    /\ r.op \in {"escalation", "ncc_escalation"} => r.choice \in {"ACKNOWLEDGED", "RESOLVED"}

RequestsTyped ==
    /\ req \in [Request -> RequestRecords]
    /\ held = [p \in Request |-> held[p]]
    /\ \A p \in Request : Argued(req[p])

Registered(p) == complaintStatus[req[p].case] # "UNREGISTERED"

HasComplaint(p) == ComplaintLock(req[p].case) \in held[p]
HasDocket(p) == DocketLock(req[p].case) \in held[p]
HasTarget(p) == StaffLock(req[p].target) \in held[p]

\* The officer row of the charge desk is locked, and as p read it.
OnDuty(p) ==
    /\ DutyLock(req[p].actor) \in held[p]
    /\ posting[req[p].actor].active
    /\ posting[req[p].actor].station = req[p].seen

-----------------------------------------------------------------------------
(***************************************************************************)
(* What a request knows at each step, by operation: the locks it holds and *)
(* the checks it has passed.                                               *)
(***************************************************************************)
KnowsReview(p) ==
    /\ req[p].at \in {"complaint", "commit"} => OnDuty(p)
    /\ req[p].at = "commit" =>
         /\ HasComplaint(p) /\ InScope(p)
         /\ complaintStatus[req[p].case] = "SUBMITTED"

KnowsDecide(p) ==
    req[p].at \in {"officer_key", "commit"} =>
       HasComplaint(p) /\ complaintStatus[req[p].case] \in DecidableStatuses

KnowsOpen(p) ==
    req[p].at \in {"officer_key", "commit"} =>
       /\ HasComplaint(p)
       /\ docketStatus[req[p].case] = "NONE"
       /\ complaintStatus[req[p].case] = "ACCEPTED"
       /\ \E i \in 1..Len(decisions[req[p].case]) : decisions[req[p].case][i] = "ACCEPTED"

KnowsApprove(p) ==
    /\ req[p].at \in {"docket", "officer_key", "commit"} =>
         HasComplaint(p) /\ InScope(p) /\ docketStatus[req[p].case] # "NONE"
    /\ req[p].at \in {"officer_key", "commit"} =>
         /\ HasDocket(p)
         /\ docketStatus[req[p].case] = "PENDING_APPROVAL"
         /\ Len(approvals[req[p].case]) < MaxApprovals

KnowsMaterial(p) ==
    LET c == req[p].case
        desk == req[p].choice = "CHARGE_OFFICER"
    IN  /\ req[p].at \notin {"role", "complaint"} => HasComplaint(p) /\ Registered(p)
        /\ req[p].at = "scope" => OnDuty(p)
        /\ req[p].at \in {"docket", "officer_key", "commit"} /\ desk => OnDuty(p)
        /\ req[p].at \in {"officer_key", "commit"} =>
             /\ InScope(p)
             /\ docketStatus[c] # "NONE" => HasDocket(p)
             /\ Len(entries[c]) < MaxEntries
             /\ desk => IntakeOpen(c)
             /\ ~desk => assignee[c] = req[p].actor /\ docketStatus[c] \in WritableStatuses

KnowsRefusal(p) ==
    req[p].at \in {"escalation", "commit"} => HasComplaint(p) /\ Refused(req[p].case)

KnowsEscalation(p) ==
    LET found == escalation[req[p].case][EscalationTarget(p)]
    IN  /\ req[p].at \in {"complaint", "commit"} => found # "NONE"
        /\ req[p].at = "commit" =>
             /\ HasComplaint(p)
             /\ found # "RESOLVED"
             /\ req[p].choice = "ACKNOWLEDGED" => found = "OPEN"

KnowsAssign(p) ==
    LET c == req[p].case
        t == req[p].target
    IN  /\ req[p].at \in {"target", "eligible", "busy"} \cup Inserting =>
             /\ HasDocket(p) /\ InScope(p)
             /\ docketStatus[c] \in WritableStatuses
             /\ Len(history[c]) < MaxHistory
        /\ req[p].at \in {"eligible", "busy"} \cup Inserting =>
             HasTarget(p) /\ posting[t].station = req[p].seen
        /\ req[p].at \in {"busy"} \cup Inserting =>
             posting[t].active /\ posting[t].role = "INVESTIGATING_OFFICER"
        /\ req[p].at \in Inserting => assignee[c] # t /\ ~Busy(t)

KnowsUnassign(p) ==
    req[p].at = "commit" =>
       /\ HasDocket(p)
       /\ docketStatus[req[p].case] \in WritableStatuses
       /\ assignee[req[p].case] # None

KnowsNote(p) ==
    req[p].at \in {"officer_key", "commit"} =>
       /\ HasDocket(p)
       /\ docketStatus[req[p].case] \in WritableStatuses
       /\ assignee[req[p].case] = req[p].actor
       /\ Len(entries[req[p].case]) < MaxEntries

KnowsStatus(p) ==
    req[p].at \in {"trigger", "commit"} =>
       /\ HasDocket(p)
       /\ docketStatus[req[p].case] = req[p].expected
       /\ assignee[req[p].case] = req[p].actor
       /\ <<docketStatus[req[p].case], req[p].choice>> \in StatusTransitions
       /\ Len(history[req[p].case]) < MaxHistory

KnowsChange(p) ==
    /\ req[p].at \in {"moving", "commit"} => HasTarget(p)
    /\ req[p].at = "commit" => (Moving(req[p].target, req[p].post) => ~Busy(req[p].target))

Knows(p) ==
    /\ req[p].op = "review" => KnowsReview(p)
    /\ req[p].op = "decide" => KnowsDecide(p)
    /\ req[p].op = "open" => KnowsOpen(p)
    /\ req[p].op = "approve" => KnowsApprove(p)
    /\ req[p].op = "material" => KnowsMaterial(p)
    /\ req[p].op = "refusal_review" => KnowsRefusal(p)
    /\ req[p].op \in {"escalation", "ncc_escalation"} => KnowsEscalation(p)
    /\ req[p].op = "assign" => KnowsAssign(p)
    /\ req[p].op = "unassign" => KnowsUnassign(p)
    /\ req[p].op = "note" => KnowsNote(p)
    /\ req[p].op = "status" => KnowsStatus(p)
    /\ req[p].op = "change" => KnowsChange(p)

\* What the commits of the handlers rely on.
RequestsInv ==
    /\ FileTypeOK /\ DecisionFinal
    /\ RequestsTyped /\ Exclusive
    /\ \A p \in Request : Knows(p)

-----------------------------------------------------------------------------
(***************************************************************************)
(* What a step may change with the locks L.                                *)
(***************************************************************************)
Guarded(L) ==
    /\ \A c \in Complaint :
         /\ complaintStatus[c] # "UNREGISTERED" => home'[c] = home[c]
         /\ ComplaintLock(c) \notin L =>
              /\ complaintStatus[c] # "UNREGISTERED" => complaintStatus'[c] = complaintStatus[c]
              /\ decisions'[c] = decisions[c]
              /\ approvals'[c] = approvals[c]
              /\ escalation'[c] = escalation[c]
              /\ docketStatus[c] \in {"NONE", "PENDING_APPROVAL"} =>
                   docketStatus'[c] = docketStatus[c]
              /\ docketStatus[c] = "NONE" => entries'[c] = entries[c]
         /\ DocketLock(c) \notin L /\ docketStatus[c] # "NONE" =>
              /\ docketStatus'[c] = docketStatus[c]
              /\ history'[c] = history[c]
              /\ assignee'[c] = assignee[c]
              /\ entries'[c] = entries[c]
         /\ docketStatus[c] = "CLOSED" => docketStatus'[c] = "CLOSED"
         /\ docketStatus[c] # "NONE" => docketStatus'[c] # "NONE"
         /\ \A t \in Targets : escalation[c][t] # "NONE" => escalation'[c][t] # "NONE"
         /\ \/ assignee'[c] \in {assignee[c], None}
            \/ StaffLock(assignee'[c]) \in L
    /\ \A o \in Officer : StaffLock(o) \notin L => posting'[o] = posting[o]

\* The other requests stay as they are.
Alone(p) == \A q \in Request \ {p} : req'[q] = req[q] /\ held'[q] = held[q]

\* p ends.
Ended(p) == req'[p] = Idle /\ held'[p] = {} /\ Alone(p)

\* p goes on with the locks it wanted.
Moved(p) ==
    /\ Grantable(p, Wanted(p))
    /\ held'[p] = held[p] \cup Wanted(p)
    /\ Alone(p) /\ RequestsTyped'

\* A step that writes nothing: p fails, or knows what its next step needs.
Checked(p) ==
    /\ UNCHANGED fileVars
    /\ \/ Ended(p) /\ RequestsTyped'
       \/ Moved(p) /\ Knows(p)'

\* The check of p succeeds.
Passes(p, next) ==
    Grantable(p, Wanted(p)) /\ Advance(p, next) /\ UNCHANGED fileVars

\* p is at its next step: its call, the tables and its locks are kept.
Passed(p, next) ==
    /\ Moved(p)
    /\ req'[p].at = next /\ req'[p].op = req[p].op /\ req'[p].case = req[p].case
    /\ req'[p].actor = req[p].actor /\ req'[p].target = req[p].target
    /\ req'[p].expected = req[p].expected /\ req'[p].post = req[p].post
    /\ complaintStatus' = complaintStatus /\ home' = home /\ decisions' = decisions
    /\ escalation' = escalation /\ docketStatus' = docketStatus
    /\ approvals' = approvals /\ history' = history /\ assignee' = assignee
    /\ entries' = entries /\ posting' = posting
    /\ held'[p] = held[p] \cup Wanted(p)
    /\ HasComplaint(p) => HasComplaint(p)'
    /\ HasDocket(p) => HasDocket(p)'
    /\ HasTarget(p) => HasTarget(p)'
    /\ Registered(p)' <=> Registered(p)
    /\ Busy(req[p].target)' <=> Busy(req[p].target)

\* What it read of its officer is kept too.
Kept(p) ==
    /\ req'[p].seen = req[p].seen /\ req'[p].choice = req[p].choice
    /\ OnDuty(p) => OnDuty(p)'
    /\ InScope(p)' <=> InScope(p)
    /\ EscalationTarget(p)' = EscalationTarget(p)

\* The body of StatusByAssignee.
StatusAnswered ==
    \A c \in Complaint :
       docketStatus[c] \in {"ACTIVE", "ON_HOLD"} /\ docketStatus'[c] # docketStatus[c] =>
          \E p \in Request :
             /\ req[p].op = "status" /\ req[p].case = c
             /\ req[p].actor = assignee[c]
             /\ docketStatus[c] = req[p].expected
             /\ req'[p].op = "idle"

\* The body of ReviewerOnDuty.
ReviewAnswered ==
    \A c \in Complaint :
       complaintStatus[c] = "SUBMITTED" /\ complaintStatus'[c] = "UNDER_REVIEW" =>
          \E p \in Request :
             /\ req[p].op = "review" /\ req[p].case = c /\ req'[p].op = "idle"
             /\ posting[req[p].actor].active
             /\ posting[req[p].actor].station = home[c]

\* A commit: p writes under its locks, and does what the case file allows.
Committed(p) ==
    /\ Ended(p) /\ RequestsTyped'
    /\ Guarded(held[p])
    /\ [FileNext]_fileVars
    /\ StatusAnswered /\ ReviewAnswered

-----------------------------------------------------------------------------
(***************************************************************************)
(* Steps of the request table.                                             *)
(***************************************************************************)
\* A request that goes on keeps its arguments and adds the locks it wanted.
LEMMA AdvanceKeeps ==
    ASSUME RequestsTyped, NEW p \in Request, NEW next \in Places, Advance(p, next)
    PROVE  /\ held'[p] = held[p] \cup Wanted(p)
           /\ Alone(p) /\ RequestsTyped'
           /\ req'[p].at = next /\ req'[p].op = req[p].op /\ req'[p].case = req[p].case
           /\ req'[p].actor = req[p].actor /\ req'[p].seen = req[p].seen
           /\ req'[p].target = req[p].target /\ req'[p].choice = req[p].choice
           /\ req'[p].expected = req[p].expected /\ req'[p].post = req[p].post
  <1>1. \A q \in Request \ {p} : req'[q] = req[q]
    BY DEF Advance, RequestsTyped
  <1>2. req[p] \in RequestRecords
    BY DEF RequestsTyped
  <1>3. /\ req'[p].at = next /\ req'[p].op = req[p].op /\ req'[p].case = req[p].case
        /\ req'[p].actor = req[p].actor /\ req'[p].seen = req[p].seen
        /\ req'[p].target = req[p].target /\ req'[p].choice = req[p].choice
        /\ req'[p].expected = req[p].expected /\ req'[p].post = req[p].post
    BY <1>2 DEF Advance, RequestsTyped, RequestRecords
  <1>4. held'[p] = held[p] \cup Wanted(p) /\ \A q \in Request \ {p} : held'[q] = held[q]
    BY DEF Advance, RequestsTyped
  <1>5. req' \in [Request -> RequestRecords]
    <2>1. [req[p] EXCEPT !.at = next] \in RequestRecords
      BY <1>2 DEF RequestRecords
    <2>2. QED
      BY <2>1 DEF Advance, RequestsTyped
  <1>6. held' = [q \in Request |-> held'[q]]
    BY DEF Advance, RequestsTyped
  <1>7. \A q \in Request : Argued(req'[q])
    <2>1. Argued(req'[p])
      <3>1. Argued(req[p])
        BY DEF RequestsTyped
      <3>2. QED
        BY <1>3, <3>1 DEF Argued
    <2>2. QED
      BY <1>1, <2>1 DEF RequestsTyped
  <1>8. QED
    BY <1>1, <1>3, <1>4, <1>5, <1>6, <1>7 DEF Alone, RequestsTyped

\* A request slot that is not in use.
LEMMA IdleTyped == Idle \in RequestRecords /\ Argued(Idle)
  <1>1. Idle \in RequestRecords
    BY DEF Idle, New, RequestRecords, Names, Places, Choices
  <1>2. Argued(Idle)
    BY DEF Idle, New, Argued
  <1>3. QED
    BY <1>1, <1>2

\* A request that ends becomes idle and loses its locks.
LEMMA FinishEnds ==
    ASSUME RequestsTyped, NEW p \in Request, Finish(p)
    PROVE  Ended(p) /\ RequestsTyped'
  <1>1. Idle \in RequestRecords /\ Argued(Idle)
    BY IdleTyped
  <1>3. req'[p] = Idle /\ \A q \in Request \ {p} : req'[q] = req[q]
    BY DEF Finish, RequestsTyped
  <1>4. held'[p] = {} /\ \A q \in Request \ {p} : held'[q] = held[q]
    BY DEF Finish, RequestsTyped
  <1>5. req' \in [Request -> RequestRecords] /\ held' = [q \in Request |-> held'[q]]
    BY <1>1 DEF Finish, RequestsTyped
  <1>6. \A q \in Request : Argued(req'[q])
    BY <1>1, <1>3 DEF RequestsTyped
  <1>7. QED
    BY <1>3, <1>4, <1>5, <1>6 DEF Ended, Alone, RequestsTyped

\* An idle request knows nothing.
LEMMA EndedKnows == ASSUME NEW p \in Request, Ended(p) PROVE Knows(p)'
  BY DEF Ended, Idle, New, Knows

\* The lock of each step that reads a row.
LEMMA WantedComplaint ==
    ASSUME NEW p \in Request, req[p].at = "complaint",
           InScope(p) \/ req[p].op \notin {"approve", "refusal_review"}
    PROVE  ComplaintLock(req[p].case) \in Wanted(p)
  BY DEF Wanted, NextRow, StationFiltered, ComplaintLock

\* A docket that exists is locked where it is read.
LEMMA WantedDocket ==
    ASSUME NEW p \in Request, req[p].at = "docket", InScope(p),
           docketStatus[req[p].case] # "NONE"
    PROVE  DocketLock(req[p].case) \in Wanted(p)
  BY DEF Wanted, NextRow, DocketLock

\* So is an officer.
LEMMA WantedOfficer ==
    ASSUME NEW p \in Request
    PROVE  /\ req[p].at = "target" => StaffLock(req[p].target) \in Wanted(p)
           /\ req[p].at = "desk_officer" => DutyLock(req[p].actor) \in Wanted(p)
  BY DEF Wanted, NextRow, StationFiltered, StaffLock, DutyLock

\* Granted locks conflict with no other, and a request that ends keeps none.
LEMMA ExclusiveStep ==
    ASSUME Exclusive, NEW p \in Request, Moved(p) \/ Ended(p)
    PROVE  Exclusive'
  <1> SUFFICES ASSUME NEW q \in Request, NEW r \in Request, q # r
               PROVE  Compatible(held'[q], held'[r])
    BY DEF Exclusive, Compatible, Conflict
  <1>1. \A l, m : Conflict(l, m) <=> Conflict(m, l)
    BY DEF Conflict
  <1>2. \A x \in Request \ {p} : held'[x] = held[x]
    BY DEF Moved, Ended, Alone
  <1>3. held'[p] = {} \/ (held'[p] = held[p] \cup Wanted(p) /\ Grantable(p, Wanted(p)))
    BY DEF Moved, Ended
  <1>4. \A x \in Request \ {p} : Compatible(held'[p], held[x])
    BY <1>3 DEF Compatible, Grantable, Exclusive
  <1>5. \A x \in Request \ {p} : Compatible(held[x], held'[p])
    BY <1>1, <1>4 DEF Compatible
  <1>6. QED
    BY <1>2, <1>4, <1>5 DEF Exclusive

-----------------------------------------------------------------------------
(***************************************************************************)
(* What is known under a lock stays true while another request, with locks *)
(* that do not conflict, does a guarded step.                              *)
(***************************************************************************)
\* Rows under a lock of M.
LEMMA LockKeeps ==
    ASSUME NEW L, NEW M, Guarded(L), Compatible(L, M), NEW c \in Complaint
    PROVE  /\ ComplaintLock(c) \in M =>
                /\ complaintStatus[c] # "UNREGISTERED" => complaintStatus'[c] = complaintStatus[c]
                /\ decisions'[c] = decisions[c]
                /\ approvals'[c] = approvals[c]
                /\ escalation'[c] = escalation[c]
                /\ docketStatus[c] \in {"NONE", "PENDING_APPROVAL"} =>
                     docketStatus'[c] = docketStatus[c]
                /\ docketStatus[c] = "NONE" => entries'[c] = entries[c]
           /\ DocketLock(c) \in M /\ docketStatus[c] # "NONE" =>
                /\ docketStatus'[c] = docketStatus[c]
                /\ history'[c] = history[c]
                /\ assignee'[c] = assignee[c]
                /\ entries'[c] = entries[c]
           /\ complaintStatus[c] # "UNREGISTERED" => home'[c] = home[c]
  <1>1. ComplaintLock(c) \in M => ComplaintLock(c) \notin L
    BY DEF Compatible, Conflict, ComplaintLock, Lock
  <1>2. DocketLock(c) \in M => DocketLock(c) \notin L
    BY DEF Compatible, Conflict, DocketLock, Lock
  <1>3. QED
    BY <1>1, <1>2 DEF Guarded

\* A locked officer keeps the posting, and gets no case unless it is the holder
\* of the lock that assigns.
LEMMA OfficerKeeps ==
    ASSUME NEW L, NEW M, Guarded(L), Compatible(L, M), NEW o \in Officer,
           FileTypeOK, FileTypeOK'
    PROVE  /\ DutyLock(o) \in M \/ StaffLock(o) \in M => posting'[o] = posting[o]
           /\ StaffLock(o) \in M => (Busy(o)' => Busy(o))
  <1>1. DutyLock(o) \in M \/ StaffLock(o) \in M => StaffLock(o) \notin L
    BY DEF Compatible, Conflict, DutyLock, StaffLock, Lock
  <1>2. DutyLock(o) \in M \/ StaffLock(o) \in M => posting'[o] = posting[o]
    BY <1>1 DEF Guarded
  <1>3. ASSUME StaffLock(o) \in M, Busy(o)' PROVE Busy(o)
    <2>1. PICK d \in Complaint : assignee'[d] = o /\ docketStatus'[d] # "CLOSED"
      BY <1>3 DEF Busy
    <2>2. assignee[d] = o
      BY <1>1, <1>3, <2>1, CaseAssumption DEF Guarded
    <2>3. docketStatus[d] # "CLOSED"
      BY <2>1 DEF Guarded
    <2>4. QED
      BY <2>2, <2>3 DEF Busy
  <1>4. QED
    BY <1>2, <1>3

\* What a request knows survives the guarded step of another.
LEMMA StandKnows ==
    ASSUME RequestsInv, FileTypeOK', NEW L, Guarded(L), NEW q \in Request,
           req'[q] = req[q], held'[q] = held[q], Compatible(L, held[q])
    PROVE  Knows(q)'
  <1> DEFINE r == req[q]
             c == req[q].case
  <1>t. FileTypeOK /\ DecisionFinal /\ RequestsTyped /\ Knows(q)
    BY DEF RequestsInv
  <1>r. req[q] \in RequestRecords /\ Argued(req[q])
    BY <1>t DEF RequestsTyped
  <1>n. c \in Complaint => (docketStatus[c] # "NONE" <=> complaintStatus[c] = "DOCKET_CREATED")
    BY <1>t DEF DecisionFinal
  <1>k. c \in Complaint =>
          /\ ComplaintLock(c) \in held[q] =>
               /\ complaintStatus[c] # "UNREGISTERED" => complaintStatus'[c] = complaintStatus[c]
               /\ decisions'[c] = decisions[c]
               /\ approvals'[c] = approvals[c]
               /\ escalation'[c] = escalation[c]
               /\ docketStatus[c] \in {"NONE", "PENDING_APPROVAL"} =>
                    docketStatus'[c] = docketStatus[c]
               /\ docketStatus[c] = "NONE" => entries'[c] = entries[c]
          /\ DocketLock(c) \in held[q] /\ docketStatus[c] # "NONE" =>
               /\ docketStatus'[c] = docketStatus[c]
               /\ history'[c] = history[c]
               /\ assignee'[c] = assignee[c]
               /\ entries'[c] = entries[c]
          /\ complaintStatus[c] # "UNREGISTERED" => home'[c] = home[c]
    BY LockKeeps
  <1>o. \A o \in Officer :
          /\ DutyLock(o) \in held[q] \/ StaffLock(o) \in held[q] => posting'[o] = posting[o]
          /\ StaffLock(o) \in held[q] => (Busy(o)' => Busy(o))
    BY <1>t, OfficerKeeps
  <1>d. r.actor \in Officer /\ OnDuty(q) => OnDuty(q)'
    BY <1>o DEF OnDuty
  <1>s. c \in Complaint /\ Registered(q) /\ InScope(q) => InScope(q)'
    BY <1>k DEF Registered, InScope
  <1>h. /\ HasComplaint(q)' <=> HasComplaint(q)
        /\ HasDocket(q)' <=> HasDocket(q)
        /\ HasTarget(q)' <=> HasTarget(q)
    BY DEF HasComplaint, HasDocket, HasTarget
  <1>1. ASSUME r.op = "review" PROVE KnowsReview(q)'
    <2>1. KnowsReview(q) /\ c \in Complaint /\ r.actor \in Officer
      BY <1>1, <1>t, <1>r DEF Knows, Argued
    <2>2. QED
      BY <2>1, <1>k, <1>d, <1>s, <1>h DEF KnowsReview, Registered, HasComplaint
  <1>2. ASSUME r.op = "decide" PROVE KnowsDecide(q)'
    <2>1. KnowsDecide(q) /\ c \in Complaint
      BY <1>2, <1>t, <1>r DEF Knows, Argued
    <2>2. QED
      BY <2>1, <1>k, <1>h DEF KnowsDecide, HasComplaint, DecidableStatuses
  <1>3. ASSUME r.op = "open" PROVE KnowsOpen(q)'
    <2>1. KnowsOpen(q) /\ c \in Complaint
      BY <1>3, <1>t, <1>r DEF Knows, Argued
    <2>2. QED
      BY <2>1, <1>k, <1>h DEF KnowsOpen, HasComplaint
  <1>4. ASSUME r.op = "approve" PROVE KnowsApprove(q)'
    <2>1. KnowsApprove(q) /\ c \in Complaint
      BY <1>4, <1>t, <1>r DEF Knows, Argued
    <2>2. r.at \in {"docket", "officer_key", "commit"} =>
             /\ HasComplaint(q) /\ InScope(q) /\ docketStatus[c] # "NONE" /\ Registered(q)
      BY <2>1, <1>n DEF KnowsApprove, Registered
    <2>3. r.at \in {"docket", "officer_key", "commit"} => docketStatus'[c] # "NONE"
      BY <2>1, <2>2 DEF Guarded
    <2>4. QED
      BY <2>1, <2>2, <2>3, <1>k, <1>s, <1>h DEF KnowsApprove, HasComplaint, HasDocket
  <1>5. ASSUME r.op = "material" PROVE KnowsMaterial(q)'
    <2>1. KnowsMaterial(q) /\ c \in Complaint /\ r.actor \in Officer
      BY <1>5, <1>t, <1>r DEF Knows, Argued
    <2>2. r.at \notin {"role", "complaint"} => HasComplaint(q)' /\ Registered(q)'
      BY <2>1, <1>k, <1>h DEF KnowsMaterial, Registered, HasComplaint
    <2>3. /\ r.at = "scope" => OnDuty(q)'
          /\ r.at \in {"docket", "officer_key", "commit"} /\ r.choice = "CHARGE_OFFICER" =>
               OnDuty(q)'
      BY <2>1, <1>d DEF KnowsMaterial
    <2>4. ASSUME r.at \in {"officer_key", "commit"}
          PROVE  /\ InScope(q)'
                 /\ docketStatus'[c] # "NONE" => HasDocket(q)'
                 /\ Len(entries'[c]) < MaxEntries
                 /\ r.choice = "CHARGE_OFFICER" => IntakeOpen(c)'
                 /\ r.choice # "CHARGE_OFFICER" =>
                      assignee'[c] = r.actor /\ docketStatus'[c] \in WritableStatuses
      <3>1. /\ HasComplaint(q) /\ Registered(q) /\ InScope(q)
            /\ docketStatus[c] # "NONE" => HasDocket(q)
            /\ Len(entries[c]) < MaxEntries
            /\ r.choice = "CHARGE_OFFICER" => IntakeOpen(c)
            /\ r.choice # "CHARGE_OFFICER" =>
                 assignee[c] = r.actor /\ docketStatus[c] \in WritableStatuses
        BY <2>1, <2>4 DEF KnowsMaterial
      <3>2. /\ complaintStatus'[c] = complaintStatus[c]
            /\ docketStatus'[c] = docketStatus[c]
            /\ entries'[c] = entries[c]
        BY <2>1, <3>1, <1>k DEF HasComplaint, HasDocket, Registered
      <3>3. r.choice # "CHARGE_OFFICER" => assignee'[c] = assignee[c]
        BY <2>1, <3>1, <1>k DEF HasDocket, WritableStatuses
      <3>4. QED
        BY <2>1, <3>1, <3>2, <3>3, <1>s, <1>h DEF IntakeOpen
    <2>5. QED
      BY <2>2, <2>3, <2>4 DEF KnowsMaterial
  <1>6. ASSUME r.op = "refusal_review" PROVE KnowsRefusal(q)'
    <2>1. KnowsRefusal(q) /\ c \in Complaint
      BY <1>6, <1>t, <1>r DEF Knows, Argued
    <2>2. QED
      BY <2>1, <1>k, <1>h DEF KnowsRefusal, HasComplaint, Refused
  <1>7. ASSUME r.op \in {"escalation", "ncc_escalation"} PROVE KnowsEscalation(q)'
    <2>1. KnowsEscalation(q) /\ c \in Complaint
      BY <1>7, <1>t, <1>r DEF Knows, Argued
    <2>2. EscalationTarget(q) \in Targets /\ EscalationTarget(q)' = EscalationTarget(q)
      BY DEF EscalationTarget, Targets
    <2>3. QED
      BY <2>1, <2>2, <1>k, <1>h DEF KnowsEscalation, HasComplaint, Guarded
  <1>8. ASSUME r.op = "assign" PROVE KnowsAssign(q)'
    <2>1. KnowsAssign(q) /\ c \in Complaint /\ r.target \in Officer
      BY <1>8, <1>t, <1>r DEF Knows, Argued
    <2>2. r.at \in {"target", "eligible", "busy"} \cup Inserting =>
             /\ HasDocket(q)' /\ InScope(q)'
             /\ docketStatus'[c] = docketStatus[c] /\ history'[c] = history[c]
             /\ assignee'[c] = assignee[c]
      BY <2>1, <1>k, <1>n, <1>s, <1>h DEF KnowsAssign, HasDocket, Registered, WritableStatuses
    <2>3. r.at \in {"eligible", "busy"} \cup Inserting =>
             /\ HasTarget(q)' /\ posting'[r.target] = posting[r.target]
             /\ Busy(r.target)' => Busy(r.target)
      BY <2>1, <1>o, <1>h DEF KnowsAssign, HasTarget
    <2>4. QED
      BY <2>1, <2>2, <2>3 DEF KnowsAssign, Inserting, Busy
  <1>9. ASSUME r.op = "unassign" PROVE KnowsUnassign(q)'
    <2>1. KnowsUnassign(q) /\ c \in Complaint
      BY <1>9, <1>t, <1>r DEF Knows, Argued
    <2>2. QED
      BY <2>1, <1>k, <1>h DEF KnowsUnassign, HasDocket, WritableStatuses
  <1>10. ASSUME r.op = "note" PROVE KnowsNote(q)'
    <2>1. KnowsNote(q) /\ c \in Complaint
      BY <1>10, <1>t, <1>r DEF Knows, Argued
    <2>2. QED
      BY <2>1, <1>k, <1>h DEF KnowsNote, HasDocket, WritableStatuses
  <1>11. ASSUME r.op = "status" PROVE KnowsStatus(q)'
    <2>1. KnowsStatus(q) /\ c \in Complaint
      BY <1>11, <1>t, <1>r DEF Knows, Argued
    <2>2. r.at \in {"trigger", "commit"} => docketStatus[c] # "NONE"
      BY <2>1 DEF KnowsStatus, StatusTransitions
    <2>3. QED
      BY <2>1, <2>2, <1>k, <1>h DEF KnowsStatus, HasDocket
  <1>12. ASSUME r.op = "change" PROVE KnowsChange(q)'
    <2>1. KnowsChange(q) /\ r.target \in Officer
      BY <1>12, <1>t, <1>r DEF Knows, Argued
    <2>2. r.at \in {"moving", "commit"} =>
             /\ HasTarget(q)' /\ posting'[r.target] = posting[r.target]
             /\ Busy(r.target)' => Busy(r.target)
      BY <2>1, <1>o, <1>h DEF KnowsChange, HasTarget
    <2>3. QED
      BY <2>1, <2>2 DEF KnowsChange, Moving
  <1>13. QED
    BY <1>1, <1>2, <1>3, <1>4, <1>5, <1>6, <1>7, <1>8, <1>9, <1>10, <1>11, <1>12 DEF Knows

-----------------------------------------------------------------------------
(***************************************************************************)
(* The checks of the handlers: what the request knows after each of them.  *)
(***************************************************************************)
\* A check that fails ends the request.
LEMMA CheckFails ==
    ASSUME RequestsInv, NEW p \in Request, Finish(p), UNCHANGED fileVars
    PROVE  Checked(p)
  BY FinishEnds DEF RequestsInv, Checked

\* What holds of every step to the next place that writes no table.
LEMMA StepPasses ==
    ASSUME RequestsInv, NEW p \in Request, NEW next \in Places, Grantable(p, Wanted(p)),
           held'[p] = held[p] \cup Wanted(p), Alone(p), RequestsTyped', UNCHANGED fileVars,
           req'[p].at = next, req'[p].op = req[p].op, req'[p].case = req[p].case,
           req'[p].actor = req[p].actor, req'[p].target = req[p].target,
           req'[p].expected = req[p].expected, req'[p].post = req[p].post
    PROVE  Passed(p, next)
  <1>1. /\ complaintStatus' = complaintStatus /\ home' = home /\ decisions' = decisions
        /\ escalation' = escalation /\ docketStatus' = docketStatus
        /\ approvals' = approvals /\ history' = history /\ assignee' = assignee
        /\ entries' = entries /\ posting' = posting
    BY DEF fileVars
  <1>2. /\ HasComplaint(p) => HasComplaint(p)'
        /\ HasDocket(p) => HasDocket(p)'
        /\ HasTarget(p) => HasTarget(p)'
    BY DEF HasComplaint, HasDocket, HasTarget
  <1>3. /\ Registered(p)' <=> Registered(p)
        /\ Busy(req[p].target)' <=> Busy(req[p].target)
    BY <1>1 DEF Registered, Busy
  <1>4. QED
    BY <1>1, <1>2, <1>3 DEF Moved, Passed

\* A check that succeeds keeps what the request knew and adds the locks wanted.
LEMMA CheckPasses ==
    ASSUME RequestsInv, NEW p \in Request, NEW next \in Places, Passes(p, next)
    PROVE  Passed(p, next) /\ Kept(p)
  <1>1. Grantable(p, Wanted(p)) /\ UNCHANGED fileVars /\ RequestsTyped
    BY DEF Passes, RequestsInv
  <1>2. /\ held'[p] = held[p] \cup Wanted(p)
        /\ Alone(p) /\ RequestsTyped'
        /\ req'[p].at = next /\ req'[p].op = req[p].op /\ req'[p].case = req[p].case
        /\ req'[p].actor = req[p].actor /\ req'[p].seen = req[p].seen
        /\ req'[p].target = req[p].target /\ req'[p].choice = req[p].choice
        /\ req'[p].expected = req[p].expected /\ req'[p].post = req[p].post
    BY <1>1, AdvanceKeeps DEF Passes
  <1>3. Passed(p, next)
    BY <1>1, <1>2, StepPasses
  <1>4. Kept(p)
    BY <1>2, <1>3 DEF Kept, Passed, OnDuty, InScope, EscalationTarget
  <1>5. QED
    BY <1>3, <1>4

\* The read of the officer row.
LEMMA StationRead ==
    ASSUME RequestsInv, NEW p \in Request, NEW next \in Places, ReadStation(p, next),
           req[p].actor \in Officer
    PROVE  \/ Checked(p)
           \/ /\ Passed(p, next)
              /\ req'[p].choice = req[p].choice
              /\ posting[req[p].actor].active
              /\ req'[p].seen = posting[req[p].actor].station
  <1> DEFINE s == posting[req[p].actor].station
  <1>1. CASE ~posting[req[p].actor].active
    BY <1>1, CheckFails DEF ReadStation
  <1>2. CASE posting[req[p].actor].active
    <2>1. /\ Grantable(p, Wanted(p)) /\ UNCHANGED fileVars /\ RequestsTyped /\ s \in Station
          /\ req' = [req EXCEPT ![p].at = next, ![p].seen = s]
          /\ held' = [held EXCEPT ![p] = @ \cup Wanted(p)]
      BY <1>2 DEF ReadStation, RequestsInv, FileTypeOK, Postings
    <2> HIDE DEF s
    <2>2. req[p] \in RequestRecords /\ Argued(req[p])
      BY <2>1 DEF RequestsTyped
    <2>3. /\ req'[p].at = next /\ req'[p].op = req[p].op /\ req'[p].case = req[p].case
          /\ req'[p].actor = req[p].actor /\ req'[p].seen = s
          /\ req'[p].target = req[p].target /\ req'[p].choice = req[p].choice
          /\ req'[p].expected = req[p].expected /\ req'[p].post = req[p].post
          /\ req'[p] \in RequestRecords
      BY <2>1, <2>2 DEF RequestsTyped, RequestRecords
    <2>4. Alone(p) /\ held'[p] = held[p] \cup Wanted(p)
      BY <2>1 DEF Alone, RequestsTyped
    <2>5. RequestsTyped'
      <3>1. req' \in [Request -> RequestRecords]
        BY <2>1, <2>3, <2>4 DEF Alone, RequestsTyped
      <3>2. held' = [q \in Request |-> held'[q]]
        BY <2>1 DEF RequestsTyped
      <3>3. Argued(req'[p])
        BY <2>2, <2>3 DEF Argued
      <3>4. QED
        BY <2>1, <2>4, <3>1, <3>2, <3>3 DEF Alone, RequestsTyped
    <2>6. Passed(p, next)
      BY <2>1, <2>3, <2>4, <2>5, StepPasses
    <2>7. QED
      BY <1>2, <2>3, <2>6 DEF s
  <1>3. QED
    BY <1>1, <1>2

\* The review: the complaint is still submitted, and locked.
LEMMA ReviewLockChecked ==
    ASSUME RequestsInv, NEW p \in Request, ReviewLock(p)
    PROVE  Checked(p)
  <1>i. Knows(p) /\ FileTypeOK /\ DecisionFinal /\ req[p] \in RequestRecords /\ Argued(req[p])
    BY DEF RequestsInv, RequestsTyped
  <1>g. req[p].op = "review" /\ req[p].at = "complaint"
    BY DEF ReviewLock, At
  <1>1. \/ Finish(p) /\ UNCHANGED fileVars
        \/ /\ Passes(p, "commit")
           /\ InScope(p)
           /\ complaintStatus[req[p].case] = "SUBMITTED"
    BY <1>g DEF ReviewLock, Check, Passes
  <1>2. CASE Finish(p) /\ UNCHANGED fileVars
    BY <1>2, CheckFails
  <1>3. ASSUME Passes(p, "commit"),
              InScope(p),
              complaintStatus[req[p].case] = "SUBMITTED"
        PROVE  Checked(p)
    <2>1. Passed(p, "commit") /\ Kept(p)
      BY <1>3, CheckPasses DEF Places
    <2>2. ComplaintLock(req[p].case) \in Wanted(p)
      BY <1>g, WantedComplaint
    <2>3. KnowsReview(p)
      BY <1>g, <1>i DEF Knows
    <2>4. KnowsReview(p)'
      BY <2>1, <2>2, <2>3, <1>3, <1>g DEF Passed, Kept, KnowsReview, HasComplaint
    <2>5. QED
      BY <2>1, <2>4, <1>g DEF Passed, Kept, Checked, Knows, fileVars
  <1>4. QED
    BY <1>1, <1>2, <1>3

\* The second look at the role of the deciding officer.
LEMMA DecideRoleChecked ==
    ASSUME RequestsInv, NEW p \in Request, DecideRole(p)
    PROVE  Checked(p)
  <1>i. Knows(p) /\ FileTypeOK /\ DecisionFinal /\ req[p] \in RequestRecords /\ Argued(req[p])
    BY DEF RequestsInv, RequestsTyped
  <1>g. req[p].op = "decide" /\ req[p].at = "decider"
    BY DEF DecideRole, At
  <1>1. \/ Finish(p) /\ UNCHANGED fileVars
        \/ Passes(p, "complaint")
    BY <1>g DEF DecideRole, Check, Passes
  <1>2. CASE Finish(p) /\ UNCHANGED fileVars
    BY <1>2, CheckFails
  <1>3. ASSUME Passes(p, "complaint")
        PROVE  Checked(p)
    <2>1. Passed(p, "complaint") /\ Kept(p)
      BY <1>3, CheckPasses DEF Places
    <2>2. KnowsDecide(p)'
      BY <2>1, <1>3, <1>g DEF Passed, Kept, KnowsDecide
    <2>3. QED
      BY <2>1, <2>2, <1>g DEF Passed, Kept, Checked, Knows, fileVars
  <1>4. QED
    BY <1>1, <1>2, <1>3

\* The decision: the complaint is undecided, and locked.
LEMMA DecideLockChecked ==
    ASSUME RequestsInv, NEW p \in Request, DecideLock(p)
    PROVE  Checked(p)
  <1>i. Knows(p) /\ FileTypeOK /\ DecisionFinal /\ req[p] \in RequestRecords /\ Argued(req[p])
    BY DEF RequestsInv, RequestsTyped
  <1>g. req[p].op = "decide" /\ req[p].at = "complaint"
    BY DEF DecideLock, At
  <1>1. \/ Finish(p) /\ UNCHANGED fileVars
        \/ /\ Passes(p, "officer_key")
           /\ complaintStatus[req[p].case] \in DecidableStatuses
    BY <1>g DEF DecideLock, Check, Passes
  <1>2. CASE Finish(p) /\ UNCHANGED fileVars
    BY <1>2, CheckFails
  <1>3. ASSUME Passes(p, "officer_key"),
              complaintStatus[req[p].case] \in DecidableStatuses
        PROVE  Checked(p)
    <2>1. Passed(p, "officer_key") /\ Kept(p)
      BY <1>3, CheckPasses DEF Places
    <2>2. ComplaintLock(req[p].case) \in Wanted(p)
      BY <1>g, WantedComplaint
    <2>3. KnowsDecide(p)'
      BY <2>1, <2>2, <1>3, <1>g DEF Passed, Kept, KnowsDecide, HasComplaint
    <2>4. QED
      BY <2>1, <2>3, <1>g DEF Passed, Kept, Checked, Knows, fileVars
  <1>4. QED
    BY <1>1, <1>2, <1>3

\* The opening of a docket: the complaint was accepted and has none, and is locked.
LEMMA OpenLockChecked ==
    ASSUME RequestsInv, NEW p \in Request, OpenLock(p)
    PROVE  Checked(p)
  <1>i. Knows(p) /\ FileTypeOK /\ DecisionFinal /\ req[p] \in RequestRecords /\ Argued(req[p])
    BY DEF RequestsInv, RequestsTyped
  <1>g. req[p].op = "open" /\ req[p].at = "complaint"
    BY DEF OpenLock, At
  <1>1. \/ Finish(p) /\ UNCHANGED fileVars
        \/ /\ Passes(p, "existing")
        \/ /\ Passes(p, "officer_key")
           /\ docketStatus[req[p].case] = "NONE"
           /\ complaintStatus[req[p].case] = "ACCEPTED"
           /\ \E i \in 1..Len(decisions[req[p].case]) : decisions[req[p].case][i] = "ACCEPTED"
    BY <1>g DEF OpenLock, Check, Passes
  <1>2. CASE Finish(p) /\ UNCHANGED fileVars
    BY <1>2, CheckFails
  <1>3. ASSUME Passes(p, "existing")
        PROVE  Checked(p)
    <2>1. Passed(p, "existing") /\ Kept(p)
      BY <1>3, CheckPasses DEF Places
    <2>2. KnowsOpen(p)'
      BY <2>1, <1>3, <1>g DEF Passed, Kept, KnowsOpen
    <2>3. QED
      BY <2>1, <2>2, <1>g DEF Passed, Kept, Checked, Knows, fileVars
  <1>4. ASSUME Passes(p, "officer_key"),
              docketStatus[req[p].case] = "NONE",
              complaintStatus[req[p].case] = "ACCEPTED",
              \E i \in 1..Len(decisions[req[p].case]) : decisions[req[p].case][i] = "ACCEPTED"
        PROVE  Checked(p)
    <2>1. Passed(p, "officer_key") /\ Kept(p)
      BY <1>4, CheckPasses DEF Places
    <2>2. ComplaintLock(req[p].case) \in Wanted(p)
      BY <1>g, WantedComplaint
    <2>3. KnowsOpen(p)'
      BY <2>1, <2>2, <1>4, <1>g DEF Passed, Kept, KnowsOpen, HasComplaint
    <2>4. QED
      BY <2>1, <2>3, <1>g DEF Passed, Kept, Checked, Knows, fileVars
  <1>5. QED
    BY <1>1, <1>2, <1>3, <1>4

\* Approval: the complaint of the commander's station is locked and has a docket.
LEMMA ApproveLockComplaintChecked ==
    ASSUME RequestsInv, NEW p \in Request, ApproveLockComplaint(p)
    PROVE  Checked(p)
  <1>i. Knows(p) /\ FileTypeOK /\ DecisionFinal /\ req[p] \in RequestRecords /\ Argued(req[p])
    BY DEF RequestsInv, RequestsTyped
  <1>g. req[p].op = "approve" /\ req[p].at = "complaint"
    BY DEF ApproveLockComplaint, At
  <1>1. \/ Finish(p) /\ UNCHANGED fileVars
        \/ /\ Passes(p, "docket")
           /\ InScope(p)
           /\ docketStatus[req[p].case] # "NONE"
    BY <1>g DEF ApproveLockComplaint, Check, Passes
  <1>2. CASE Finish(p) /\ UNCHANGED fileVars
    BY <1>2, CheckFails
  <1>3. ASSUME Passes(p, "docket"),
              InScope(p),
              docketStatus[req[p].case] # "NONE"
        PROVE  Checked(p)
    <2>1. Passed(p, "docket") /\ Kept(p)
      BY <1>3, CheckPasses DEF Places
    <2>2. ComplaintLock(req[p].case) \in Wanted(p)
      BY <1>g, <1>3, WantedComplaint
    <2>3. KnowsApprove(p)'
      BY <2>1, <2>2, <1>3, <1>g DEF Passed, Kept, KnowsApprove, HasComplaint
    <2>4. QED
      BY <2>1, <2>3, <1>g DEF Passed, Kept, Checked, Knows, fileVars
  <1>4. QED
    BY <1>1, <1>2, <1>3

\* Approval: the docket waits for it, and is locked.
LEMMA ApproveLockDocketChecked ==
    ASSUME RequestsInv, NEW p \in Request, ApproveLockDocket(p)
    PROVE  Checked(p)
  <1>i. Knows(p) /\ FileTypeOK /\ DecisionFinal /\ req[p] \in RequestRecords /\ Argued(req[p])
    BY DEF RequestsInv, RequestsTyped
  <1>g. req[p].op = "approve" /\ req[p].at = "docket"
    BY DEF ApproveLockDocket, At
  <1>1. \/ Finish(p) /\ UNCHANGED fileVars
        \/ /\ Passes(p, "officer_key")
           /\ docketStatus[req[p].case] = "PENDING_APPROVAL"
           /\ Len(approvals[req[p].case]) < MaxApprovals
    BY <1>g DEF ApproveLockDocket, Check, Passes
  <1>2. CASE Finish(p) /\ UNCHANGED fileVars
    BY <1>2, CheckFails
  <1>3. ASSUME Passes(p, "officer_key"),
              docketStatus[req[p].case] = "PENDING_APPROVAL",
              Len(approvals[req[p].case]) < MaxApprovals
        PROVE  Checked(p)
    <2>1. Passed(p, "officer_key") /\ Kept(p)
      BY <1>3, CheckPasses DEF Places
    <2>2. KnowsApprove(p)
      BY <1>g, <1>i DEF Knows
    <2>3. DocketLock(req[p].case) \in Wanted(p)
      BY <2>2, <1>g, WantedDocket DEF KnowsApprove
    <2>4. KnowsApprove(p)'
      BY <2>1, <2>2, <2>3, <1>3, <1>g DEF Passed, Kept, KnowsApprove, HasDocket
    <2>5. QED
      BY <2>1, <2>4, <1>g DEF Passed, Kept, Checked, Knows, fileVars
  <1>4. QED
    BY <1>1, <1>2, <1>3

\* Case material: the complaint exists, and is locked.
LEMMA MaterialLockComplaintChecked ==
    ASSUME RequestsInv, NEW p \in Request, MaterialLockComplaint(p)
    PROVE  Checked(p)
  <1>i. Knows(p) /\ FileTypeOK /\ DecisionFinal /\ req[p] \in RequestRecords /\ Argued(req[p])
    BY DEF RequestsInv, RequestsTyped
  <1>g. req[p].op = "material" /\ req[p].at = "complaint"
    BY DEF MaterialLockComplaint, At
  <1>n. docketStatus[req[p].case] # "NONE" => complaintStatus[req[p].case] # "UNREGISTERED"
    BY <1>g, <1>i DEF DecisionFinal, Argued
  <1>1. \/ Finish(p) /\ UNCHANGED fileVars
        \/ /\ Passes(p, "desk_role")
           /\ Registered(p)
        \/ /\ Passes(p, "posting")
           /\ Registered(p)
    BY <1>g, <1>n DEF MaterialLockComplaint, Check, Passes, Registered
  <1>2. CASE Finish(p) /\ UNCHANGED fileVars
    BY <1>2, CheckFails
  <1>3. ASSUME Passes(p, "desk_role"),
              Registered(p)
        PROVE  Checked(p)
    <2>1. Passed(p, "desk_role") /\ Kept(p)
      BY <1>3, CheckPasses DEF Places
    <2>2. ComplaintLock(req[p].case) \in Wanted(p)
      BY <1>g, WantedComplaint
    <2>3. KnowsMaterial(p)'
      BY <2>1, <2>2, <1>3, <1>g DEF Passed, Kept, KnowsMaterial, HasComplaint
    <2>4. QED
      BY <2>1, <2>3, <1>g DEF Passed, Kept, Checked, Knows, fileVars
  <1>4. ASSUME Passes(p, "posting"),
              Registered(p)
        PROVE  Checked(p)
    <2>1. Passed(p, "posting") /\ Kept(p)
      BY <1>4, CheckPasses DEF Places
    <2>2. ComplaintLock(req[p].case) \in Wanted(p)
      BY <1>g, WantedComplaint
    <2>3. KnowsMaterial(p)'
      BY <2>1, <2>2, <1>4, <1>g DEF Passed, Kept, KnowsMaterial, HasComplaint
    <2>4. QED
      BY <2>1, <2>3, <1>g DEF Passed, Kept, Checked, Knows, fileVars
  <1>5. QED
    BY <1>1, <1>2, <1>3, <1>4

\* Case material: the station of the charge officer.
LEMMA MaterialScopeChecked ==
    ASSUME RequestsInv, NEW p \in Request, MaterialScope(p)
    PROVE  Checked(p)
  <1>i. Knows(p) /\ FileTypeOK /\ DecisionFinal /\ req[p] \in RequestRecords /\ Argued(req[p])
    BY DEF RequestsInv, RequestsTyped
  <1>g. req[p].op = "material" /\ req[p].at = "scope"
    BY DEF MaterialScope, At
  <1>1. \/ Finish(p) /\ UNCHANGED fileVars
        \/ Passes(p, "docket")
    BY <1>g DEF MaterialScope, Check, Passes
  <1>2. CASE Finish(p) /\ UNCHANGED fileVars
    BY <1>2, CheckFails
  <1>3. ASSUME Passes(p, "docket")
        PROVE  Checked(p)
    <2>1. Passed(p, "docket") /\ Kept(p)
      BY <1>3, CheckPasses DEF Places
    <2>2. KnowsMaterial(p)
      BY <1>g, <1>i DEF Knows
    <2>3. KnowsMaterial(p)'
      BY <2>1, <2>2, <1>3, <1>g DEF Passed, Kept, KnowsMaterial
    <2>4. QED
      BY <2>1, <2>3, <1>g DEF Passed, Kept, Checked, Knows, fileVars
  <1>4. QED
    BY <1>1, <1>2, <1>3

\* Case material: the case takes it from this officer, and its docket is locked.
LEMMA MaterialLockDocketChecked ==
    ASSUME RequestsInv, NEW p \in Request, MaterialLockDocket(p)
    PROVE  Checked(p)
  <1>i. Knows(p) /\ FileTypeOK /\ DecisionFinal /\ req[p] \in RequestRecords /\ Argued(req[p])
    BY DEF RequestsInv, RequestsTyped
  <1>g. req[p].op = "material" /\ req[p].at = "docket"
    BY DEF MaterialLockDocket, At
  <1>1. \/ Finish(p) /\ UNCHANGED fileVars
        \/ /\ Passes(p, "officer_key")
           /\ InScope(p)
           /\ Len(entries[req[p].case]) < MaxEntries
           /\ req[p].choice = "CHARGE_OFFICER" => IntakeOpen(req[p].case)
           /\ req[p].choice # "CHARGE_OFFICER" => assignee[req[p].case] = req[p].actor
           /\ req[p].choice # "CHARGE_OFFICER" => docketStatus[req[p].case] \in WritableStatuses
    BY <1>g DEF MaterialLockDocket, Check, Passes
  <1>2. CASE Finish(p) /\ UNCHANGED fileVars
    BY <1>2, CheckFails
  <1>3. ASSUME Passes(p, "officer_key"),
              InScope(p),
              Len(entries[req[p].case]) < MaxEntries,
              req[p].choice = "CHARGE_OFFICER" => IntakeOpen(req[p].case),
              req[p].choice # "CHARGE_OFFICER" => assignee[req[p].case] = req[p].actor,
              req[p].choice # "CHARGE_OFFICER" => docketStatus[req[p].case] \in WritableStatuses
        PROVE  Checked(p)
    <2>1. Passed(p, "officer_key") /\ Kept(p)
      BY <1>3, CheckPasses DEF Places
    <2>2. KnowsMaterial(p)
      BY <1>g, <1>i DEF Knows
    <2>3. docketStatus[req[p].case] # "NONE" => DocketLock(req[p].case) \in Wanted(p)
      BY <1>g, <1>3, WantedDocket
    <2>4. IntakeOpen(req[p].case)' <=> IntakeOpen(req[p].case)
      BY <2>1 DEF Passed, IntakeOpen
    <2>5. KnowsMaterial(p)'
      BY <2>1, <2>2, <2>3, <2>4, <1>3, <1>g DEF Passed, Kept, KnowsMaterial, HasDocket
    <2>6. QED
      BY <2>1, <2>5, <1>g DEF Passed, Kept, Checked, Knows, fileVars
  <1>4. QED
    BY <1>1, <1>2, <1>3

\* The review of a refusal: the complaint was refused, and is locked.
LEMMA ReviewRefusalLockChecked ==
    ASSUME RequestsInv, NEW p \in Request, ReviewRefusalLock(p)
    PROVE  Checked(p)
  <1>i. Knows(p) /\ FileTypeOK /\ DecisionFinal /\ req[p] \in RequestRecords /\ Argued(req[p])
    BY DEF RequestsInv, RequestsTyped
  <1>g. req[p].op = "refusal_review" /\ req[p].at = "complaint"
    BY DEF ReviewRefusalLock, At
  <1>1. \/ Finish(p) /\ UNCHANGED fileVars
        \/ /\ Passes(p, "escalation")
           /\ InScope(p)
           /\ Refused(req[p].case)
    BY <1>g DEF ReviewRefusalLock, Check, Passes
  <1>2. CASE Finish(p) /\ UNCHANGED fileVars
    BY <1>2, CheckFails
  <1>3. ASSUME Passes(p, "escalation"),
              InScope(p),
              Refused(req[p].case)
        PROVE  Checked(p)
    <2>1. Passed(p, "escalation") /\ Kept(p)
      BY <1>3, CheckPasses DEF Places
    <2>2. ComplaintLock(req[p].case) \in Wanted(p)
      BY <1>g, <1>3, WantedComplaint
    <2>3. KnowsRefusal(p)'
      BY <2>1, <2>2, <1>3, <1>g DEF Passed, Kept, KnowsRefusal, HasComplaint, Refused
    <2>4. QED
      BY <2>1, <2>3, <1>g DEF Passed, Kept, Checked, Knows, fileVars
  <1>4. QED
    BY <1>1, <1>2, <1>3

\* The review of a refusal: its record.
LEMMA ReviewRefusalRecordChecked ==
    ASSUME RequestsInv, NEW p \in Request, ReviewRefusalRecord(p)
    PROVE  Checked(p)
  <1>i. Knows(p) /\ FileTypeOK /\ DecisionFinal /\ req[p] \in RequestRecords /\ Argued(req[p])
    BY DEF RequestsInv, RequestsTyped
  <1>g. req[p].op = "refusal_review" /\ req[p].at = "escalation"
    BY DEF ReviewRefusalRecord, At
  <1>1. \/ Finish(p) /\ UNCHANGED fileVars
        \/ Passes(p, "commit")
    BY <1>g DEF ReviewRefusalRecord, Check, Passes
  <1>2. CASE Finish(p) /\ UNCHANGED fileVars
    BY <1>2, CheckFails
  <1>3. ASSUME Passes(p, "commit")
        PROVE  Checked(p)
    <2>1. Passed(p, "commit") /\ Kept(p)
      BY <1>3, CheckPasses DEF Places
    <2>2. KnowsRefusal(p)
      BY <1>g, <1>i DEF Knows
    <2>3. KnowsRefusal(p)'
      BY <2>1, <2>2, <1>3, <1>g DEF Passed, Kept, KnowsRefusal, Refused
    <2>4. QED
      BY <2>1, <2>3, <1>g DEF Passed, Kept, Checked, Knows, fileVars
  <1>4. QED
    BY <1>1, <1>2, <1>3

\* An escalation: the record exists.
LEMMA EscalationLockChecked ==
    ASSUME RequestsInv, NEW p \in Request, EscalationLock(p)
    PROVE  Checked(p)
  <1>i. Knows(p) /\ FileTypeOK /\ DecisionFinal /\ req[p] \in RequestRecords /\ Argued(req[p])
    BY DEF RequestsInv, RequestsTyped
  <1>g. req[p].op \in {"escalation", "ncc_escalation"} /\ req[p].at = "escalation"
    BY DEF EscalationLock, At
  <1>1. \/ Finish(p) /\ UNCHANGED fileVars
        \/ /\ Passes(p, "complaint")
           /\ escalation[req[p].case][EscalationTarget(p)] # "NONE"
    BY <1>g DEF EscalationLock, Check, Passes
  <1>2. CASE Finish(p) /\ UNCHANGED fileVars
    BY <1>2, CheckFails
  <1>3. ASSUME Passes(p, "complaint"),
              escalation[req[p].case][EscalationTarget(p)] # "NONE"
        PROVE  Checked(p)
    <2>1. Passed(p, "complaint") /\ Kept(p)
      BY <1>3, CheckPasses DEF Places
    <2>2. KnowsEscalation(p)'
      BY <2>1, <1>3, <1>g DEF Passed, Kept, KnowsEscalation
    <2>3. QED
      BY <2>1, <2>2, <1>g DEF Passed, Kept, Checked, Knows, fileVars
  <1>4. QED
    BY <1>1, <1>2, <1>3

\* An escalation: the record is in a status the answer follows, and the complaint is locked.
LEMMA EscalationLockComplaintChecked ==
    ASSUME RequestsInv, NEW p \in Request, EscalationLockComplaint(p)
    PROVE  Checked(p)
  <1>i. Knows(p) /\ FileTypeOK /\ DecisionFinal /\ req[p] \in RequestRecords /\ Argued(req[p])
    BY DEF RequestsInv, RequestsTyped
  <1>g. req[p].op \in {"escalation", "ncc_escalation"} /\ req[p].at = "complaint"
    BY DEF EscalationLockComplaint, At
  <1>1. \/ Finish(p) /\ UNCHANGED fileVars
        \/ /\ Passes(p, "commit")
           /\ escalation[req[p].case][EscalationTarget(p)] # "RESOLVED"
           /\ req[p].choice = "ACKNOWLEDGED" => escalation[req[p].case][EscalationTarget(p)] = "OPEN"
    BY <1>g DEF EscalationLockComplaint, Check, Passes
  <1>2. CASE Finish(p) /\ UNCHANGED fileVars
    BY <1>2, CheckFails
  <1>3. ASSUME Passes(p, "commit"),
              escalation[req[p].case][EscalationTarget(p)] # "RESOLVED",
              req[p].choice = "ACKNOWLEDGED" => escalation[req[p].case][EscalationTarget(p)] = "OPEN"
        PROVE  Checked(p)
    <2>1. Passed(p, "commit") /\ Kept(p)
      BY <1>3, CheckPasses DEF Places
    <2>2. KnowsEscalation(p)
      BY <1>g, <1>i DEF Knows
    <2>3. ComplaintLock(req[p].case) \in Wanted(p)
      BY <1>g, WantedComplaint
    <2>4. KnowsEscalation(p)'
      BY <2>1, <2>2, <2>3, <1>3, <1>g DEF Passed, Kept, KnowsEscalation, HasComplaint
    <2>5. QED
      BY <2>1, <2>4, <1>g DEF Passed, Kept, Checked, Knows, fileVars
  <1>4. QED
    BY <1>1, <1>2, <1>3

\* An assignment: the docket is open for work, and locked.
LEMMA AssignLockDocketChecked ==
    ASSUME RequestsInv, NEW p \in Request, AssignLockDocket(p)
    PROVE  Checked(p)
  <1>i. Knows(p) /\ FileTypeOK /\ DecisionFinal /\ req[p] \in RequestRecords /\ Argued(req[p])
    BY DEF RequestsInv, RequestsTyped
  <1>g. req[p].op = "assign" /\ req[p].at = "docket"
    BY DEF AssignLockDocket, At
  <1>1. \/ Finish(p) /\ UNCHANGED fileVars
        \/ /\ Passes(p, "target")
           /\ InScope(p)
           /\ docketStatus[req[p].case] \in WritableStatuses
           /\ Len(history[req[p].case]) < MaxHistory
    BY <1>g DEF AssignLockDocket, Check, Passes, Scope
  <1>2. CASE Finish(p) /\ UNCHANGED fileVars
    BY <1>2, CheckFails
  <1>3. ASSUME Passes(p, "target"),
              InScope(p),
              docketStatus[req[p].case] \in WritableStatuses,
              Len(history[req[p].case]) < MaxHistory
        PROVE  Checked(p)
    <2>1. Passed(p, "target") /\ Kept(p)
      BY <1>3, CheckPasses DEF Places
    <2>2. DocketLock(req[p].case) \in Wanted(p)
      BY <1>g, <1>3, WantedDocket DEF WritableStatuses
    <2>3. KnowsAssign(p)'
      BY <2>1, <2>2, <1>3, <1>g DEF Passed, Kept, KnowsAssign, HasDocket, Inserting
    <2>4. QED
      BY <2>1, <2>3, <1>g DEF Passed, Kept, Checked, Knows, fileVars
  <1>4. QED
    BY <1>1, <1>2, <1>3

\* An assignment: the investigator is of the station, and locked.
LEMMA AssignLockTargetChecked ==
    ASSUME RequestsInv, NEW p \in Request, AssignLockTarget(p)
    PROVE  Checked(p)
  <1>i. Knows(p) /\ FileTypeOK /\ DecisionFinal /\ req[p] \in RequestRecords /\ Argued(req[p])
    BY DEF RequestsInv, RequestsTyped
  <1>g. req[p].op = "assign" /\ req[p].at = "target"
    BY DEF AssignLockTarget, At
  <1>1. \/ Finish(p) /\ UNCHANGED fileVars
        \/ /\ Passes(p, "eligible")
           /\ posting[req[p].target].station = req[p].seen
    BY <1>g DEF AssignLockTarget, Check, Passes
  <1>2. CASE Finish(p) /\ UNCHANGED fileVars
    BY <1>2, CheckFails
  <1>3. ASSUME Passes(p, "eligible"),
              posting[req[p].target].station = req[p].seen
        PROVE  Checked(p)
    <2>1. Passed(p, "eligible") /\ Kept(p)
      BY <1>3, CheckPasses DEF Places
    <2>2. KnowsAssign(p)
      BY <1>g, <1>i DEF Knows
    <2>3. StaffLock(req[p].target) \in Wanted(p)
      BY <1>g, WantedOfficer
    <2>4. KnowsAssign(p)'
      BY <2>1, <2>2, <2>3, <1>3, <1>g DEF Passed, Kept, KnowsAssign, HasTarget, Inserting
    <2>5. QED
      BY <2>1, <2>4, <1>g DEF Passed, Kept, Checked, Knows, fileVars
  <1>4. QED
    BY <1>1, <1>2, <1>3

\* An assignment: the investigator is an active one.
LEMMA AssignEligibleChecked ==
    ASSUME RequestsInv, NEW p \in Request, AssignEligible(p)
    PROVE  Checked(p)
  <1>i. Knows(p) /\ FileTypeOK /\ DecisionFinal /\ req[p] \in RequestRecords /\ Argued(req[p])
    BY DEF RequestsInv, RequestsTyped
  <1>g. req[p].op = "assign" /\ req[p].at = "eligible"
    BY DEF AssignEligible, At
  <1>1. \/ Finish(p) /\ UNCHANGED fileVars
        \/ /\ Passes(p, "busy")
           /\ posting[req[p].target].active
           /\ posting[req[p].target].role = "INVESTIGATING_OFFICER"
    BY <1>g DEF AssignEligible, Check, Passes
  <1>2. CASE Finish(p) /\ UNCHANGED fileVars
    BY <1>2, CheckFails
  <1>3. ASSUME Passes(p, "busy"),
              posting[req[p].target].active,
              posting[req[p].target].role = "INVESTIGATING_OFFICER"
        PROVE  Checked(p)
    <2>1. Passed(p, "busy") /\ Kept(p)
      BY <1>3, CheckPasses DEF Places
    <2>2. KnowsAssign(p)
      BY <1>g, <1>i DEF Knows
    <2>3. KnowsAssign(p)'
      BY <2>1, <2>2, <1>3, <1>g DEF Passed, Kept, KnowsAssign, Inserting
    <2>4. QED
      BY <2>1, <2>3, <1>g DEF Passed, Kept, Checked, Knows, fileVars
  <1>4. QED
    BY <1>1, <1>2, <1>3

\* An assignment: the investigator is free.
LEMMA AssignFreeChecked ==
    ASSUME RequestsInv, NEW p \in Request, AssignFree(p)
    PROVE  Checked(p)
  <1>i. Knows(p) /\ FileTypeOK /\ DecisionFinal /\ req[p] \in RequestRecords /\ Argued(req[p])
    BY DEF RequestsInv, RequestsTyped
  <1>g. req[p].op = "assign" /\ req[p].at = "busy"
    BY DEF AssignFree, At
  <1>1. \/ Finish(p) /\ UNCHANGED fileVars
        \/ /\ Passes(p, "trigger")
           /\ assignee[req[p].case] # req[p].target
           /\ ~Busy(req[p].target)
        \/ /\ Passes(p, "officer_key")
           /\ assignee[req[p].case] # req[p].target
           /\ ~Busy(req[p].target)
    BY <1>g DEF AssignFree, Check, Passes
  <1>2. CASE Finish(p) /\ UNCHANGED fileVars
    BY <1>2, CheckFails
  <1>3. ASSUME Passes(p, "trigger"),
              assignee[req[p].case] # req[p].target,
              ~Busy(req[p].target)
        PROVE  Checked(p)
    <2>1. Passed(p, "trigger") /\ Kept(p)
      BY <1>3, CheckPasses DEF Places
    <2>2. KnowsAssign(p)
      BY <1>g, <1>i DEF Knows
    <2>3. KnowsAssign(p)'
      BY <2>1, <2>2, <1>3, <1>g DEF Passed, Kept, KnowsAssign, Inserting
    <2>4. QED
      BY <2>1, <2>3, <1>g DEF Passed, Kept, Checked, Knows, fileVars
  <1>4. ASSUME Passes(p, "officer_key"),
              assignee[req[p].case] # req[p].target,
              ~Busy(req[p].target)
        PROVE  Checked(p)
    <2>1. Passed(p, "officer_key") /\ Kept(p)
      BY <1>4, CheckPasses DEF Places
    <2>2. KnowsAssign(p)
      BY <1>g, <1>i DEF Knows
    <2>3. KnowsAssign(p)'
      BY <2>1, <2>2, <1>4, <1>g DEF Passed, Kept, KnowsAssign, Inserting
    <2>4. QED
      BY <2>1, <2>3, <1>g DEF Passed, Kept, Checked, Knows, fileVars
  <1>5. QED
    BY <1>1, <1>2, <1>3, <1>4

\* An assignment: the trigger locks the complaint.
LEMMA AssignTriggerChecked ==
    ASSUME RequestsInv, NEW p \in Request, AssignTrigger(p)
    PROVE  Checked(p)
  <1>i. Knows(p) /\ FileTypeOK /\ DecisionFinal /\ req[p] \in RequestRecords /\ Argued(req[p])
    BY DEF RequestsInv, RequestsTyped
  <1>g. req[p].op = "assign" /\ req[p].at = "trigger"
    BY DEF AssignTrigger, At
  <1>1. \/ Finish(p) /\ UNCHANGED fileVars
        \/ Passes(p, "user_key")
    BY <1>g DEF AssignTrigger, Check, Passes
  <1>2. CASE Finish(p) /\ UNCHANGED fileVars
    BY <1>2, CheckFails
  <1>3. ASSUME Passes(p, "user_key")
        PROVE  Checked(p)
    <2>1. Passed(p, "user_key") /\ Kept(p)
      BY <1>3, CheckPasses DEF Places
    <2>2. KnowsAssign(p)
      BY <1>g, <1>i DEF Knows
    <2>3. KnowsAssign(p)'
      BY <2>1, <2>2, <1>3, <1>g DEF Passed, Kept, KnowsAssign, Inserting
    <2>4. QED
      BY <2>1, <2>3, <1>g DEF Passed, Kept, Checked, Knows, fileVars
  <1>4. QED
    BY <1>1, <1>2, <1>3

\* A flush that takes the key of the acting officer's row: nothing is lost.
LEMMA FlushOfficerKeyChecked ==
    ASSUME RequestsInv, NEW p \in Request, FlushOfficerKey(p)
    PROVE  Checked(p)
  <1> DEFINE c == req[p].case
             next == IF req[p].op = "assign" /\ docketStatus[c] # "APPROVED"
                       THEN "user_key" ELSE "commit"
  <1>i. Knows(p)
    BY DEF RequestsInv
  <1>f. req[p].op \in {"decide", "open", "approve", "material", "note", "assign"}
    BY DEF FlushOfficerKey
  <1>1. req[p].at = "officer_key" /\ Passes(p, next)
    BY DEF FlushOfficerKey, Check, Passes
  <1>n. next \in {"user_key", "commit"} /\ (next = "user_key" => req[p].op = "assign")
    OBVIOUS
  <1> HIDE DEF next
  <1>2. Passed(p, next) /\ Kept(p)
    BY <1>1, <1>n, CheckPasses DEF Places
  <1>3. Knows(p)'
    <2>1. CASE req[p].op = "decide"
      BY <1>i, <1>1, <1>2, <1>n, <2>1 DEF Passed, Kept, Knows, KnowsDecide
    <2>2. CASE req[p].op = "open"
      BY <1>i, <1>1, <1>2, <1>n, <2>2 DEF Passed, Kept, Knows, KnowsOpen
    <2>3. CASE req[p].op = "approve"
      BY <1>i, <1>1, <1>2, <1>n, <2>3 DEF Passed, Kept, Knows, KnowsApprove
    <2>4. CASE req[p].op = "material"
      <3>1. IntakeOpen(c)' <=> IntakeOpen(c)
        BY <1>2 DEF Passed, IntakeOpen
      <3>2. KnowsMaterial(p)
        BY <1>i, <2>4 DEF Knows
      <3>3. KnowsMaterial(p)'
        BY <1>1, <1>2, <1>n, <2>4, <3>1, <3>2 DEF Passed, Kept, KnowsMaterial
      <3>4. QED
        BY <1>2, <2>4, <3>3 DEF Passed, Knows
    <2>5. CASE req[p].op = "note"
      BY <1>i, <1>1, <1>2, <1>n, <2>5 DEF Passed, Kept, Knows, KnowsNote
    <2>6. CASE req[p].op = "assign"
      <3>1. KnowsAssign(p)'
        BY <1>i, <1>1, <1>2, <1>n, <2>6 DEF Passed, Kept, Knows, KnowsAssign, Inserting
      <3>2. QED
        BY <1>2, <2>6, <3>1 DEF Passed, Knows
    <2>7. QED
      BY <1>f, <2>1, <2>2, <2>3, <2>4, <2>5, <2>6
  <1>4. QED
    BY <1>1, <1>2, <1>3 DEF Passed, Passes, Checked

\* An assignment: the flush that takes the key of the acting user's row.
LEMMA FlushUserKeyChecked ==
    ASSUME RequestsInv, NEW p \in Request, FlushUserKey(p)
    PROVE  Checked(p)
  <1> DEFINE next == IF docketStatus[req[p].case] = "APPROVED" THEN "officer_key" ELSE "commit"
  <1>i. Knows(p)
    BY DEF RequestsInv
  <1>1. req[p].op = "assign" /\ req[p].at = "user_key" /\ Passes(p, next)
    BY DEF FlushUserKey, At, Check, Passes
  <1>n. next \in {"officer_key", "commit"}
    OBVIOUS
  <1> HIDE DEF next
  <1>2. Passed(p, next) /\ Kept(p)
    BY <1>1, <1>n, CheckPasses DEF Places
  <1>3. KnowsAssign(p)'
    BY <1>i, <1>1, <1>2, <1>n DEF Passed, Kept, Knows, KnowsAssign, Inserting
  <1>4. Knows(p)'
    BY <1>1, <1>2, <1>3 DEF Passed, Knows
  <1>5. QED
    BY <1>1, <1>2, <1>4 DEF Passed, Passes, Checked

\* The end of an assignment: the docket has one, and is locked.
LEMMA UnassignLockChecked ==
    ASSUME RequestsInv, NEW p \in Request, UnassignLock(p)
    PROVE  Checked(p)
  <1>i. Knows(p) /\ FileTypeOK /\ DecisionFinal /\ req[p] \in RequestRecords /\ Argued(req[p])
    BY DEF RequestsInv, RequestsTyped
  <1>g. req[p].op = "unassign" /\ req[p].at = "docket"
    BY DEF UnassignLock, At
  <1>1. \/ Finish(p) /\ UNCHANGED fileVars
        \/ /\ Passes(p, "commit")
           /\ InScope(p)
           /\ docketStatus[req[p].case] \in WritableStatuses
           /\ assignee[req[p].case] # None
    BY <1>g DEF UnassignLock, Check, Passes, Scope
  <1>2. CASE Finish(p) /\ UNCHANGED fileVars
    BY <1>2, CheckFails
  <1>3. ASSUME Passes(p, "commit"),
              InScope(p),
              docketStatus[req[p].case] \in WritableStatuses,
              assignee[req[p].case] # None
        PROVE  Checked(p)
    <2>1. Passed(p, "commit") /\ Kept(p)
      BY <1>3, CheckPasses DEF Places
    <2>2. DocketLock(req[p].case) \in Wanted(p)
      BY <1>g, <1>3, WantedDocket DEF WritableStatuses
    <2>3. KnowsUnassign(p)'
      BY <2>1, <2>2, <1>3, <1>g DEF Passed, Kept, KnowsUnassign, HasDocket
    <2>4. QED
      BY <2>1, <2>3, <1>g DEF Passed, Kept, Checked, Knows, fileVars
  <1>4. QED
    BY <1>1, <1>2, <1>3

\* A note: the docket is the investigator's, and locked.
LEMMA NoteLockChecked ==
    ASSUME RequestsInv, NEW p \in Request, NoteLock(p)
    PROVE  Checked(p)
  <1>i. Knows(p) /\ FileTypeOK /\ DecisionFinal /\ req[p] \in RequestRecords /\ Argued(req[p])
    BY DEF RequestsInv, RequestsTyped
  <1>g. req[p].op = "note" /\ req[p].at = "docket"
    BY DEF NoteLock, At
  <1>1. \/ Finish(p) /\ UNCHANGED fileVars
        \/ /\ Passes(p, "officer_key")
           /\ InScope(p)
           /\ docketStatus[req[p].case] \in WritableStatuses
           /\ assignee[req[p].case] = req[p].actor
           /\ Len(entries[req[p].case]) < MaxEntries
    BY <1>g DEF NoteLock, Check, Passes, Scope
  <1>2. CASE Finish(p) /\ UNCHANGED fileVars
    BY <1>2, CheckFails
  <1>3. ASSUME Passes(p, "officer_key"),
              InScope(p),
              docketStatus[req[p].case] \in WritableStatuses,
              assignee[req[p].case] = req[p].actor,
              Len(entries[req[p].case]) < MaxEntries
        PROVE  Checked(p)
    <2>1. Passed(p, "officer_key") /\ Kept(p)
      BY <1>3, CheckPasses DEF Places
    <2>2. DocketLock(req[p].case) \in Wanted(p)
      BY <1>g, <1>3, WantedDocket DEF WritableStatuses
    <2>3. KnowsNote(p)'
      BY <2>1, <2>2, <1>3, <1>g DEF Passed, Kept, KnowsNote, HasDocket
    <2>4. QED
      BY <2>1, <2>3, <1>g DEF Passed, Kept, Checked, Knows, fileVars
  <1>4. QED
    BY <1>1, <1>2, <1>3

\* A new status: the docket is the investigator's, in the status seen, and locked.
LEMMA StatusLockChecked ==
    ASSUME RequestsInv, NEW p \in Request, StatusLock(p)
    PROVE  Checked(p)
  <1>i. Knows(p) /\ FileTypeOK /\ DecisionFinal /\ req[p] \in RequestRecords /\ Argued(req[p])
    BY DEF RequestsInv, RequestsTyped
  <1>g. req[p].op = "status" /\ req[p].at = "docket"
    BY DEF StatusLock, At
  <1>1. \/ Finish(p) /\ UNCHANGED fileVars
        \/ /\ Passes(p, "trigger")
           /\ InScope(p)
           /\ docketStatus[req[p].case] \in WritableStatuses
           /\ assignee[req[p].case] = req[p].actor
           /\ docketStatus[req[p].case] = req[p].expected
           /\ <<docketStatus[req[p].case], req[p].choice>> \in StatusTransitions
           /\ Len(history[req[p].case]) < MaxHistory
    BY <1>g DEF StatusLock, Check, Passes, Scope
  <1>2. CASE Finish(p) /\ UNCHANGED fileVars
    BY <1>2, CheckFails
  <1>3. ASSUME Passes(p, "trigger"),
              InScope(p),
              docketStatus[req[p].case] \in WritableStatuses,
              assignee[req[p].case] = req[p].actor,
              docketStatus[req[p].case] = req[p].expected,
              <<docketStatus[req[p].case], req[p].choice>> \in StatusTransitions,
              Len(history[req[p].case]) < MaxHistory
        PROVE  Checked(p)
    <2>1. Passed(p, "trigger") /\ Kept(p)
      BY <1>3, CheckPasses DEF Places
    <2>2. DocketLock(req[p].case) \in Wanted(p)
      BY <1>g, <1>3, WantedDocket DEF WritableStatuses
    <2>3. KnowsStatus(p)'
      BY <2>1, <2>2, <1>3, <1>g DEF Passed, Kept, KnowsStatus, HasDocket
    <2>4. QED
      BY <2>1, <2>3, <1>g DEF Passed, Kept, Checked, Knows, fileVars
  <1>4. QED
    BY <1>1, <1>2, <1>3

\* A new status: the trigger locks the complaint.
LEMMA StatusTriggerChecked ==
    ASSUME RequestsInv, NEW p \in Request, StatusTrigger(p)
    PROVE  Checked(p)
  <1>i. Knows(p) /\ FileTypeOK /\ DecisionFinal /\ req[p] \in RequestRecords /\ Argued(req[p])
    BY DEF RequestsInv, RequestsTyped
  <1>g. req[p].op = "status" /\ req[p].at = "trigger"
    BY DEF StatusTrigger, At
  <1>1. \/ Finish(p) /\ UNCHANGED fileVars
        \/ Passes(p, "commit")
    BY <1>g DEF StatusTrigger, Check, Passes
  <1>2. CASE Finish(p) /\ UNCHANGED fileVars
    BY <1>2, CheckFails
  <1>3. ASSUME Passes(p, "commit")
        PROVE  Checked(p)
    <2>1. Passed(p, "commit") /\ Kept(p)
      BY <1>3, CheckPasses DEF Places
    <2>2. KnowsStatus(p)
      BY <1>g, <1>i DEF Knows
    <2>3. KnowsStatus(p)'
      BY <2>1, <2>2, <1>3, <1>g DEF Passed, Kept, KnowsStatus
    <2>4. QED
      BY <2>1, <2>3, <1>g DEF Passed, Kept, Checked, Knows, fileVars
  <1>4. QED
    BY <1>1, <1>2, <1>3

\* A change of staff: the user row.
LEMMA ChangeLockUserChecked ==
    ASSUME RequestsInv, NEW p \in Request, ChangeLockUser(p)
    PROVE  Checked(p)
  <1>i. Knows(p) /\ FileTypeOK /\ DecisionFinal /\ req[p] \in RequestRecords /\ Argued(req[p])
    BY DEF RequestsInv, RequestsTyped
  <1>g. req[p].op = "change" /\ req[p].at = "user"
    BY DEF ChangeLockUser, At
  <1>1. \/ Finish(p) /\ UNCHANGED fileVars
        \/ Passes(p, "target")
    BY <1>g DEF ChangeLockUser, Check, Passes
  <1>2. CASE Finish(p) /\ UNCHANGED fileVars
    BY <1>2, CheckFails
  <1>3. ASSUME Passes(p, "target")
        PROVE  Checked(p)
    <2>1. Passed(p, "target") /\ Kept(p)
      BY <1>3, CheckPasses DEF Places
    <2>2. KnowsChange(p)'
      BY <2>1, <1>3, <1>g DEF Passed, Kept, KnowsChange
    <2>3. QED
      BY <2>1, <2>2, <1>g DEF Passed, Kept, Checked, Knows, fileVars
  <1>4. QED
    BY <1>1, <1>2, <1>3

\* A change of staff: the officer row is locked.
LEMMA ChangeLockOfficerChecked ==
    ASSUME RequestsInv, NEW p \in Request, ChangeLockOfficer(p)
    PROVE  Checked(p)
  <1>i. Knows(p) /\ FileTypeOK /\ DecisionFinal /\ req[p] \in RequestRecords /\ Argued(req[p])
    BY DEF RequestsInv, RequestsTyped
  <1>g. req[p].op = "change" /\ req[p].at = "target"
    BY DEF ChangeLockOfficer, At
  <1>1. \/ Finish(p) /\ UNCHANGED fileVars
        \/ Passes(p, "moving")
    BY <1>g DEF ChangeLockOfficer, Check, Passes
  <1>2. CASE Finish(p) /\ UNCHANGED fileVars
    BY <1>2, CheckFails
  <1>3. ASSUME Passes(p, "moving")
        PROVE  Checked(p)
    <2>1. Passed(p, "moving") /\ Kept(p)
      BY <1>3, CheckPasses DEF Places
    <2>2. StaffLock(req[p].target) \in Wanted(p)
      BY <1>g, WantedOfficer
    <2>3. KnowsChange(p)'
      BY <2>1, <2>2, <1>3, <1>g DEF Passed, Kept, KnowsChange, HasTarget
    <2>4. QED
      BY <2>1, <2>3, <1>g DEF Passed, Kept, Checked, Knows, fileVars
  <1>4. QED
    BY <1>1, <1>2, <1>3

\* A change of staff: an officer who moves leaves no open docket.
LEMMA ChangeMovingChecked ==
    ASSUME RequestsInv, NEW p \in Request, ChangeMoving(p)
    PROVE  Checked(p)
  <1>i. Knows(p) /\ FileTypeOK /\ DecisionFinal /\ req[p] \in RequestRecords /\ Argued(req[p])
    BY DEF RequestsInv, RequestsTyped
  <1>g. req[p].op = "change" /\ req[p].at = "moving"
    BY DEF ChangeMoving, At
  <1>1. \/ Finish(p) /\ UNCHANGED fileVars
        \/ /\ Passes(p, "commit")
           /\ Moving(req[p].target, req[p].post) => ~Busy(req[p].target)
    BY <1>g DEF ChangeMoving, Check, Passes
  <1>2. CASE Finish(p) /\ UNCHANGED fileVars
    BY <1>2, CheckFails
  <1>3. ASSUME Passes(p, "commit"),
              Moving(req[p].target, req[p].post) => ~Busy(req[p].target)
        PROVE  Checked(p)
    <2>1. Passed(p, "commit") /\ Kept(p)
      BY <1>3, CheckPasses DEF Places
    <2>2. KnowsChange(p)
      BY <1>g, <1>i DEF Knows
    <2>3. KnowsChange(p)'
      BY <2>1, <2>2, <1>3, <1>g DEF Passed, Kept, KnowsChange, Moving
    <2>4. QED
      BY <2>1, <2>3, <1>g DEF Passed, Kept, Checked, Knows, fileVars
  <1>4. QED
    BY <1>1, <1>2, <1>3

\* The first steps of the desk and of the commander: nothing is known yet.
LEMMA AuthorizedChecked ==
    ASSUME RequestsInv, NEW p \in Request, ActiveOfficerWithRole(p)
    PROVE  Checked(p)
  <1>g. req[p].op \in {"decide", "open", "approve", "refusal_review", "escalation"}
    BY DEF ActiveOfficerWithRole
  <1>i. Argued(req[p])
    BY DEF RequestsInv, RequestsTyped
  <1> DEFINE next == CASE req[p].op = "decide" -> "decider"
                       [] req[p].op = "escalation" -> "escalation"
                       [] OTHER -> "complaint"
  <1>n. /\ next \in Places
        /\ req[p].op = "decide" => next = "decider"
        /\ req[p].op = "escalation" => next = "escalation"
        /\ req[p].op \notin {"decide", "escalation"} => next = "complaint"
    BY DEF Places
  <1>1. \/ Check(p, HasRole(p), "posting")
        \/ ReadStation(p, next)
    BY DEF ActiveOfficerWithRole
  <1> HIDE DEF next
  <1>2. CASE Check(p, HasRole(p), "posting")
    <2>1. \/ Finish(p) /\ UNCHANGED fileVars
          \/ Passes(p, "posting")
      BY <1>2 DEF Check, Passes
    <2>2. CASE Passes(p, "posting")
      <3>1. Passed(p, "posting") /\ Kept(p)
        BY <2>2, CheckPasses DEF Places
      <3>2. Knows(p)'
        BY <3>1, <1>g DEF Passed, Knows, KnowsDecide, KnowsOpen, KnowsApprove, KnowsRefusal,
                          KnowsEscalation
      <3>3. QED
        BY <3>1, <3>2 DEF Passed, Checked, fileVars
    <2>3. QED
      BY <2>1, <2>2, CheckFails
  <1>3. CASE ReadStation(p, next)
    <2>1. Checked(p) \/ Passed(p, next)
      BY <1>3, <1>n, <1>g, <1>i, StationRead DEF Argued
    <2>2. ASSUME Passed(p, next) PROVE Knows(p)'
      BY <2>2, <1>g, <1>n DEF Passed, Knows, KnowsDecide, KnowsOpen, KnowsApprove, KnowsRefusal,
                              KnowsEscalation
    <2>3. QED
      BY <2>1, <2>2 DEF Passed, Checked, fileVars
  <1>4. QED
    BY <1>1, <1>2, <1>3

\* The charge desk: the officer row is locked and read.
LEMMA DeskOfficerChecked ==
    ASSUME RequestsInv, NEW p \in Request, DeskOfficer(p)
    PROVE  Checked(p)
  <1>g. req[p].op \in {"review", "material"}
    BY DEF DeskOfficer
  <1>i. Knows(p) /\ Argued(req[p])
    BY DEF RequestsInv, RequestsTyped
  <1> DEFINE next == IF req[p].op = "review" THEN "complaint" ELSE "scope"
  <1>1. \/ Finish(p) /\ UNCHANGED fileVars
        \/ Passes(p, "desk_officer") /\ (req[p].op = "material" => req[p].at = "desk_role")
        \/ ReadStation(p, next) /\ req[p].at = "desk_officer"
    BY <1>g DEF DeskOfficer, Check, Passes
  <1>2. ASSUME Passes(p, "desk_officer"), req[p].op = "material" => req[p].at = "desk_role"
        PROVE  Checked(p)
    <2>1. Passed(p, "desk_officer") /\ Kept(p)
      BY <1>2, CheckPasses DEF Places
    <2>2. Knows(p)'
      BY <2>1, <1>2, <1>g, <1>i DEF Passed, Knows, KnowsReview, KnowsMaterial
    <2>3. QED
      BY <2>1, <2>2 DEF Passed, Checked, fileVars
  <1>3. ASSUME ReadStation(p, next), req[p].at = "desk_officer" PROVE Checked(p)
    <2>1. \/ Checked(p)
          \/ /\ Passed(p, next)
             /\ req'[p].choice = req[p].choice
             /\ posting[req[p].actor].active
             /\ req'[p].seen = posting[req[p].actor].station
      BY <1>3, <1>g, <1>i, StationRead DEF Argued, Places
    <2>2. ASSUME Passed(p, next), req'[p].choice = req[p].choice,
                 posting[req[p].actor].active,
                 req'[p].seen = posting[req[p].actor].station
          PROVE  Knows(p)'
      <3>1. DutyLock(req[p].actor) \in held'[p]
        BY <2>2, <1>3, WantedOfficer DEF Passed
      <3>2. OnDuty(p)'
        BY <2>2, <3>1 DEF Passed, OnDuty
      <3>3. CASE req[p].op = "review"
        BY <3>2, <3>3, <2>2 DEF Passed, Knows, KnowsReview
      <3>4. CASE req[p].op = "material"
        BY <3>2, <3>4, <2>2, <1>3, <1>i DEF Passed, Knows, KnowsMaterial
      <3>5. QED
        BY <3>3, <3>4, <1>g
    <2>3. QED
      BY <2>1, <2>2 DEF Passed, Checked, fileVars
  <1>4. QED
    BY <1>1, <1>2, <1>3, CheckFails

\* The investigation service: the officer row is read, the docket comes next.
LEMMA InvestigationOfficerChecked ==
    ASSUME RequestsInv, NEW p \in Request, InvestigationOfficer(p)
    PROVE  Checked(p)
  <1>g. /\ \/ req[p].op \in {"assign", "unassign", "note", "status"}
           \/ req[p].op = "material" /\ req[p].choice = "INVESTIGATING_OFFICER"
        /\ req[p].at \in {"posting", "investigation_role"}
    BY DEF InvestigationOfficer
  <1>i. Knows(p) /\ Argued(req[p])
    BY DEF RequestsInv, RequestsTyped
  <1>1. \/ Finish(p) /\ UNCHANGED fileVars
        \/ Passes(p, "docket")
        \/ ReadStation(p, "investigation_role")
    BY DEF InvestigationOfficer, Check, Passes
  <1>2. ASSUME NEW next \in {"investigation_role", "docket"}, Passed(p, next),
               req'[p].choice = req[p].choice
        PROVE  Checked(p)
    <2>1. Knows(p)'
      BY <1>2, <1>g, <1>i DEF Passed, Knows, KnowsAssign, KnowsUnassign, KnowsNote, KnowsStatus,
                              KnowsMaterial, Inserting
    <2>2. QED
      BY <2>1, <1>2 DEF Passed, Checked, fileVars
  <1>3. CASE Passes(p, "docket")
    BY <1>2, <1>3, CheckPasses DEF Places, Kept
  <1>4. CASE ReadStation(p, "investigation_role")
    <2>1. Checked(p) \/ (Passed(p, "investigation_role") /\ req'[p].choice = req[p].choice)
      BY <1>4, <1>g, <1>i, StationRead DEF Argued, Places
    <2>2. QED
      BY <2>1, <1>2
  <1>5. QED
    BY <1>1, <1>3, <1>4, CheckFails

\* Case material: the roles read first choose whose rules apply.
LEMMA MaterialRoleChecked ==
    ASSUME RequestsInv, NEW p \in Request, MaterialRole(p)
    PROVE  Checked(p)
  <1> DEFINE k == posting[req[p].actor].role
  <1>1. RequestsTyped /\ req[p] \in RequestRecords /\ Argued(req[p])
    BY DEF RequestsInv, RequestsTyped
  <1>2. /\ req[p].op = "material" /\ req[p].at = "role"
        /\ req' = [req EXCEPT ![p].at = "complaint", ![p].choice = k]
        /\ held' = held /\ UNCHANGED fileVars
    BY DEF MaterialRole, At
  <1>3. k \in Choices
    BY <1>1, <1>2 DEF Argued, RequestsInv, FileTypeOK, Postings, Choices
  <1> HIDE DEF k
  <1>4. /\ req'[p].at = "complaint" /\ req'[p].op = "material" /\ req'[p].case = req[p].case
        /\ req'[p].actor = req[p].actor /\ req'[p].target = req[p].target
        /\ req'[p].expected = req[p].expected /\ req'[p].post = req[p].post
        /\ req'[p] \in RequestRecords
    BY <1>1, <1>2, <1>3 DEF RequestsTyped, RequestRecords, Places
  <1>5. Alone(p)
    BY <1>1, <1>2 DEF Alone, RequestsTyped
  <1>6. Wanted(p) = {}
    BY <1>2 DEF Wanted, NextRow
  <1>7. RequestsTyped'
    <2>1. req' \in [Request -> RequestRecords]
      BY <1>1, <1>2, <1>4, <1>5 DEF Alone, RequestsTyped
    <2>2. Argued(req'[p])
      BY <1>1, <1>2, <1>4 DEF Argued
    <2>3. QED
      BY <1>1, <1>2, <1>5, <2>1, <2>2 DEF Alone, RequestsTyped
  <1>8. Moved(p)
    BY <1>2, <1>5, <1>6, <1>7 DEF Moved, Grantable
  <1>9. Knows(p)'
    BY <1>4 DEF Knows, KnowsMaterial
  <1>10. QED
    BY <1>2, <1>8, <1>9 DEF Checked

-----------------------------------------------------------------------------
(***************************************************************************)
(* The commits: each writes under the locks its request holds, and is a    *)
(* step of the case file, because what the request knows is still true.    *)
(***************************************************************************)
\* A commit ends the request, which knows what it has checked.
LEMMA CommitEnds ==
    ASSUME RequestsInv, NEW p \in Request, Commit(p)
    PROVE  /\ Ended(p) /\ RequestsTyped' /\ req'[p].op = "idle"
           /\ Knows(p) /\ FileTypeOK /\ DecisionFinal /\ Argued(req[p])
  <1>1. RequestsTyped /\ Finish(p)
    BY DEF RequestsInv, Commit
  <1>2. Ended(p) /\ RequestsTyped'
    BY <1>1, FinishEnds
  <1>3. QED
    BY <1>1, <1>2 DEF Ended, Idle, New, RequestsInv, RequestsTyped

\* start_review writes under the complaint lock, for an officer on duty.
LEMMA ReviewCommits ==
    ASSUME RequestsInv, NEW p \in Request, ReviewCommit(p)
    PROVE  Committed(p)
  <1> DEFINE c == req[p].case
  <1>1. /\ req[p].op = "review" /\ req[p].at = "commit" /\ Commit(p) /\ BeginReview(c)
    BY DEF ReviewCommit, At
  <1>2. /\ Ended(p) /\ RequestsTyped' /\ req'[p].op = "idle"
        /\ Knows(p) /\ FileTypeOK /\ DecisionFinal /\ Argued(req[p])
    BY <1>1, CommitEnds
  <1>3. /\ c \in Complaint /\ OnDuty(p) /\ ComplaintLock(c) \in held[p]
        /\ home[c] = req[p].seen /\ complaintStatus[c] = "SUBMITTED"
    BY <1>1, <1>2 DEF Knows, KnowsReview, Argued, HasComplaint, InScope
  <1>4. [FileNext]_fileVars
    BY <1>1, <1>3 DEF FileNext, StartReview
  <1>5. Guarded(held[p])
    BY <1>1, <1>2, <1>3 DEF BeginReview, docketVars, FileTypeOK, Guarded
  <1>6. StatusAnswered
    BY <1>1 DEF BeginReview, docketVars, StatusAnswered
  <1>7. ReviewAnswered
    BY <1>1, <1>2, <1>3 DEF BeginReview, FileTypeOK, OnDuty, ReviewAnswered
  <1>8. QED
    BY <1>2, <1>4, <1>5, <1>6, <1>7 DEF Committed

\* decide writes under the complaint lock, and opens the docket with the acceptance.
LEMMA DecideCommits ==
    ASSUME RequestsInv, NEW p \in Request, DecideCommit(p)
    PROVE  Committed(p)
  <1> DEFINE c == req[p].case
             k == req[p].choice
  <1>1. /\ req[p].op = "decide" /\ req[p].at = "commit" /\ Commit(p)
        /\ k = "ACCEPTED" => RecordAcceptance(c)
        /\ k # "ACCEPTED" => RecordRefusal(c, k)
    BY DEF DecideCommit, At
  <1>2. /\ Ended(p) /\ RequestsTyped' /\ req'[p].op = "idle"
        /\ Knows(p) /\ FileTypeOK /\ DecisionFinal /\ Argued(req[p])
    BY <1>1, CommitEnds
  <1>3. /\ c \in Complaint /\ ComplaintLock(c) \in held[p]
        /\ complaintStatus[c] \in DecidableStatuses /\ k \in ReasonKinds \cup {"ACCEPTED"}
    BY <1>1, <1>2 DEF Knows, KnowsDecide, Argued, HasComplaint
  <1>4. docketStatus[c] = "NONE"
    BY <1>2, <1>3 DEF DecisionFinal, DecidableStatuses
  <1>5. CASE k = "ACCEPTED"
    <2>1. RecordAcceptance(c)
      BY <1>1, <1>5
    <2>2. [FileNext]_fileVars
      BY <2>1, <1>3 DEF FileNext, Accept
    <2>3. Guarded(held[p])
      BY <2>1, <1>2, <1>3, <1>4 DEF RecordAcceptance, OpenDocket, FileTypeOK, Guarded
    <2>4. StatusAnswered /\ ReviewAnswered
      BY <2>1, <1>2, <1>4 DEF RecordAcceptance, OpenDocket, FileTypeOK, StatusAnswered,
                              ReviewAnswered
    <2>5. QED
      BY <2>2, <2>3, <2>4, <1>2 DEF Committed
  <1>6. CASE k # "ACCEPTED"
    <2>1. RecordRefusal(c, k) /\ k \in ReasonKinds
      BY <1>1, <1>3, <1>6
    <2>2. [FileNext]_fileVars
      BY <2>1, <1>3 DEF FileNext, Refuse
    <2>3. \A d \in Complaint, t \in Targets :
            escalation[d][t] # "NONE" => escalation'[d][t] # "NONE"
      BY <2>1, <1>2 DEF RecordRefusal, FileTypeOK
    <2>4. Guarded(held[p])
      BY <2>1, <2>3, <1>2, <1>3 DEF RecordRefusal, docketVars, FileTypeOK, Guarded
    <2>5. StatusAnswered /\ ReviewAnswered
      BY <2>1, <1>2 DEF RecordRefusal, docketVars, FileTypeOK, StatusAnswered, ReviewAnswered
    <2>6. QED
      BY <2>2, <2>4, <2>5, <1>2 DEF Committed
  <1>7. QED
    BY <1>5, <1>6

\* open writes under the complaint lock.
LEMMA OpenCommits ==
    ASSUME RequestsInv, NEW p \in Request, OpenCommit(p)
    PROVE  Committed(p)
  <1> DEFINE c == req[p].case
  <1>1. /\ req[p].op = "open" /\ req[p].at = "commit" /\ Commit(p)
        /\ OpenDocket(c) /\ UNCHANGED decisions
    BY DEF OpenCommit, At
  <1>2. /\ Ended(p) /\ RequestsTyped' /\ req'[p].op = "idle"
        /\ Knows(p) /\ FileTypeOK /\ DecisionFinal /\ Argued(req[p])
    BY <1>1, CommitEnds
  <1>3. /\ c \in Complaint /\ ComplaintLock(c) \in held[p]
        /\ docketStatus[c] = "NONE" /\ complaintStatus[c] = "ACCEPTED"
        /\ \E i \in 1..Len(decisions[c]) : decisions[c][i] = "ACCEPTED"
    BY <1>1, <1>2 DEF Knows, KnowsOpen, Argued, HasComplaint
  <1>4. [FileNext]_fileVars
    BY <1>1, <1>3 DEF FileNext, Open
  <1>5. Guarded(held[p])
    BY <1>1, <1>2, <1>3 DEF OpenDocket, FileTypeOK, Guarded
  <1>6. StatusAnswered /\ ReviewAnswered
    BY <1>1, <1>2, <1>3 DEF OpenDocket, FileTypeOK, StatusAnswered, ReviewAnswered
  <1>7. QED
    BY <1>2, <1>4, <1>5, <1>6 DEF Committed

\* approve writes under the locks of complaint and docket.
LEMMA ApproveCommits ==
    ASSUME RequestsInv, NEW p \in Request, ApproveCommit(p)
    PROVE  Committed(p)
  <1> DEFINE c == req[p].case
             v == req[p].choice
  <1>1. /\ req[p].op = "approve" /\ req[p].at = "commit" /\ Commit(p) /\ RecordApproval(c, v)
    BY DEF ApproveCommit, At
  <1>2. /\ Ended(p) /\ RequestsTyped' /\ req'[p].op = "idle"
        /\ Knows(p) /\ FileTypeOK /\ DecisionFinal /\ Argued(req[p])
    BY <1>1, CommitEnds
  <1>3. /\ c \in Complaint /\ ComplaintLock(c) \in held[p] /\ DocketLock(c) \in held[p]
        /\ docketStatus[c] = "PENDING_APPROVAL" /\ Len(approvals[c]) < MaxApprovals
        /\ v \in Verdicts
    BY <1>1, <1>2 DEF Knows, KnowsApprove, Argued, HasComplaint, HasDocket
  <1>4. [FileNext]_fileVars
    BY <1>1, <1>3 DEF FileNext, Approve, Verdicts
  <1>5. Guarded(held[p])
    BY <1>1, <1>2, <1>3 DEF RecordApproval, complaintVars, FileTypeOK, Guarded
  <1>6. StatusAnswered /\ ReviewAnswered
    BY <1>1, <1>2, <1>3 DEF RecordApproval, complaintVars, FileTypeOK, StatusAnswered,
                            ReviewAnswered
  <1>7. QED
    BY <1>2, <1>4, <1>5, <1>6 DEF Committed

\* Case material is written by whoever is in charge of the case.
LEMMA MaterialCommits ==
    ASSUME RequestsInv, NEW p \in Request, MaterialCommit(p)
    PROVE  Committed(p)
  <1> DEFINE c == req[p].case
             o == req[p].actor
             desk == req[p].choice = "CHARGE_OFFICER"
  <1>1. /\ req[p].op = "material" /\ req[p].at = "commit" /\ Commit(p)
        /\ RecordEntry(c, o, IF desk THEN "STATION_INTAKE" ELSE "CASE_MATERIAL")
    BY DEF MaterialCommit, At
  <1>2. /\ Ended(p) /\ RequestsTyped' /\ req'[p].op = "idle"
        /\ Knows(p) /\ FileTypeOK /\ DecisionFinal /\ Argued(req[p])
    BY <1>1, CommitEnds
  <1>3. /\ c \in Complaint /\ o \in Officer /\ ComplaintLock(c) \in held[p]
        /\ docketStatus[c] # "NONE" => DocketLock(c) \in held[p]
        /\ Len(entries[c]) < MaxEntries /\ home[c] = req[p].seen
        /\ desk => IntakeOpen(c) /\ OnDuty(p)
        /\ ~desk => assignee[c] = o /\ docketStatus[c] \in WritableStatuses
    BY <1>1, <1>2 DEF Knows, KnowsMaterial, Argued, HasComplaint, HasDocket, InScope
  <1>4. [FileNext]_fileVars
    <2>1. CASE desk
      <3>1. WriteIntake(c, o)
        BY <2>1, <1>1, <1>3 DEF WriteIntake, OnDuty
      <3>2. QED
        BY <3>1, <1>3 DEF FileNext
    <2>2. CASE ~desk
      <3>1. WriteCase(c, "CASE_MATERIAL")
        BY <2>2, <1>1, <1>3, CaseAssumption DEF WriteCase
      <3>2. QED
        BY <3>1, <1>3 DEF FileNext, EntryKinds
    <2>3. QED
      BY <2>1, <2>2
  <1>5. Guarded(held[p])
    BY <1>1, <1>2, <1>3 DEF RecordEntry, complaintVars, docketVars, FileTypeOK, Guarded
  <1>6. StatusAnswered /\ ReviewAnswered
    BY <1>1 DEF RecordEntry, complaintVars, docketVars, StatusAnswered, ReviewAnswered
  <1>7. QED
    BY <1>2, <1>4, <1>5, <1>6 DEF Committed

\* A new status of an escalation, under the complaint lock.
LEMMA EscalationWrites ==
    ASSUME FileTypeOK, NEW p \in Request, NEW c \in Complaint, NEW t \in Targets,
           NEW new \in {"OPEN", "ACKNOWLEDGED", "RESOLVED"}, SetEscalation(c, t, new),
           ComplaintLock(c) \in held[p]
    PROVE  Guarded(held[p]) /\ StatusAnswered /\ ReviewAnswered
  <1>1. Guarded(held[p])
    BY DEF SetEscalation, docketVars, FileTypeOK, Guarded
  <1>2. StatusAnswered /\ ReviewAnswered
    BY DEF SetEscalation, docketVars, StatusAnswered, ReviewAnswered
  <1>3. QED
    BY <1>1, <1>2

\* The review of a refusal writes under the complaint lock, or nothing.
LEMMA ReviewRefusalCommits ==
    ASSUME RequestsInv, NEW p \in Request, ReviewRefusalCommit(p)
    PROVE  Committed(p)
  <1> DEFINE c == req[p].case
             found == escalation[c][EscalationTarget(p)]
  <1>1. req[p].op = "refusal_review" /\ req[p].at = "commit" /\ Commit(p)
    BY DEF ReviewRefusalCommit, At
  <1>2. /\ Ended(p) /\ RequestsTyped' /\ req'[p].op = "idle"
        /\ Knows(p) /\ FileTypeOK /\ DecisionFinal /\ Argued(req[p])
    BY <1>1, CommitEnds
  <1>3. c \in Complaint /\ ComplaintLock(c) \in held[p] /\ Refused(c)
    BY <1>1, <1>2 DEF Knows, KnowsRefusal, Argued, HasComplaint
  <1>4. \/ /\ req[p].choice = "ACKNOWLEDGE" /\ found \in {"NONE", "OPEN"}
           /\ SetEscalation(c, "STATION_COMMANDER", "ACKNOWLEDGED")
        \/ req[p].choice = "ESCALATE" /\ found = "NONE" /\ ForwardToNCC(c)
        \/ UNCHANGED fileVars
    BY DEF ReviewRefusalCommit
  <1>5. CASE /\ req[p].choice = "ACKNOWLEDGE" /\ found \in {"NONE", "OPEN"}
             /\ SetEscalation(c, "STATION_COMMANDER", "ACKNOWLEDGED")
    <2>1. EscalationTarget(p) = "STATION_COMMANDER"
      BY <1>1, <1>5 DEF EscalationTarget
    <2>2. CommanderAcknowledge(c)
      BY <2>1, <1>3, <1>5 DEF CommanderAcknowledge
    <2>3. [FileNext]_fileVars
      BY <2>2, <1>3 DEF FileNext
    <2>4. Guarded(held[p]) /\ StatusAnswered /\ ReviewAnswered
      BY <1>2, <1>3, <1>5, EscalationWrites DEF Targets
    <2>5. QED
      BY <2>3, <2>4, <1>2 DEF Committed
  <1>6. CASE req[p].choice = "ESCALATE" /\ found = "NONE" /\ ForwardToNCC(c)
    <2>1. EscalationTarget(p) = "NCC"
      BY <1>1, <1>6 DEF EscalationTarget
    <2>2. CommanderEscalate(c)
      BY <2>1, <1>3, <1>6 DEF CommanderEscalate
    <2>3. [FileNext]_fileVars
      BY <2>2, <1>3 DEF FileNext
    <2>4. Guarded(held[p])
      BY <1>2, <1>3, <1>6 DEF ForwardToNCC, docketVars, FileTypeOK, Guarded
    <2>5. StatusAnswered /\ ReviewAnswered
      BY <1>2, <1>6 DEF ForwardToNCC, docketVars, FileTypeOK, StatusAnswered, ReviewAnswered
    <2>6. QED
      BY <2>3, <2>4, <2>5, <1>2 DEF Committed
  <1>7. CASE UNCHANGED fileVars
    <2>1. Guarded(held[p]) /\ StatusAnswered /\ ReviewAnswered
      BY <1>7 DEF fileVars, Guarded, StatusAnswered, ReviewAnswered
    <2>2. QED
      BY <2>1, <1>2, <1>7 DEF Committed
  <1>8. QED
    BY <1>4, <1>5, <1>6, <1>7

\* The answer to an escalation follows the status it had.
LEMMA EscalationCommits ==
    ASSUME RequestsInv, NEW p \in Request, EscalationCommit(p)
    PROVE  Committed(p)
  <1> DEFINE c == req[p].case
             t == EscalationTarget(p)
             new == req[p].choice
  <1>1. /\ req[p].op \in {"escalation", "ncc_escalation"} /\ req[p].at = "commit"
        /\ Commit(p) /\ SetEscalation(c, t, new)
    BY DEF EscalationCommit
  <1>2. /\ Ended(p) /\ RequestsTyped' /\ req'[p].op = "idle"
        /\ Knows(p) /\ FileTypeOK /\ DecisionFinal /\ Argued(req[p])
    BY <1>1, CommitEnds
  <1>3. /\ c \in Complaint /\ ComplaintLock(c) \in held[p]
        /\ escalation[c][t] \notin {"NONE", "RESOLVED"}
        /\ new = "ACKNOWLEDGED" => escalation[c][t] = "OPEN"
        /\ new \in {"ACKNOWLEDGED", "RESOLVED"}
    BY <1>1, <1>2 DEF Knows, KnowsEscalation, Argued, HasComplaint
  <1>4. t \in Targets
    BY DEF EscalationTarget, Targets
  <1>5. escalation[c][t] \in {"OPEN", "ACKNOWLEDGED"}
    BY <1>2, <1>3, <1>4 DEF FileTypeOK, EscalationStatuses
  <1> HIDE DEF t, new, c
  <1>6. Acknowledge(c, t) \/ Resolve(c, t)
    BY <1>1, <1>3, <1>5 DEF Acknowledge, Resolve
  <1>7. [FileNext]_fileVars
    BY <1>3, <1>4, <1>6 DEF FileNext
  <1>8. Guarded(held[p]) /\ StatusAnswered /\ ReviewAnswered
    BY <1>1, <1>2, <1>3, <1>4, EscalationWrites
  <1>9. QED
    BY <1>2, <1>7, <1>8 DEF Committed

\* assign writes under the locks of the docket and of the officer.
LEMMA AssignCommits ==
    ASSUME RequestsInv, NEW p \in Request, AssignCommit(p)
    PROVE  Committed(p)
  <1> DEFINE c == req[p].case
             t == req[p].target
  <1>1. /\ req[p].op = "assign" /\ req[p].at = "commit" /\ Commit(p) /\ RecordAssignment(c, t)
    BY DEF AssignCommit, At
  <1>2. /\ Ended(p) /\ RequestsTyped' /\ req'[p].op = "idle"
        /\ Knows(p) /\ FileTypeOK /\ DecisionFinal /\ Argued(req[p])
    BY <1>1, CommitEnds
  <1>3. /\ c \in Complaint /\ t \in Officer
        /\ DocketLock(c) \in held[p] /\ StaffLock(t) \in held[p]
        /\ home[c] = req[p].seen /\ docketStatus[c] \in WritableStatuses
        /\ Len(history[c]) < MaxHistory
        /\ posting[t].station = req[p].seen
        /\ posting[t].active /\ posting[t].role = "INVESTIGATING_OFFICER"
        /\ assignee[c] # t /\ ~Busy(t)
    BY <1>1, <1>2 DEF Knows, KnowsAssign, Inserting, Argued, HasDocket, HasTarget, InScope
  <1>4. Eligible(t, c)
    <2>1. posting[t] \in Postings
      BY <1>2, <1>3 DEF FileTypeOK
    <2>2. QED
      BY <2>1, <1>3 DEF Eligible, Postings
  <1>5. [FileNext]_fileVars
    <2>1. Assign(c, t)
      BY <1>1, <1>3, <1>4 DEF Assign
    <2>2. QED
      BY <2>1, <1>3 DEF FileNext
  <1>6. /\ \A d \in Complaint \ {c} :
             /\ docketStatus'[d] = docketStatus[d] /\ history'[d] = history[d]
             /\ assignee'[d] = assignee[d]
        /\ assignee'[c] = t
        /\ docketStatus'[c] = (IF docketStatus[c] = "APPROVED" THEN "ACTIVE" ELSE docketStatus[c])
        /\ complaintStatus' = complaintStatus /\ home' = home /\ decisions' = decisions
        /\ escalation' = escalation /\ approvals' = approvals
        /\ entries' = entries /\ posting' = posting
    BY <1>1, <1>2, <1>3 DEF RecordAssignment, Transition, complaintVars, FileTypeOK
  <1>7. Guarded(held[p])
    BY <1>3, <1>6 DEF Guarded, WritableStatuses
  <1>8. StatusAnswered /\ ReviewAnswered
    BY <1>3, <1>6 DEF StatusAnswered, ReviewAnswered
  <1>9. QED
    BY <1>2, <1>5, <1>7, <1>8 DEF Committed

\* unassign writes under the docket lock.
LEMMA UnassignCommits ==
    ASSUME RequestsInv, NEW p \in Request, UnassignCommit(p)
    PROVE  Committed(p)
  <1> DEFINE c == req[p].case
  <1>1. /\ req[p].op = "unassign" /\ req[p].at = "commit" /\ Commit(p) /\ EndAssignment(c)
    BY DEF UnassignCommit, At
  <1>2. /\ Ended(p) /\ RequestsTyped' /\ req'[p].op = "idle"
        /\ Knows(p) /\ FileTypeOK /\ DecisionFinal /\ Argued(req[p])
    BY <1>1, CommitEnds
  <1>3. /\ c \in Complaint /\ DocketLock(c) \in held[p]
        /\ docketStatus[c] \in WritableStatuses /\ assignee[c] # None
    BY <1>1, <1>2 DEF Knows, KnowsUnassign, Argued, HasDocket
  <1>4. [FileNext]_fileVars
    BY <1>1, <1>3 DEF FileNext, Unassign
  <1>5. Guarded(held[p])
    BY <1>1, <1>2, <1>3 DEF EndAssignment, complaintVars, FileTypeOK, Guarded
  <1>6. StatusAnswered /\ ReviewAnswered
    BY <1>1 DEF EndAssignment, complaintVars, StatusAnswered, ReviewAnswered
  <1>7. QED
    BY <1>2, <1>4, <1>5, <1>6 DEF Committed

\* A note is written under the docket lock.
LEMMA NoteCommits ==
    ASSUME RequestsInv, NEW p \in Request, NoteCommit(p)
    PROVE  Committed(p)
  <1> DEFINE c == req[p].case
             o == req[p].actor
  <1>1. /\ req[p].op = "note" /\ req[p].at = "commit" /\ Commit(p) /\ RecordEntry(c, o, "NOTE")
    BY DEF NoteCommit, At
  <1>2. /\ Ended(p) /\ RequestsTyped' /\ req'[p].op = "idle"
        /\ Knows(p) /\ FileTypeOK /\ DecisionFinal /\ Argued(req[p])
    BY <1>1, CommitEnds
  <1>3. /\ c \in Complaint /\ o \in Officer /\ DocketLock(c) \in held[p]
        /\ docketStatus[c] \in WritableStatuses /\ assignee[c] = o
        /\ Len(entries[c]) < MaxEntries
    BY <1>1, <1>2 DEF Knows, KnowsNote, Argued, HasDocket
  <1>4. [FileNext]_fileVars
    <2>1. WriteCase(c, "NOTE")
      BY <1>1, <1>3, CaseAssumption DEF WriteCase
    <2>2. QED
      BY <2>1, <1>3 DEF FileNext, EntryKinds
  <1>5. Guarded(held[p])
    BY <1>1, <1>2, <1>3 DEF RecordEntry, complaintVars, docketVars, FileTypeOK, Guarded,
                            WritableStatuses
  <1>6. StatusAnswered /\ ReviewAnswered
    BY <1>1 DEF RecordEntry, complaintVars, docketVars, StatusAnswered, ReviewAnswered
  <1>7. QED
    BY <1>2, <1>4, <1>5, <1>6 DEF Committed

\* update_status writes under the docket lock, for the assigned officer.
LEMMA StatusCommits ==
    ASSUME RequestsInv, NEW p \in Request, StatusCommit(p)
    PROVE  Committed(p)
  <1> DEFINE c == req[p].case
             to == req[p].choice
  <1>1. /\ req[p].op = "status" /\ req[p].at = "commit" /\ Commit(p) /\ RecordStatus(c, to)
    BY DEF StatusCommit, At
  <1>2. /\ Ended(p) /\ RequestsTyped' /\ req'[p].op = "idle"
        /\ Knows(p) /\ FileTypeOK /\ DecisionFinal /\ Argued(req[p])
    BY <1>1, CommitEnds
  <1>3. /\ c \in Complaint /\ req[p].actor \in Officer /\ DocketLock(c) \in held[p]
        /\ docketStatus[c] = req[p].expected /\ assignee[c] = req[p].actor
        /\ <<docketStatus[c], to>> \in StatusTransitions
        /\ Len(history[c]) < MaxHistory
    BY <1>1, <1>2 DEF Knows, KnowsStatus, Argued, HasDocket
  <1>4. docketStatus[c] \in {"ACTIVE", "ON_HOLD"} /\ to \in {"ACTIVE", "ON_HOLD", "CLOSED"}
    BY <1>3, TransitionStatuses
  <1> HIDE DEF c, to
  <1>5. [FileNext]_fileVars
    <2>1. UpdateStatus(c, to)
      BY <1>1, <1>3, CaseAssumption DEF UpdateStatus
    <2>2. QED
      BY <2>1, <1>3, <1>4 DEF FileNext, DocketStatuses
  <1>6. /\ \A d \in Complaint \ {c} :
             docketStatus'[d] = docketStatus[d] /\ history'[d] = history[d]
        /\ docketStatus'[c] = to
        /\ complaintStatus' = complaintStatus /\ home' = home /\ decisions' = decisions
        /\ escalation' = escalation /\ approvals' = approvals /\ assignee' = assignee
        /\ entries' = entries /\ posting' = posting
    BY <1>1, <1>2, <1>3 DEF RecordStatus, Transition, complaintVars, FileTypeOK
  <1>7. Guarded(held[p])
    BY <1>3, <1>4, <1>6 DEF Guarded
  <1>8. StatusAnswered
    BY <1>1, <1>2, <1>3, <1>6 DEF StatusAnswered, c
  <1>9. ReviewAnswered
    BY <1>6 DEF ReviewAnswered
  <1>10. QED
    BY <1>2, <1>5, <1>7, <1>8, <1>9 DEF Committed

\* A change of staff writes under the officer lock.
LEMMA ChangeCommits ==
    ASSUME RequestsInv, NEW p \in Request, ChangeCommit(p)
    PROVE  Committed(p)
  <1> DEFINE t == req[p].target
             new == req[p].post
  <1>1. /\ req[p].op = "change" /\ req[p].at = "commit" /\ Commit(p) /\ RecordPosting(t, new)
    BY DEF ChangeCommit, At
  <1>2. /\ Ended(p) /\ RequestsTyped' /\ req'[p].op = "idle"
        /\ Knows(p) /\ FileTypeOK /\ DecisionFinal /\ Argued(req[p])
    BY <1>1, CommitEnds
  <1>3. /\ t \in Officer /\ new \in NewPostings /\ StaffLock(t) \in held[p]
        /\ Moving(t, new) => ~Busy(t)
    BY <1>1, <1>2 DEF Knows, KnowsChange, Argued, HasTarget
  <1>4. [FileNext]_fileVars
    BY <1>1, <1>3 DEF FileNext, ChangeStaff
  <1>5. Guarded(held[p])
    BY <1>1, <1>2, <1>3 DEF RecordPosting, complaintVars, docketVars, FileTypeOK, Guarded
  <1>6. StatusAnswered /\ ReviewAnswered
    BY <1>1 DEF RecordPosting, complaintVars, docketVars, StatusAnswered, ReviewAnswered
  <1>7. QED
    BY <1>2, <1>4, <1>5, <1>6 DEF Committed

-----------------------------------------------------------------------------
(***************************************************************************)
(* Every step of the service.                                              *)
(***************************************************************************)
\* The calls of clients carry their arguments, and begin before any check.
LEMMA CallsTyped ==
    ASSUME NEW r \in Calls
    PROVE  /\ r \in RequestRecords /\ Argued(r)
           /\ r.at \in {"role", "posting", "escalation", "user"}
           /\ r.op = "material" => r.at = "role"
           /\ r.op = "refusal_review" => r.at = "role"
           /\ r.op = "change" => r.at = "user"
  <1> DEFINE goal == /\ r \in RequestRecords /\ Argued(r)
                     /\ r.at \in {"role", "posting", "escalation", "user"}
                     /\ r.op = "material" => r.at = "role"
                     /\ r.op = "refusal_review" => r.at = "role"
                     /\ r.op = "change" => r.at = "user"
             reviews == {New("review", "role", c, o) :
                         c \in Complaint, o \in Officer}
             decides == {[New("decide", "role", c, o) EXCEPT !.choice = k] :
                         c \in Complaint, o \in Officer, k \in ReasonKinds \cup {"ACCEPTED"}}
             opens == {New("open", "role", c, o) :
                         c \in Complaint, o \in Officer}
             approves == {[New("approve", "role", c, o) EXCEPT !.choice = k] :
                         c \in Complaint, o \in Officer, k \in Verdicts}
             materials == {New("material", "role", c, o) :
                         c \in Complaint, o \in Officer}
             refusals == {[New("refusal_review", "role", c, o) EXCEPT !.choice = k] :
                         c \in Complaint, o \in Officer, k \in {"ACKNOWLEDGE", "ESCALATE"}}
             escalates == {[New("escalation", "role", c, o) EXCEPT !.choice = k] :
                         c \in Complaint, o \in Officer, k \in {"ACKNOWLEDGED", "RESOLVED"}}
             answers == {[New("ncc_escalation", "escalation", c, None) EXCEPT !.choice = k] :
                         c \in Complaint, k \in {"ACKNOWLEDGED", "RESOLVED"}}
             assigns == {[New("assign", "posting", c, o) EXCEPT !.target = t] :
                         c \in Complaint, o \in Officer, t \in Officer}
             unassigns == {New("unassign", "posting", c, o) :
                         c \in Complaint, o \in Officer}
             notes == {New("note", "posting", c, o) :
                         c \in Complaint, o \in Officer}
             statuses == {StatusCall(c, o, e, k) :
                         c \in Complaint, o \in Officer, e \in {"ACTIVE", "ON_HOLD"},
                         k \in {"ACTIVE", "ON_HOLD", "CLOSED"}}
             changes == {ChangeCall(t, p) :
                         t \in Officer, p \in NewPostings}
  <1>1. r \in UNION {reviews, decides, opens, approves, materials, refusals, escalates, answers,
                     assigns, unassigns, notes, statuses, changes}
    BY DEF Calls
  <1> HIDE DEF goal
  <1>2. ASSUME r \in reviews PROVE goal
    <2>1. ASSUME NEW c \in Complaint, NEW o \in Officer,
                 r = New("review", "role", c, o)
          PROVE  goal
      BY <2>1 DEF goal, New, RequestRecords, Names, Places, Choices, Argued
    <2>2. QED
      BY <1>2, <2>1
  <1>3. ASSUME r \in decides PROVE goal
    <2>1. ASSUME NEW c \in Complaint, NEW o \in Officer, NEW k \in ReasonKinds \cup {"ACCEPTED"},
                 r = [New("decide", "role", c, o) EXCEPT !.choice = k]
          PROVE  goal
      BY <2>1 DEF goal, New, RequestRecords, Names, Places, Choices, Argued
    <2>2. QED
      BY <1>3, <2>1
  <1>4. ASSUME r \in opens PROVE goal
    <2>1. ASSUME NEW c \in Complaint, NEW o \in Officer,
                 r = New("open", "role", c, o)
          PROVE  goal
      BY <2>1 DEF goal, New, RequestRecords, Names, Places, Choices, Argued
    <2>2. QED
      BY <1>4, <2>1
  <1>5. ASSUME r \in approves PROVE goal
    <2>1. ASSUME NEW c \in Complaint, NEW o \in Officer, NEW k \in Verdicts,
                 r = [New("approve", "role", c, o) EXCEPT !.choice = k]
          PROVE  goal
      BY <2>1 DEF goal, New, RequestRecords, Names, Places, Choices, Argued
    <2>2. QED
      BY <1>5, <2>1
  <1>6. ASSUME r \in materials PROVE goal
    <2>1. ASSUME NEW c \in Complaint, NEW o \in Officer,
                 r = New("material", "role", c, o)
          PROVE  goal
      BY <2>1 DEF goal, New, RequestRecords, Names, Places, Choices, Argued
    <2>2. QED
      BY <1>6, <2>1
  <1>7. ASSUME r \in refusals PROVE goal
    <2>1. ASSUME NEW c \in Complaint, NEW o \in Officer, NEW k \in {"ACKNOWLEDGE", "ESCALATE"},
                 r = [New("refusal_review", "role", c, o) EXCEPT !.choice = k]
          PROVE  goal
      BY <2>1 DEF goal, New, RequestRecords, Names, Places, Choices, Argued
    <2>2. QED
      BY <1>7, <2>1
  <1>8. ASSUME r \in escalates PROVE goal
    <2>1. ASSUME NEW c \in Complaint, NEW o \in Officer, NEW k \in {"ACKNOWLEDGED", "RESOLVED"},
                 r = [New("escalation", "role", c, o) EXCEPT !.choice = k]
          PROVE  goal
      BY <2>1 DEF goal, New, RequestRecords, Names, Places, Choices, Argued
    <2>2. QED
      BY <1>8, <2>1
  <1>9. ASSUME r \in answers PROVE goal
    <2>1. ASSUME NEW c \in Complaint, NEW k \in {"ACKNOWLEDGED", "RESOLVED"},
                 r = [New("ncc_escalation", "escalation", c, None) EXCEPT !.choice = k]
          PROVE  goal
      BY <2>1 DEF goal, New, RequestRecords, Names, Places, Choices, Argued
    <2>2. QED
      BY <1>9, <2>1
  <1>10. ASSUME r \in assigns PROVE goal
    <2>1. ASSUME NEW c \in Complaint, NEW o \in Officer, NEW t \in Officer,
                 r = [New("assign", "posting", c, o) EXCEPT !.target = t]
          PROVE  goal
      BY <2>1 DEF goal, New, RequestRecords, Names, Places, Choices, Argued
    <2>2. QED
      BY <1>10, <2>1
  <1>11. ASSUME r \in unassigns PROVE goal
    <2>1. ASSUME NEW c \in Complaint, NEW o \in Officer,
                 r = New("unassign", "posting", c, o)
          PROVE  goal
      BY <2>1 DEF goal, New, RequestRecords, Names, Places, Choices, Argued
    <2>2. QED
      BY <1>11, <2>1
  <1>12. ASSUME r \in notes PROVE goal
    <2>1. ASSUME NEW c \in Complaint, NEW o \in Officer,
                 r = New("note", "posting", c, o)
          PROVE  goal
      BY <2>1 DEF goal, New, RequestRecords, Names, Places, Choices, Argued
    <2>2. QED
      BY <1>12, <2>1
  <1>13. ASSUME r \in statuses PROVE goal
    <2>1. ASSUME NEW c \in Complaint, NEW o \in Officer, NEW e \in {"ACTIVE", "ON_HOLD"},
                 NEW k \in {"ACTIVE", "ON_HOLD", "CLOSED"},
                 r = StatusCall(c, o, e, k)
          PROVE  goal
      BY <2>1 DEF goal, New, RequestRecords, Names, Places, Choices, Argued, StatusCall
    <2>2. QED
      BY <1>13, <2>1
  <1>14. ASSUME r \in changes PROVE goal
    <2>1. ASSUME NEW t \in Officer, NEW p \in NewPostings,
                 r = ChangeCall(t, p)
          PROVE  goal
      BY <2>1 DEF goal, New, RequestRecords, Names, Places, Choices, Argued, ChangeCall
    <2>2. QED
      BY <1>14, <2>1
  <1> HIDE DEF goal, reviews, decides, opens, approves, materials, refusals,
               escalates, answers, assigns, unassigns, notes, statuses, changes
  <1>15. r \in reviews \/ r \in decides \/ r \in opens \/ r \in approves \/ r \in materials
         \/ r \in refusals \/ r \in escalates \/ r \in answers \/ r \in assigns
         \/ r \in unassigns \/ r \in notes
         \/ r \in statuses \/ r \in changes
    BY <1>1
  <1>16. goal
    BY <1>2, <1>3, <1>4, <1>5, <1>6, <1>7, <1>8, <1>9, <1>10, <1>11, <1>12, <1>13, <1>14, <1>15
  <1>17. QED
    BY <1>16 DEF goal

\* A call takes no lock and has passed no check.
LEMMA CallKnows ==
    ASSUME RequestsInv, NEW p \in Request, Call(p)
    PROVE  /\ Alone(p) /\ RequestsTyped' /\ held' = held /\ UNCHANGED fileVars
           /\ Knows(p)'
  <1>1. RequestsTyped
    BY DEF RequestsInv
  <1>2. PICK r \in Calls : req' = [req EXCEPT ![p] = r]
    BY DEF Call
  <1>3. held' = held /\ UNCHANGED fileVars
    BY DEF Call
  <1>4. req'[p] = r /\ \A q \in Request \ {p} : req'[q] = req[q]
    BY <1>1, <1>2 DEF RequestsTyped
  <1>5. /\ r \in RequestRecords /\ Argued(r)
        /\ r.at \in {"role", "posting", "escalation", "user"}
        /\ r.op = "material" => r.at = "role"
        /\ r.op = "refusal_review" => r.at = "role"
    BY CallsTyped
  <1>6. RequestsTyped'
    <2>1. req' \in [Request -> RequestRecords]
      BY <1>1, <1>2, <1>5 DEF RequestsTyped
    <2>2. \A q \in Request : Argued(req'[q])
      BY <1>1, <1>4, <1>5 DEF RequestsTyped
    <2>3. QED
      BY <1>1, <1>3, <2>1, <2>2 DEF RequestsTyped
  <1>7. Knows(p)'
    BY <1>4, <1>5 DEF Knows, KnowsReview, KnowsDecide, KnowsOpen, KnowsApprove, KnowsMaterial,
       KnowsRefusal, KnowsEscalation, KnowsAssign, KnowsUnassign, KnowsNote, KnowsStatus,
       KnowsChange, Inserting
  <1>8. QED
    BY <1>3, <1>4, <1>6, <1>7 DEF Alone

\* A registration touches a complaint nobody knows.
LEMMA SubmitWrites ==
    ASSUME FileTypeOK, Submit
    PROVE  Guarded({}) /\ [FileNext]_fileVars /\ StatusAnswered /\ ReviewAnswered
  <1>1. PICK c \in Complaint, s \in Station : Register(c, s)
    BY DEF Submit
  <1>2. [FileNext]_fileVars
    BY <1>1 DEF FileNext
  <1>3. Guarded({})
    BY <1>1 DEF Register, docketVars, FileTypeOK, Guarded
  <1>4. StatusAnswered /\ ReviewAnswered
    BY <1>1 DEF Register, docketVars, FileTypeOK, StatusAnswered, ReviewAnswered
  <1>5. QED
    BY <1>2, <1>3, <1>4

\* Every step of a handler is a check or a commit.
LEMMA ProgressOutcome ==
    ASSUME RequestsInv, NEW p \in Request, Progress(p)
    PROVE  Checked(p) \/ Committed(p)
  <1>1. CASE ActiveOfficerWithRole(p) \/ DeskOfficer(p) \/ InvestigationOfficer(p)
    BY <1>1, AuthorizedChecked, DeskOfficerChecked, InvestigationOfficerChecked
  <1>2. ASSUME OpenExisting(p) PROVE Checked(p)
    BY <1>2, CheckFails DEF OpenExisting, Commit
  <1>f. CASE FlushOfficerKey(p) \/ FlushUserKey(p)
    BY <1>f, FlushOfficerKeyChecked, FlushUserKeyChecked
  <1>3. CASE DeskStep(p)
    BY <1>2, <1>3, ReviewLockChecked, ReviewCommits, DecideRoleChecked, DecideLockChecked,
       DecideCommits, OpenLockChecked, OpenCommits, ApproveLockComplaintChecked,
       ApproveLockDocketChecked, ApproveCommits, MaterialRoleChecked,
       MaterialLockComplaintChecked, MaterialScopeChecked, MaterialLockDocketChecked,
       MaterialCommits DEF DeskStep
  <1>4. CASE RefusalStep(p)
    BY <1>4, ReviewRefusalLockChecked, ReviewRefusalRecordChecked, ReviewRefusalCommits,
       EscalationLockChecked, EscalationLockComplaintChecked, EscalationCommits
       DEF RefusalStep
  <1>5. CASE InvestigationStep(p)
    BY <1>5, AssignLockDocketChecked, AssignLockTargetChecked, AssignEligibleChecked,
       AssignFreeChecked, AssignTriggerChecked, AssignCommits, UnassignLockChecked,
       UnassignCommits, NoteLockChecked, NoteCommits, StatusLockChecked,
       StatusTriggerChecked, StatusCommits, ChangeLockUserChecked, ChangeLockOfficerChecked,
       ChangeMovingChecked, ChangeCommits DEF InvestigationStep
  <1>6. QED
    BY <1>1, <1>f, <1>3, <1>4, <1>5 DEF Progress

\* Every step keeps the invariant, is a step of the case file or leaves it, and
\* answers for the changes of status it makes.
LEMMA RequestsStep ==
    ASSUME RequestsInv, [Next]_vars
    PROVE  RequestsInv' /\ [FileNext]_fileVars /\ StatusAnswered /\ ReviewAnswered
  <1>t. FileTypeOK /\ DecisionFinal /\ RequestsTyped /\ Exclusive /\ \A p \in Request : Knows(p)
    BY DEF RequestsInv
  <1>f. [FileNext]_fileVars => FileTypeOK' /\ DecisionFinal'
    BY <1>t, NextTyped, DecisionStep
  <1>u. UNCHANGED fileVars => Guarded({}) /\ StatusAnswered /\ ReviewAnswered
    BY DEF fileVars, Guarded, StatusAnswered, ReviewAnswered
  <1>s. ASSUME NEW L, Guarded(L), [FileNext]_fileVars, NEW q \in Request,
               req'[q] = req[q], held'[q] = held[q], Compatible(L, held[q])
        PROVE  Knows(q)'
    BY <1>s, <1>f, StandKnows
  <1>e. \A M : Compatible({}, M)
    BY DEF Compatible
  <1>1. CASE UNCHANGED vars
    <2>1. UNCHANGED fileVars /\ req' = req /\ held' = held
      BY <1>1 DEF vars, transactionVars
    <2>2. \A q \in Request : Knows(q)'
      BY <2>1, <1>u, <1>s, <1>e
    <2>3. RequestsTyped' /\ Exclusive'
      BY <2>1, <1>t DEF RequestsTyped, Exclusive
    <2>4. QED
      BY <2>1, <2>2, <2>3, <1>f, <1>u DEF RequestsInv
  <1>2. CASE Submit
    <2>1. Guarded({}) /\ [FileNext]_fileVars /\ StatusAnswered /\ ReviewAnswered
      BY <1>2, <1>t, SubmitWrites
    <2>2. req' = req /\ held' = held
      BY <1>2 DEF Submit, transactionVars
    <2>3. \A q \in Request : Knows(q)'
      BY <2>1, <2>2, <1>s, <1>e
    <2>4. RequestsTyped' /\ Exclusive'
      BY <2>2, <1>t DEF RequestsTyped, Exclusive
    <2>5. QED
      BY <2>1, <2>3, <2>4, <1>f DEF RequestsInv
  <1>3. ASSUME NEW p \in Request, Call(p)
        PROVE  RequestsInv' /\ [FileNext]_fileVars /\ StatusAnswered /\ ReviewAnswered
    <2>1. /\ Alone(p) /\ RequestsTyped' /\ held' = held /\ UNCHANGED fileVars
          /\ Knows(p)'
      BY <1>3, CallKnows
    <2>2. \A q \in Request : Knows(q)'
      BY <2>1, <1>u, <1>s, <1>e DEF Alone
    <2>3. Exclusive'
      BY <2>1, <1>t DEF Exclusive
    <2>4. QED
      BY <2>1, <2>2, <2>3, <1>f, <1>u DEF RequestsInv
  <1>4. ASSUME NEW p \in Request, Checked(p)
        PROVE  RequestsInv' /\ [FileNext]_fileVars /\ StatusAnswered /\ ReviewAnswered
    <2>1. /\ UNCHANGED fileVars /\ Alone(p) /\ RequestsTyped' /\ Knows(p)'
          /\ Moved(p) \/ Ended(p)
      BY <1>4, EndedKnows DEF Checked, Moved, Ended
    <2>2. \A q \in Request : Knows(q)'
      BY <2>1, <1>u, <1>s, <1>e DEF Alone
    <2>3. Exclusive'
      BY <2>1, <1>t, ExclusiveStep
    <2>4. QED
      BY <2>1, <2>2, <2>3, <1>f, <1>u DEF RequestsInv
  <1>5. ASSUME NEW p \in Request, Committed(p)
        PROVE  RequestsInv' /\ [FileNext]_fileVars /\ StatusAnswered /\ ReviewAnswered
    <2>1. /\ Ended(p) /\ Alone(p) /\ RequestsTyped' /\ Guarded(held[p]) /\ [FileNext]_fileVars
          /\ StatusAnswered /\ ReviewAnswered
      BY <1>5 DEF Committed, Ended
    <2>2. \A q \in Request \ {p} : Compatible(held[p], held[q])
      BY <1>t DEF Exclusive
    <2>3. \A q \in Request \ {p} : Knows(q)'
      BY <2>1, <2>2, <1>s DEF Alone
    <2>4. \A q \in Request : Knows(q)'
      BY <2>1, <2>3, EndedKnows
    <2>5. Exclusive'
      BY <2>1, <1>t, ExclusiveStep
    <2>6. QED
      BY <2>1, <2>4, <2>5, <1>f DEF RequestsInv
  <1>6. ASSUME NEW p \in Request, Rollback(p) \/ DeadlockVictim(p) PROVE Checked(p)
    BY <1>6, CheckFails DEF Rollback, DeadlockVictim
  <1>7. QED
    BY <1>1, <1>2, <1>3, <1>4, <1>5, <1>6, ProgressOutcome DEF Next

\* The invariant holds at the start.
LEMMA RequestsStart == Init => RequestsInv
  <1> SUFFICES ASSUME Init PROVE RequestsInv
    OBVIOUS
  <1>1. FileInit /\ req = [p \in Request |-> Idle] /\ held = [p \in Request |-> {}]
    BY DEF Init
  <1>2. FileTypeOK
    BY <1>1, InitTyped
  <1>3. DecisionFinal
    BY <1>1, CaseAssumption DEF FileInit, DecisionFinal, Refused
  <1>4. RequestsTyped
    <2>1. Idle \in RequestRecords /\ Argued(Idle)
      BY IdleTyped
    <2>2. QED
      BY <1>1, <2>1 DEF RequestsTyped
  <1>5. Exclusive
    BY <1>1 DEF Exclusive, Compatible
  <1>6. \A p \in Request : Knows(p)
    BY <1>1 DEF Knows, Idle, New
  <1>7. QED
    BY <1>2, <1>3, <1>4, <1>5, <1>6 DEF RequestsInv

\* The invariant holds of every behaviour.
THEOREM RequestsHold == Spec => []RequestsInv
  BY RequestsStart, RequestsStep, PTL DEF Spec

\* Whatever requests run at the same time, their commits are steps of the case
\* file: the handlers implement CaseFile, so that all that is proved of CaseFile
\* holds of the service (dockets/service.py, refusals/service.py,
\* investigations/service.py, administration/service.py).
THEOREM RequestsImplement == Spec => ImplementsCaseFile
  <1>1. Init => FileInit
    BY DEF Init
  <1>2. RequestsInv /\ [Next]_vars => [FileNext]_fileVars
    BY RequestsStep
  <1>3. QED
    BY <1>1, <1>2, RequestsHold, PTL DEF Spec, ImplementsCaseFile, FileSpec

\* The status of an open docket is changed by the officer who holds the docket at
\* that moment, from the status the officer saw (investigations/service.py:55).
THEOREM StatusHeld == Spec => StatusByAssignee
  <1>1. RequestsInv /\ [Next]_vars => [StatusAnswered]_vars
    BY RequestsStep
  <1>2. QED
    BY <1>1, RequestsHold, PTL DEF Spec, StatusByAssignee, StatusAnswered

\* A review is started by an active officer of the complaint's station, as the
\* officer row stands at the commit (complaints/service.py:202).
THEOREM ReviewHeld == Spec => ReviewerOnDuty
  <1>1. RequestsInv /\ [Next]_vars => [ReviewAnswered]_vars
    BY RequestsStep
  <1>2. QED
    BY <1>1, RequestsHold, PTL DEF Spec, ReviewerOnDuty, ReviewAnswered

\* What is proved of the case file is true of the service: complaints are
\* decided once, nobody holds two unfinished cases, the assigned investigator
\* is one of the station, the history of a docket has no gap, and the database
\* refuses no commit of the handlers.
COROLLARY ServiceKeepsPromises ==
    Spec => /\ []DecisionFinal /\ []OneUnfinishedCase /\ []AssigneePosted
            /\ []HistoryTellsStatus /\ []EscalationFollowsRefusal
            /\ NothingReopens /\ EntriesFollowDocket /\ SchemaAccepts
  BY RequestsImplement, DecidedOnce, OneCase, AssigneeAtStation, HistoryChain,
     EscalationsOfRefusals, Finality, EntriesInCharge,
     SchemaSatisfied, PTL DEF ImplementsCaseFile

-----------------------------------------------------------------------------
(***************************************************************************)
(* Requests that wait for each other in a circle.  Every lock a request    *)
(* holds is on a row of its own call and was taken at an earlier step      *)
(* (HeldInPlace); so a request that is in the way of another one is at one *)
(* of a few places, and waits there for one of a few rows.                 *)
(***************************************************************************)
RefusalLock(c, t) == Lock("refusal_escalations", <<c, t>>, "UPDATE")
UserLock(o) == Lock("users", o, "UPDATE")
StaffKey(o) == Lock("officers", o, "KEY SHARE")
AccountKey(o) == Lock("users", o, "KEY SHARE")

\* Where each operation holds which lock.
HoldsComplaint(r) ==
    \/ r.op = "decide" /\ r.at \in {"officer_key", "commit"}
    \/ r.op = "open" /\ r.at \in {"existing", "officer_key", "commit"}
    \/ r.op = "approve" /\ r.at \in {"docket", "officer_key", "commit"}
    \/ r.op = "refusal_review" /\ r.at \in {"escalation", "commit"}
    \/ r.op \in {"review", "escalation", "ncc_escalation", "status"} /\ r.at = "commit"
    \/ r.op = "assign" /\ r.at \in {"user_key", "officer_key", "commit"}
    \/ r.op = "material"
         /\ r.at \in {"desk_role", "desk_officer", "scope", "posting", "investigation_role",
                      "docket", "officer_key", "commit"}

HoldsDocket(r) ==
    \/ r.op \in {"approve", "material", "note"} /\ r.at \in {"officer_key", "commit"}
    \/ r.op = "unassign" /\ r.at = "commit"
    \/ r.op = "assign" /\ r.at \in {"target", "eligible", "busy"} \cup Inserting
    \/ r.op = "status" /\ r.at \in {"trigger", "commit"}

HoldsReview(r) ==
    \/ r.op = "refusal_review" /\ r.at = "commit"
    \/ r.op \in {"escalation", "ncc_escalation"} /\ r.at \in {"complaint", "commit"}

HoldsDuty(r) ==
    \/ r.op = "review" /\ r.at \in {"complaint", "commit"}
    \/ r.op = "material" /\ r.at \in {"scope", "docket", "officer_key", "commit"}

HoldsStaff(r) ==
    \/ r.op = "assign" /\ r.at \in {"eligible", "busy"} \cup Inserting
    \/ r.op = "change" /\ r.at \in {"moving", "commit"}

HoldsUser(r) == r.op = "change" /\ r.at \in {"target", "moving", "commit"}

HoldsStaffKey(r) ==
    \/ r.op \in {"decide", "open", "approve", "material", "note"} /\ r.at = "commit"
    \/ r.op = "assign" /\ r.at \in {"user_key", "officer_key", "commit"}

HoldsAccountKey(r) == r.op = "assign" /\ r.at \in {"user_key", "officer_key", "commit"}

\* Every lock a request holds is on a row of its own call, taken at an earlier step.
HeldInPlace(p) ==
    \A m \in held[p] :
       \/ m = ComplaintLock(req[p].case) /\ HoldsComplaint(req[p])
       \/ m = DocketLock(req[p].case) /\ HoldsDocket(req[p])
       \/ m = RefusalLock(req[p].case, EscalationTarget(p)) /\ HoldsReview(req[p])
       \/ m = DutyLock(req[p].actor) /\ HoldsDuty(req[p])
       \/ m = StaffLock(req[p].target) /\ HoldsStaff(req[p])
       \/ m = UserLock(req[p].target) /\ HoldsUser(req[p])
       \/ m = StaffKey(req[p].actor) /\ HoldsStaffKey(req[p])
       \/ m = AccountKey(req[p].actor) /\ HoldsAccountKey(req[p])

\* The step from r to s keeps what is held and adds what it takes.
Follows(r, s) ==
    /\ HoldsComplaint(r) \/ r.at \in {"complaint", "trigger"} => HoldsComplaint(s)
    /\ HoldsDocket(r) \/ r.at = "docket" => HoldsDocket(s)
    /\ HoldsReview(r) \/ r.at = "escalation" => HoldsReview(s)
    /\ HoldsDuty(r) \/ r.at = "desk_officer" => HoldsDuty(s)
    /\ HoldsStaff(r) \/ r.at = "target" => HoldsStaff(s)
    /\ HoldsUser(r) \/ r.at = "user" => HoldsUser(s)
    /\ HoldsStaffKey(r) \/ r.at = "officer_key" => HoldsStaffKey(s)
    /\ HoldsAccountKey(r) \/ r.at = "user_key" => HoldsAccountKey(s)
    /\ r.at \notin {"existing", "commit"}

\* p goes on to its next place.
Onward(p) ==
    /\ Follows(req[p], req'[p])
    /\ held'[p] \subseteq held[p] \cup Wanted(p)
    /\ req'[p].op = req[p].op /\ req'[p].case = req[p].case
    /\ req'[p].actor = req[p].actor /\ req'[p].target = req[p].target
    /\ EscalationTarget(p)' = EscalationTarget(p)
    /\ Alone(p)

\* What p holds is where its next place says.
LEMMA OnwardInPlace ==
    ASSUME NEW p \in Request, HeldInPlace(p), Onward(p)
    PROVE  HeldInPlace(p)'
  <1> SUFFICES ASSUME NEW m \in held'[p]
               PROVE  \/ m = ComplaintLock(req'[p].case) /\ HoldsComplaint(req'[p])
                      \/ m = DocketLock(req'[p].case) /\ HoldsDocket(req'[p])
                      \/ /\ m = RefusalLock(req'[p].case, EscalationTarget(p)')
                         /\ HoldsReview(req'[p])
                      \/ m = DutyLock(req'[p].actor) /\ HoldsDuty(req'[p])
                      \/ m = StaffLock(req'[p].target) /\ HoldsStaff(req'[p])
                      \/ m = UserLock(req'[p].target) /\ HoldsUser(req'[p])
                      \/ m = StaffKey(req'[p].actor) /\ HoldsStaffKey(req'[p])
                      \/ m = AccountKey(req'[p].actor) /\ HoldsAccountKey(req'[p])
    BY DEF HeldInPlace, ComplaintLock, DocketLock, RefusalLock, DutyLock, StaffLock, UserLock,
       StaffKey, AccountKey
  <1>1. CASE m \in held[p]
    BY <1>1 DEF HeldInPlace, Onward, Follows
  <1>2. ASSUME m \in Wanted(p)
        PROVE  \/ m = ComplaintLock(req[p].case) /\ req[p].at \in {"complaint", "trigger"}
               \/ m = DocketLock(req[p].case) /\ req[p].at = "docket"
               \/ m = RefusalLock(req[p].case, EscalationTarget(p)) /\ req[p].at = "escalation"
               \/ m = DutyLock(req[p].actor) /\ req[p].at = "desk_officer"
               \/ m = StaffLock(req[p].target) /\ req[p].at = "target"
               \/ m = UserLock(req[p].target) /\ req[p].at = "user"
               \/ m = StaffKey(req[p].actor) /\ req[p].at = "officer_key"
               \/ m = AccountKey(req[p].actor) /\ req[p].at = "user_key"
    BY <1>2 DEF Wanted, NextRow, OfficerKey, UserKey, Onward, Follows, ComplaintLock, DocketLock,
       RefusalLock, DutyLock, StaffLock, UserLock, StaffKey, AccountKey
  <1>3. QED
    BY <1>1, <1>2 DEF Onward, Follows

\* The place a request may go to from each place of its handler.
Leads(r, next) ==
    \/ r.at = "role" /\ r.op # "material" /\ next = "posting"
    \/ r.at = "role" /\ r.op = "review" /\ next = "desk_officer"
    \/ r.at = "posting" /\ r.op # "material" /\ next \in {"decider", "escalation", "complaint"}
    \/ r.at = "posting" /\ next = "investigation_role"
    \/ r.at = "investigation_role" /\ next = "docket"
    \/ r.at = "decider" /\ r.op = "decide" /\ next = "complaint"
    \/ r.at = "desk_role" /\ next = "desk_officer"
    \/ r.at = "desk_officer" /\ r.op = "review" /\ next = "complaint"
    \/ r.at = "desk_officer" /\ r.op = "material" /\ next = "scope"
    \/ r.at = "scope" /\ next = "docket"
    \/ r.at = "complaint" /\ r.op \in {"review", "escalation", "ncc_escalation"}
         /\ next = "commit"
    \/ r.at = "complaint" /\ r.op = "decide" /\ next = "officer_key"
    \/ r.at = "complaint" /\ r.op = "open" /\ next \in {"existing", "officer_key"}
    \/ r.at = "complaint" /\ r.op = "approve" /\ next = "docket"
    \/ r.at = "complaint" /\ r.op = "material" /\ next \in {"desk_role", "posting"}
    \/ r.at = "complaint" /\ r.op = "refusal_review" /\ next = "escalation"
    \/ r.at = "docket" /\ r.op \in {"approve", "material", "note"} /\ next = "officer_key"
    \/ r.at = "docket" /\ r.op = "unassign" /\ next = "commit"
    \/ r.at = "docket" /\ r.op = "assign" /\ next = "target"
    \/ r.at = "docket" /\ r.op = "status" /\ next = "trigger"
    \/ r.at = "escalation" /\ r.op = "refusal_review" /\ next = "commit"
    \/ r.at = "escalation" /\ r.op \in {"escalation", "ncc_escalation"} /\ next = "complaint"
    \/ r.at = "target" /\ r.op = "assign" /\ next = "eligible"
    \/ r.at = "eligible" /\ next = "busy"
    \/ r.at = "busy" /\ r.op = "assign" /\ next \in {"trigger", "officer_key"}
    \/ r.at = "trigger" /\ r.op = "assign" /\ next = "user_key"
    \/ r.at = "trigger" /\ r.op = "status" /\ next = "commit"
    \/ r.at = "officer_key" /\ next = "commit"
         /\ r.op \in {"decide", "open", "approve", "material", "note", "assign"}
    \/ r.at = "officer_key" /\ r.op = "assign" /\ next = "user_key"
    \/ r.at = "user_key" /\ r.op = "assign" /\ next \in {"officer_key", "commit"}
    \/ r.at = "user" /\ r.op = "change" /\ next = "target"
    \/ r.at = "target" /\ r.op = "change" /\ next = "moving"
    \/ r.at = "moving" /\ next = "commit"

\* From one place to the next no lock is lost, and the one wanted is added.
LEMMA LeadsOn ==
    ASSUME NEW r, NEW s, NEW next, Leads(r, next), s.op = r.op, s.at = next
    PROVE  next \in Places /\ Follows(r, s)
  <1>1. next \in Places
    BY DEF Leads, Places
  <1>2. HoldsComplaint(r) \/ r.at \in {"complaint", "trigger"} => HoldsComplaint(s)
    BY DEF Leads, HoldsComplaint
  <1>3. HoldsDocket(r) \/ r.at = "docket" => HoldsDocket(s)
    BY DEF Leads, HoldsDocket, Inserting
  <1>4. HoldsReview(r) \/ r.at = "escalation" => HoldsReview(s)
    BY DEF Leads, HoldsReview
  <1>5. HoldsDuty(r) \/ r.at = "desk_officer" => HoldsDuty(s)
    BY DEF Leads, HoldsDuty
  <1>6. HoldsStaff(r) \/ r.at = "target" => HoldsStaff(s)
    BY DEF Leads, HoldsStaff, Inserting
  <1>7. HoldsUser(r) \/ r.at = "user" => HoldsUser(s)
    BY DEF Leads, HoldsUser
  <1>8. HoldsStaffKey(r) \/ r.at = "officer_key" => HoldsStaffKey(s)
    BY DEF Leads, HoldsStaffKey
  <1>9. HoldsAccountKey(r) \/ r.at = "user_key" => HoldsAccountKey(s)
    BY DEF Leads, HoldsAccountKey
  <1>10. r.at \notin {"existing", "commit"}
    BY DEF Leads
  <1>11. QED
    BY <1>1, <1>2, <1>3, <1>4, <1>5, <1>6, <1>7, <1>8, <1>9, <1>10 DEF Follows

\* p goes on to next, with the locks its step asked for.
Proceeds(p, next) ==
    /\ Alone(p)
    /\ held'[p] = held[p] \cup Wanted(p)
    /\ req'[p].at = next /\ req'[p].op = req[p].op /\ req'[p].case = req[p].case
    /\ req'[p].actor = req[p].actor /\ req'[p].target = req[p].target
    /\ req'[p].choice = req[p].choice \/ req[p].op = "material"

\* A request that goes where its handler leads goes on.
LEMMA ProceedsOnward ==
    ASSUME NEW p \in Request, NEW next, Proceeds(p, next), Leads(req[p], next)
    PROVE  Onward(p)
  <1>1. Follows(req[p], req'[p])
    BY LeadsOn DEF Proceeds
  <1>2. EscalationTarget(p)' = EscalationTarget(p)
    BY DEF Proceeds, EscalationTarget
  <1>3. QED
    BY <1>1, <1>2 DEF Proceeds, Onward

\* A check goes on or ends the request.
LEMMA CheckProceeds ==
    ASSUME RequestsTyped, NEW p \in Request, NEW ok, NEW next, Check(p, ok, next),
           ok => Leads(req[p], next)
    PROVE  Onward(p) \/ Ended(p)
  <1>1. CASE ok
    <2>1. next \in Places
      BY <1>1 DEF Leads, Places
    <2>2. Advance(p, next)
      BY <1>1 DEF Check
    <2>3. Proceeds(p, next)
      BY <2>1, <2>2, AdvanceKeeps DEF Proceeds
    <2>4. QED
      BY <1>1, <2>3, ProceedsOnward
  <1>2. CASE ~ok
    BY <1>2, FinishEnds DEF Check
  <1>3. QED
    BY <1>1, <1>2

\* So does the read of the officer row.
LEMMA ReadProceeds ==
    ASSUME RequestsTyped, NEW p \in Request, NEW next, ReadStation(p, next),
           Leads(req[p], next)
    PROVE  Onward(p) \/ Ended(p)
  <1> DEFINE s == posting[req[p].actor].station
  <1>1. CASE ~posting[req[p].actor].active
    BY <1>1, FinishEnds DEF ReadStation
  <1>2. CASE posting[req[p].actor].active
    <2>1. /\ req' = [req EXCEPT ![p].at = next, ![p].seen = s]
          /\ held' = [held EXCEPT ![p] = @ \cup Wanted(p)]
      BY <1>2 DEF ReadStation
    <2> HIDE DEF s
    <2>2. req[p] \in RequestRecords
      BY DEF RequestsTyped
    <2>3. /\ req'[p].at = next /\ req'[p].op = req[p].op /\ req'[p].case = req[p].case
          /\ req'[p].actor = req[p].actor /\ req'[p].target = req[p].target
          /\ req'[p].choice = req[p].choice
      BY <2>1, <2>2 DEF RequestsTyped, RequestRecords
    <2>4. Proceeds(p, next)
      BY <2>1, <2>3 DEF Alone, RequestsTyped, Proceeds
    <2>5. QED
      BY <2>4, ProceedsOnward
  <1>3. QED
    BY <1>1, <1>2

\* The flushes.
LEMMA FlushOnward ==
    ASSUME RequestsTyped, NEW p \in Request, FlushOfficerKey(p) \/ FlushUserKey(p)
    PROVE  Onward(p) \/ Ended(p)
  <1>1. CASE FlushOfficerKey(p)
    <2> DEFINE next == IF req[p].op = "assign" /\ docketStatus[req[p].case] # "APPROVED"
                         THEN "user_key" ELSE "commit"
    <2>1. Leads(req[p], next) /\ Check(p, TRUE, next)
      BY <1>1 DEF FlushOfficerKey, Leads
    <2> HIDE DEF next
    <2>2. QED
      BY <2>1, CheckProceeds
  <1>2. CASE FlushUserKey(p)
    <2> DEFINE next == IF docketStatus[req[p].case] = "APPROVED" THEN "officer_key" ELSE "commit"
    <2>1. Leads(req[p], next) /\ Check(p, TRUE, next)
      BY <1>2 DEF FlushUserKey, At, Leads
    <2> HIDE DEF next
    <2>2. QED
      BY <2>1, CheckProceeds
  <1>3. QED
    BY <1>1, <1>2

\* The steps that authorize an officer.
LEMMA AuthorizedOnward ==
    ASSUME RequestsTyped, NEW p \in Request,
           ActiveOfficerWithRole(p) \/ DeskOfficer(p) \/ InvestigationOfficer(p)
    PROVE  Onward(p) \/ Ended(p)
  <1>1. CASE ActiveOfficerWithRole(p)
    <2> DEFINE next == CASE req[p].op = "decide" -> "decider"
                         [] req[p].op = "escalation" -> "escalation"
                         [] OTHER -> "complaint"
    <2>1. next \in {"decider", "escalation", "complaint"}
      OBVIOUS
    <2>2. /\ req[p].op # "material"
          /\ \/ req[p].at = "role" /\ Check(p, HasRole(p), "posting")
             \/ req[p].at = "posting" /\ ReadStation(p, next)
      BY <1>1 DEF ActiveOfficerWithRole
    <2> HIDE DEF next
    <2>3. req[p].at = "role" => Leads(req[p], "posting")
      BY <2>2 DEF Leads
    <2>4. req[p].at = "posting" => Leads(req[p], next)
      BY <2>1, <2>2 DEF Leads
    <2>5. QED
      BY <2>2, <2>3, <2>4, CheckProceeds, ReadProceeds
  <1>2. CASE DeskOfficer(p)
    <2> DEFINE next == IF req[p].op = "review" THEN "complaint" ELSE "scope"
    <2>1. /\ req[p].op \in {"review", "material"}
          /\ \/ /\ req[p].at = "role" /\ req[p].op = "review"
                /\ Check(p, HasRole(p), "desk_officer")
             \/ /\ req[p].at = "desk_role"
                /\ Check(p, posting[req[p].actor].role = "CHARGE_OFFICER", "desk_officer")
             \/ req[p].at = "desk_officer" /\ ReadStation(p, next)
      BY <1>2 DEF DeskOfficer
    <2>2. /\ req[p].at = "role" /\ req[p].op = "review" => Leads(req[p], "desk_officer")
          /\ req[p].at = "desk_role" => Leads(req[p], "desk_officer")
          /\ req[p].at = "desk_officer" => Leads(req[p], next)
      BY <2>1 DEF Leads
    <2> HIDE DEF next
    <2>3. QED
      BY <2>1, <2>2, CheckProceeds, ReadProceeds
  <1>3. CASE InvestigationOfficer(p)
    <2> DEFINE ok == posting[req[p].actor].role \in RoleOf(req[p].op) \ {"CHARGE_OFFICER"}
    <2>1. \/ req[p].at = "posting" /\ ReadStation(p, "investigation_role")
          \/ req[p].at = "investigation_role" /\ Check(p, ok, "docket")
      BY <1>3 DEF InvestigationOfficer
    <2> HIDE DEF ok
    <2>2. /\ req[p].at = "posting" => Leads(req[p], "investigation_role")
          /\ req[p].at = "investigation_role" => Leads(req[p], "docket")
      BY DEF Leads
    <2>3. QED
      BY <2>1, <2>2, CheckProceeds, ReadProceeds
  <1>4. QED
    BY <1>1, <1>2, <1>3

\* The steps of the charge desk and of docket approval.
LEMMA DeskOnward ==
    ASSUME RequestsTyped, NEW p \in Request, DeskStep(p)
    PROVE  Onward(p) \/ Ended(p)
  <1> DEFINE c == req[p].case
  <1>1. CASE ReviewCommit(p) \/ DecideCommit(p) \/ OpenExisting(p) \/ OpenCommit(p)
             \/ ApproveCommit(p) \/ MaterialCommit(p)
    <2>1. Finish(p)
      BY <1>1 DEF ReviewCommit, DecideCommit, OpenExisting, OpenCommit, ApproveCommit,
         MaterialCommit, Commit
    <2>2. QED
      BY <2>1, FinishEnds
  <1>2. CASE ReviewLock(p)
    <2>1. Leads(req[p], "commit")
      BY <1>2 DEF ReviewLock, At, Leads
    <2>2. QED
      BY <1>2, <2>1, CheckProceeds DEF ReviewLock
  <1>3. CASE DecideRole(p)
    <2>1. Leads(req[p], "complaint")
      BY <1>3 DEF DecideRole, At, Leads
    <2>2. QED
      BY <1>3, <2>1, CheckProceeds DEF DecideRole
  <1>4. CASE DecideLock(p)
    <2>1. Leads(req[p], "officer_key")
      BY <1>4 DEF DecideLock, At, Leads
    <2>2. QED
      BY <1>4, <2>1, CheckProceeds DEF DecideLock
  <1>5. CASE OpenLock(p)
    <2> DEFINE next == IF docketStatus[c] # "NONE" THEN "existing" ELSE "officer_key"
    <2>1. Leads(req[p], next)
      BY <1>5 DEF OpenLock, At, Leads
    <2>2. PICK ok : Check(p, ok, next)
      BY <1>5 DEF OpenLock
    <2> HIDE DEF next
    <2>3. QED
      BY <2>1, <2>2, CheckProceeds
  <1>6. CASE ApproveLockComplaint(p)
    <2>1. Leads(req[p], "docket")
      BY <1>6 DEF ApproveLockComplaint, At, Leads
    <2>2. QED
      BY <1>6, <2>1, CheckProceeds DEF ApproveLockComplaint
  <1>7. CASE ApproveLockDocket(p)
    <2>1. Leads(req[p], "officer_key")
      BY <1>7 DEF ApproveLockDocket, At, Leads
    <2>2. QED
      BY <1>7, <2>1, CheckProceeds DEF ApproveLockDocket
  <1>8. CASE MaterialRole(p)
    <2>1. /\ req[p].op = "material" /\ req[p].at = "role"
          /\ req' = [req EXCEPT ![p].at = "complaint", ![p].choice = posting[req[p].actor].role]
          /\ held' = held
      BY <1>8 DEF MaterialRole, At
    <2>2. /\ req'[p].at = "complaint" /\ req'[p].op = req[p].op /\ req'[p].case = req[p].case
          /\ req'[p].actor = req[p].actor /\ req'[p].target = req[p].target
      BY <2>1 DEF RequestsTyped, RequestRecords
    <2>3. Alone(p)
      BY <2>1 DEF Alone, RequestsTyped
    <2>4. Follows(req[p], req'[p])
      BY <2>1, <2>2 DEF Follows, HoldsComplaint, HoldsDocket, HoldsReview, HoldsDuty, HoldsStaff,
         HoldsUser, HoldsStaffKey, HoldsAccountKey
    <2>5. EscalationTarget(p)' = EscalationTarget(p)
      BY <2>1, <2>2 DEF EscalationTarget
    <2>6. QED
      BY <2>1, <2>2, <2>3, <2>4, <2>5 DEF Onward
  <1>9. CASE MaterialLockComplaint(p)
    <2>1. Leads(req[p], "desk_role") /\ Leads(req[p], "posting")
      BY <1>9 DEF MaterialLockComplaint, At, Leads
    <2>2. \E ok : Check(p, ok, "desk_role") \/ Check(p, ok, "posting")
      BY <1>9 DEF MaterialLockComplaint
    <2>3. QED
      BY <2>1, <2>2, CheckProceeds
  <1>10. CASE MaterialScope(p)
    <2>1. Leads(req[p], "docket")
      BY <1>10 DEF MaterialScope, At, Leads
    <2>2. QED
      BY <1>10, <2>1, CheckProceeds DEF MaterialScope
  <1>11. CASE MaterialLockDocket(p)
    <2>1. Leads(req[p], "officer_key")
      BY <1>11 DEF MaterialLockDocket, At, Leads
    <2>2. \E ok : Check(p, ok, "officer_key")
      BY <1>11 DEF MaterialLockDocket
    <2>3. QED
      BY <2>1, <2>2, CheckProceeds
  <1>12. QED
    BY <1>1, <1>2, <1>3, <1>4, <1>5, <1>6, <1>7, <1>8, <1>9, <1>10, <1>11 DEF DeskStep

\* The steps of the review of refusals.
LEMMA RefusalOnward ==
    ASSUME RequestsTyped, NEW p \in Request, RefusalStep(p)
    PROVE  Onward(p) \/ Ended(p)
  <1>1. CASE ReviewRefusalCommit(p) \/ EscalationCommit(p)
    <2>1. Finish(p)
      BY <1>1 DEF ReviewRefusalCommit, EscalationCommit, Commit
    <2>2. QED
      BY <2>1, FinishEnds
  <1>2. CASE ReviewRefusalLock(p)
    <2>1. Leads(req[p], "escalation")
      BY <1>2 DEF ReviewRefusalLock, At, Leads
    <2>2. \E ok : Check(p, ok, "escalation")
      BY <1>2 DEF ReviewRefusalLock
    <2>3. QED
      BY <2>1, <2>2, CheckProceeds
  <1>3. CASE ReviewRefusalRecord(p)
    <2>1. Leads(req[p], "commit")
      BY <1>3 DEF ReviewRefusalRecord, At, Leads
    <2>2. QED
      BY <1>3, <2>1, CheckProceeds DEF ReviewRefusalRecord
  <1>4. CASE EscalationLock(p)
    <2>1. Leads(req[p], "complaint")
      BY <1>4 DEF EscalationLock, Leads
    <2>2. QED
      BY <1>4, <2>1, CheckProceeds DEF EscalationLock
  <1>5. CASE EscalationLockComplaint(p)
    <2>1. Leads(req[p], "commit")
      BY <1>5 DEF EscalationLockComplaint, Leads
    <2>2. \E ok : Check(p, ok, "commit")
      BY <1>5 DEF EscalationLockComplaint
    <2>3. QED
      BY <2>1, <2>2, CheckProceeds
  <1>6. QED
    BY <1>1, <1>2, <1>3, <1>4, <1>5 DEF RefusalStep

\* The steps of the investigation service and of the administrator.
LEMMA InvestigationOnward ==
    ASSUME RequestsTyped, NEW p \in Request, InvestigationStep(p)
    PROVE  Onward(p) \/ Ended(p)
  <1> DEFINE c == req[p].case
  <1>1. CASE AssignCommit(p) \/ UnassignCommit(p) \/ NoteCommit(p) \/ StatusCommit(p)
             \/ ChangeCommit(p)
    <2>1. Finish(p)
      BY <1>1 DEF AssignCommit, UnassignCommit, NoteCommit, StatusCommit, ChangeCommit, Commit
    <2>2. QED
      BY <2>1, FinishEnds
  <1>2. CASE AssignLockDocket(p)
    <2>1. Leads(req[p], "target")
      BY <1>2 DEF AssignLockDocket, At, Leads
    <2>2. QED
      BY <1>2, <2>1, CheckProceeds DEF AssignLockDocket
  <1>3. CASE AssignLockTarget(p)
    <2>1. Leads(req[p], "eligible")
      BY <1>3 DEF AssignLockTarget, At, Leads
    <2>2. QED
      BY <1>3, <2>1, CheckProceeds DEF AssignLockTarget
  <1>4. CASE AssignEligible(p)
    <2>1. Leads(req[p], "busy")
      BY <1>4 DEF AssignEligible, At, Leads
    <2>2. \E ok : Check(p, ok, "busy")
      BY <1>4 DEF AssignEligible
    <2>3. QED
      BY <2>1, <2>2, CheckProceeds
  <1>5. CASE AssignFree(p)
    <2> DEFINE next == IF docketStatus[c] = "APPROVED" THEN "trigger" ELSE "officer_key"
    <2>1. Leads(req[p], next)
      BY <1>5 DEF AssignFree, At, Leads
    <2>2. PICK ok : Check(p, ok, next)
      BY <1>5 DEF AssignFree
    <2> HIDE DEF next
    <2>3. QED
      BY <2>1, <2>2, CheckProceeds
  <1>6. CASE AssignTrigger(p)
    <2>1. Leads(req[p], "user_key")
      BY <1>6 DEF AssignTrigger, At, Leads
    <2>2. QED
      BY <1>6, <2>1, CheckProceeds DEF AssignTrigger
  <1>t. CASE StatusTrigger(p)
    <2>1. Leads(req[p], "commit")
      BY <1>t DEF StatusTrigger, At, Leads
    <2>2. QED
      BY <1>t, <2>1, CheckProceeds DEF StatusTrigger
  <1>7. CASE UnassignLock(p)
    <2>1. Leads(req[p], "commit")
      BY <1>7 DEF UnassignLock, At, Leads
    <2>2. QED
      BY <1>7, <2>1, CheckProceeds DEF UnassignLock
  <1>n. CASE NoteLock(p)
    <2>1. Leads(req[p], "officer_key")
      BY <1>n DEF NoteLock, At, Leads
    <2>2. QED
      BY <1>n, <2>1, CheckProceeds DEF NoteLock
  <1>8. CASE StatusLock(p)
    <2>1. Leads(req[p], "trigger")
      BY <1>8 DEF StatusLock, At, Leads
    <2>2. \E ok : Check(p, ok, "trigger")
      BY <1>8 DEF StatusLock
    <2>3. QED
      BY <2>1, <2>2, CheckProceeds
  <1>9. CASE ChangeLockUser(p)
    <2>1. Leads(req[p], "target")
      BY <1>9 DEF ChangeLockUser, At, Leads
    <2>2. QED
      BY <1>9, <2>1, CheckProceeds DEF ChangeLockUser
  <1>10. CASE ChangeLockOfficer(p)
    <2>1. Leads(req[p], "moving")
      BY <1>10 DEF ChangeLockOfficer, At, Leads
    <2>2. QED
      BY <1>10, <2>1, CheckProceeds DEF ChangeLockOfficer
  <1>11. CASE ChangeMoving(p)
    <2>1. Leads(req[p], "commit")
      BY <1>11 DEF ChangeMoving, At, Leads
    <2>2. QED
      BY <1>11, <2>1, CheckProceeds DEF ChangeMoving
  <1>12. QED
    BY <1>1, <1>2, <1>3, <1>4, <1>5, <1>6, <1>7, <1>8, <1>9, <1>10, <1>11, <1>t,
       <1>n DEF InvestigationStep

\* Every step of the service keeps the locks in place.
LEMMA InPlaceStep ==
    ASSUME RequestsTyped, \A p \in Request : HeldInPlace(p), [Next]_vars
    PROVE  \A p \in Request : HeldInPlace(p)'
  <1>1. ASSUME NEW q \in Request, req'[q] = req[q], held'[q] = held[q]
        PROVE  HeldInPlace(q)'
    <2>1. HeldInPlace(q) /\ EscalationTarget(q)' = EscalationTarget(q)
      BY <1>1 DEF EscalationTarget
    <2>2. QED
      BY <1>1, <2>1 DEF HeldInPlace
  <1>2. ASSUME NEW p \in Request, Onward(p) \/ Ended(p)
        PROVE  \A q \in Request : HeldInPlace(q)'
    <2>1. HeldInPlace(p)'
      BY <1>2, OnwardInPlace DEF Ended, HeldInPlace
    <2>2. \A q \in Request \ {p} : req'[q] = req[q] /\ held'[q] = held[q]
      BY <1>2 DEF Onward, Ended, Alone
    <2>3. QED
      BY <1>1, <2>1, <2>2
  <1>3. CASE UNCHANGED vars \/ Submit
    <2>1. req' = req /\ held' = held
      BY <1>3 DEF vars, Submit, transactionVars
    <2>2. QED
      BY <1>1, <2>1
  <1>4. ASSUME NEW p \in Request, Call(p)
        PROVE  \A q \in Request : HeldInPlace(q)'
    <2>1. /\ req[p].op = "idle" /\ held' = held
          /\ \A q \in Request \ {p} : req'[q] = req[q]
      BY <1>4 DEF Call, RequestsTyped
    <2>2. held[p] = {}
      BY <2>1 DEF HeldInPlace, HoldsComplaint, HoldsDocket, HoldsReview, HoldsDuty, HoldsStaff,
         HoldsUser, HoldsStaffKey, HoldsAccountKey
    <2>3. HeldInPlace(p)'
      BY <2>1, <2>2 DEF HeldInPlace
    <2>4. QED
      BY <1>1, <2>1, <2>3
  <1>5. ASSUME NEW p \in Request, Progress(p) \/ Rollback(p) \/ DeadlockVictim(p)
        PROVE  Onward(p) \/ Ended(p)
    BY <1>5, FinishEnds, AuthorizedOnward, FlushOnward, DeskOnward, RefusalOnward, InvestigationOnward
       DEF Progress, Rollback, DeadlockVictim
  <1>6. QED
    BY <1>2, <1>3, <1>4, <1>5 DEF Next

\* The locks are in place in every state.
LEMMA InPlaceHolds == Spec => [](\A p \in Request : HeldInPlace(p))
  <1>1. Init => \A p \in Request : HeldInPlace(p)
    BY DEF Init, HeldInPlace
  <1>2. /\ RequestsInv
        /\ \A p \in Request : HeldInPlace(p)
        /\ [Next]_vars
        => (\A p \in Request : HeldInPlace(p))'
    BY InPlaceStep DEF RequestsInv
  <1>3. QED
    BY <1>1, <1>2, RequestsHold, PTL DEF Spec

\* Who holds a lock.
LEMMA Holders ==
    ASSUME NEW q \in Request, HeldInPlace(q), NEW k
    PROVE  /\ ComplaintLock(k) \in held[q] => k = req[q].case /\ HoldsComplaint(req[q])
           /\ DocketLock(k) \in held[q] => k = req[q].case /\ HoldsDocket(req[q])
           /\ \A t : RefusalLock(k, t) \in held[q] => k = req[q].case /\ HoldsReview(req[q])
           /\ DutyLock(k) \in held[q] => k = req[q].actor /\ HoldsDuty(req[q])
           /\ StaffLock(k) \in held[q] => k = req[q].target /\ HoldsStaff(req[q])
           /\ UserLock(k) \in held[q] => k = req[q].target /\ HoldsUser(req[q])
           /\ StaffKey(k) \in held[q] => k = req[q].actor /\ HoldsStaffKey(req[q])
           /\ AccountKey(k) \in held[q] => k = req[q].actor /\ HoldsAccountKey(req[q])
  <1> USE DEF HeldInPlace, ComplaintLock, DocketLock, RefusalLock, DutyLock, StaffLock, UserLock,
              StaffKey, AccountKey, Lock
  <1>1. ComplaintLock(k) \in held[q] => k = req[q].case /\ HoldsComplaint(req[q])
    OBVIOUS
  <1>2. DocketLock(k) \in held[q] => k = req[q].case /\ HoldsDocket(req[q])
    OBVIOUS
  <1>3. ASSUME NEW t, RefusalLock(k, t) \in held[q]
        PROVE  k = req[q].case /\ HoldsReview(req[q])
    BY <1>3
  <1>4. DutyLock(k) \in held[q] => k = req[q].actor /\ HoldsDuty(req[q])
    OBVIOUS
  <1>5. StaffLock(k) \in held[q] => k = req[q].target /\ HoldsStaff(req[q])
    OBVIOUS
  <1>6. UserLock(k) \in held[q] => k = req[q].target /\ HoldsUser(req[q])
    OBVIOUS
  <1>7. StaffKey(k) \in held[q] => k = req[q].actor /\ HoldsStaffKey(req[q])
    OBVIOUS
  <1>8. AccountKey(k) \in held[q] => k = req[q].actor /\ HoldsAccountKey(req[q])
    OBVIOUS
  <1>9. QED
    BY <1>1, <1>2, <1>3, <1>4, <1>5, <1>6, <1>7, <1>8

\* The lock q holds that p waits for.
Blocks(q, p) ==
    \/ /\ req[p].at \in {"complaint", "trigger"}
       /\ ComplaintLock(req[p].case) \in held[q]
    \/ /\ req[p].at = "docket"
       /\ DocketLock(req[p].case) \in held[q]
    \/ /\ req[p].at = "escalation"
       /\ RefusalLock(req[p].case, EscalationTarget(p)) \in held[q]
    \/ /\ req[p].at = "target"
       /\ \/ StaffLock(req[p].target) \in held[q]
          \/ DutyLock(req[p].target) \in held[q]
          \/ StaffKey(req[p].target) \in held[q]
    \/ /\ req[p].at \in {"desk_officer", "officer_key"}
       /\ StaffLock(req[p].actor) \in held[q]
    \/ /\ req[p].at = "user"
       /\ UserLock(req[p].target) \in held[q] \/ AccountKey(req[p].target) \in held[q]
    \/ /\ \/ req[p].at \in {"user_key", "existing"}
          \/ req[p].at = "commit" /\ req[p].op \notin {"change", "ncc_escalation", "assign"}
       /\ UserLock(req[p].actor) \in held[q]
    \/ /\ req[p].at = "commit" /\ req[p].op = "assign"
       /\ ComplaintLock(req[p].case) \in held[q]

\* Who is waited for holds a lock on the row that is wanted next.
LEMMA Waits ==
    ASSUME NEW p \in Request, NEW q \in Request, HeldInPlace(q), WaitsFor(p, q)
    PROVE  p # q /\ Blocks(q, p)
  <1> SUFFICES Blocks(q, p)
    BY DEF WaitsFor
  <1>1. PICK l \in Wanted(p), m \in held[q] : Conflict(l, m)
    BY DEF WaitsFor
  <1>2. /\ l.row = m.row /\ (l.mode = "UPDATE" \/ m.mode = "UPDATE")
    BY <1>1 DEF Conflict
  <1>3. \/ l = ComplaintLock(req[p].case) /\ req[p].at \in {"complaint", "trigger"}
        \/ l = DocketLock(req[p].case) /\ req[p].at = "docket"
        \/ l = RefusalLock(req[p].case, EscalationTarget(p)) /\ req[p].at = "escalation"
        \/ l = DutyLock(req[p].actor) /\ req[p].at = "desk_officer"
        \/ l = StaffLock(req[p].target) /\ req[p].at = "target"
        \/ l = UserLock(req[p].target) /\ req[p].at = "user"
        \/ l = StaffKey(req[p].actor) /\ req[p].at = "officer_key"
        \/ l = AccountKey(req[p].actor) /\ req[p].at \in {"user_key", "existing"}
        \/ l \in LastKeys(p) /\ req[p].at = "commit"
    BY <1>1 DEF Wanted, NextRow, OfficerKey, UserKey, ComplaintLock, DocketLock, RefusalLock,
       DutyLock, StaffLock, UserLock, StaffKey, AccountKey
  <1>4. l \in LastKeys(p) =>
        \/ l = AccountKey(req[p].actor) /\ req[p].op \notin {"change", "ncc_escalation", "assign"}
        \/ l = Lock("complaints", req[p].case, "KEY SHARE") /\ req[p].op = "assign"
    BY DEF LastKeys, UserKey, AccountKey
  <1>5. \A k : /\ m.row = <<"complaints", k>> => m = ComplaintLock(k)
               /\ m.row = <<"dockets", k>> => m = DocketLock(k)
               /\ m.row = <<"refusal_escalations", k>> => m = Lock("refusal_escalations", k, "UPDATE")
               /\ m.row = <<"officers", k>> => m = DutyLock(k) \/ m = StaffLock(k) \/ m = StaffKey(k)
               /\ m.row = <<"officers", k>> /\ m.mode = "UPDATE" => m = StaffLock(k)
               /\ m.row = <<"users", k>> => m = UserLock(k) \/ m = AccountKey(k)
               /\ m.row = <<"users", k>> /\ m.mode = "UPDATE" => m = UserLock(k)
    <2>1. PICK x, j, w : /\ m = Lock(x, j, w)
                         /\ \/ x \in {"complaints", "dockets", "refusal_escalations"} /\ w = "UPDATE"
                            \/ x = "officers" /\ w \in {"UPDATE", "SHARE", "KEY SHARE"}
                            \/ x = "users" /\ w \in {"UPDATE", "KEY SHARE"}
      BY <1>1 DEF HeldInPlace, ComplaintLock, DocketLock, RefusalLock, DutyLock, StaffLock,
         UserLock, StaffKey, AccountKey
    <2>2. m.mode = w
      BY <2>1 DEF Lock
    <2>3. m.row = <<x, j>>
      BY <2>1 DEF Lock
    <2>4. \A y, k : m.row = <<y, k>> => x = y /\ j = k
      BY <2>3
    <2>5. ASSUME NEW k, NEW y, m.row = <<y, k>>
          PROVE  m = Lock(y, k, w) /\ y = x
      BY <2>1, <2>4, <2>5
    <2>6. ASSUME NEW k, m.row = <<"complaints", k>>
          PROVE  m = ComplaintLock(k)
      <3>1. m = Lock("complaints", k, w) /\ x = "complaints"
        BY <2>5, <2>6
      <3>2. QED
        BY <2>1, <2>2, <3>1 DEF ComplaintLock, DocketLock, DutyLock, StaffLock, UserLock, StaffKey,
           AccountKey
    <2>7. ASSUME NEW k, m.row = <<"dockets", k>>
          PROVE  m = DocketLock(k)
      <3>1. m = Lock("dockets", k, w) /\ x = "dockets"
        BY <2>5, <2>7
      <3>2. QED
        BY <2>1, <2>2, <3>1 DEF ComplaintLock, DocketLock, DutyLock, StaffLock, UserLock, StaffKey,
           AccountKey
    <2>8. ASSUME NEW k, m.row = <<"refusal_escalations", k>>
          PROVE  m = Lock("refusal_escalations", k, "UPDATE")
      <3>1. m = Lock("refusal_escalations", k, w) /\ x = "refusal_escalations"
        BY <2>5, <2>8
      <3>2. QED
        BY <2>1, <2>2, <3>1 DEF ComplaintLock, DocketLock, DutyLock, StaffLock, UserLock, StaffKey,
           AccountKey
    <2>9. ASSUME NEW k, m.row = <<"officers", k>>
          PROVE  /\ m = DutyLock(k) \/ m = StaffLock(k) \/ m = StaffKey(k)
                 /\ m.mode = "UPDATE" => m = StaffLock(k)
      <3>1. m = Lock("officers", k, w) /\ x = "officers"
        BY <2>5, <2>9
      <3>2. QED
        BY <2>1, <2>2, <3>1 DEF ComplaintLock, DocketLock, DutyLock, StaffLock, UserLock, StaffKey,
           AccountKey
    <2>10. ASSUME NEW k, m.row = <<"users", k>>
          PROVE  /\ m = UserLock(k) \/ m = AccountKey(k)
                 /\ m.mode = "UPDATE" => m = UserLock(k)
      <3>1. m = Lock("users", k, w) /\ x = "users"
        BY <2>5, <2>10
      <3>2. QED
        BY <2>1, <2>2, <3>1 DEF ComplaintLock, DocketLock, DutyLock, StaffLock, UserLock, StaffKey,
           AccountKey
    <2>11. QED
      BY <2>6, <2>7, <2>8, <2>9, <2>10
  <1>6. \A k : /\ ComplaintLock(k).row = <<"complaints", k>> /\ DocketLock(k).row = <<"dockets", k>>
               /\ \A t : RefusalLock(k, t) = Lock("refusal_escalations", <<k, t>>, "UPDATE")
               /\ DutyLock(k).row = <<"officers", k>> /\ DutyLock(k).mode # "UPDATE"
               /\ StaffLock(k).row = <<"officers", k>> /\ UserLock(k).row = <<"users", k>>
               /\ StaffKey(k).row = <<"officers", k>> /\ StaffKey(k).mode # "UPDATE"
               /\ AccountKey(k).row = <<"users", k>> /\ AccountKey(k).mode # "UPDATE"
               /\ Lock("refusal_escalations", k, "UPDATE").row = <<"refusal_escalations", k>>
               /\ Lock("complaints", k, "KEY SHARE").row = <<"complaints", k>>
    BY DEF ComplaintLock, DocketLock, RefusalLock, DutyLock, StaffLock, UserLock, StaffKey,
       AccountKey, Lock
  <1>8. CASE l = ComplaintLock(req[p].case) /\ req[p].at \in {"complaint", "trigger"}
    <2>1. m.row = <<"complaints", req[p].case>>
      BY <1>2, <1>6, <1>8
    <2>2. m = ComplaintLock(req[p].case)
      BY <1>1, <2>1, <1>5
    <2>3. QED
      BY <2>2, <1>8 DEF Blocks
  <1>9. CASE l = DocketLock(req[p].case) /\ req[p].at = "docket"
    <2>1. m.row = <<"dockets", req[p].case>>
      BY <1>2, <1>6, <1>9
    <2>2. m = DocketLock(req[p].case)
      BY <2>1, <1>5
    <2>3. QED
      BY <2>2, <1>9 DEF Blocks
  <1>10. CASE l = RefusalLock(req[p].case, EscalationTarget(p)) /\ req[p].at = "escalation"
    <2>1. m.row = <<"refusal_escalations", <<req[p].case, EscalationTarget(p)>>>>
      BY <1>2, <1>6, <1>10
    <2>2. m = RefusalLock(req[p].case, EscalationTarget(p))
      BY <2>1, <1>5, <1>6
    <2>3. QED
      BY <2>2, <1>10 DEF Blocks
  <1>11. CASE \/ l = DutyLock(req[p].actor) /\ req[p].at = "desk_officer"
              \/ l = StaffKey(req[p].actor) /\ req[p].at = "officer_key"
    <2>1. m.row = <<"officers", req[p].actor>> /\ m.mode = "UPDATE"
      BY <1>2, <1>6, <1>11
    <2>2. m = StaffLock(req[p].actor)
      BY <2>1, <1>5
    <2>3. QED
      BY <2>2, <1>11 DEF Blocks
  <1>12. CASE l = StaffLock(req[p].target) /\ req[p].at = "target"
    <2>1. m.row = <<"officers", req[p].target>>
      BY <1>2, <1>6, <1>12
    <2>2. \/ m = DutyLock(req[p].target) \/ m = StaffLock(req[p].target)
          \/ m = StaffKey(req[p].target)
      BY <2>1, <1>5
    <2>3. QED
      BY <2>2, <1>12 DEF Blocks
  <1>13. CASE l = UserLock(req[p].target) /\ req[p].at = "user"
    <2>1. m.row = <<"users", req[p].target>>
      BY <1>2, <1>6, <1>13
    <2>2. m = UserLock(req[p].target) \/ m = AccountKey(req[p].target)
      BY <2>1, <1>5
    <2>3. QED
      BY <2>2, <1>13 DEF Blocks
  <1>14. ASSUME l = AccountKey(req[p].actor) PROVE UserLock(req[p].actor) \in held[q]
    <2>1. m.row = <<"users", req[p].actor>> /\ m.mode = "UPDATE"
      BY <1>2, <1>6, <1>14
    <2>2. QED
      BY <2>1, <1>5
  <1>15. CASE l = AccountKey(req[p].actor) /\ req[p].at \in {"user_key", "existing"}
    BY <1>14, <1>15 DEF Blocks
  <1>16. CASE l \in LastKeys(p) /\ req[p].at = "commit"
    <2>1. CASE /\ l = AccountKey(req[p].actor)
               /\ req[p].op \notin {"change", "ncc_escalation", "assign"}
      BY <1>14, <1>16, <2>1 DEF Blocks
    <2>2. CASE l = Lock("complaints", req[p].case, "KEY SHARE") /\ req[p].op = "assign"
      <3>1. m.row = <<"complaints", req[p].case>>
        BY <1>2, <1>6, <2>2
      <3>2. m = ComplaintLock(req[p].case)
        BY <1>5, <3>1
      <3>3. QED
        BY <3>2, <2>2, <1>16 DEF Blocks
    <2>3. QED
      BY <1>4, <1>16, <2>1, <2>2
  <1>17. QED
    BY <1>3, <1>8, <1>9, <1>10, <1>11, <1>12, <1>13, <1>15, <1>16

\* Requests that all wait for each other include two with opposite orders.
LEMMA CirclesOpposed ==
    ASSUME RequestsInv, \A p \in Request : HeldInPlace(p),
           NEW S \in SUBSET Request, \A p \in S : \E q \in S : WaitsFor(p, q),
           \A p, q \in S : ~Opposed(p, q)
    PROVE  S = {}
  <1>w. \A p \in S : \E q \in S : p # q /\ Blocks(q, p)
    BY Waits
  <1>h. ASSUME NEW q \in S, NEW k
        PROVE  /\ ComplaintLock(k) \in held[q] => k = req[q].case /\ HoldsComplaint(req[q])
               /\ DocketLock(k) \in held[q] => k = req[q].case /\ HoldsDocket(req[q])
               /\ \A t : RefusalLock(k, t) \in held[q] => k = req[q].case /\ HoldsReview(req[q])
               /\ DutyLock(k) \in held[q] => k = req[q].actor /\ HoldsDuty(req[q])
               /\ StaffLock(k) \in held[q] => k = req[q].target /\ HoldsStaff(req[q])
               /\ UserLock(k) \in held[q] => k = req[q].target /\ HoldsUser(req[q])
               /\ StaffKey(k) \in held[q] => k = req[q].actor /\ HoldsStaffKey(req[q])
               /\ AccountKey(k) \in held[q] => k = req[q].actor /\ HoldsAccountKey(req[q])
    BY Holders
  <1>x. ASSUME NEW p \in S, NEW q \in S, p # q, NEW k, ComplaintLock(k) \in held[p],
               ComplaintLock(k) \in held[q]
        PROVE  FALSE
    BY <1>x DEF RequestsInv, Exclusive, Compatible, Conflict, ComplaintLock, Lock
  \* An administrator's request for an officer waits for whoever holds the officer.
  <1>1. ASSUME NEW q \in S, NEW o, StaffLock(o) \in held[q]
        PROVE  req[q].op = "assign" /\ req[q].at \in Inserting
    <2>1. PICK r \in S : Blocks(r, q)
      BY <1>w
    <2>2. HoldsStaff(req[q])
      BY <1>1, <1>h
    <2>3. QED
      BY <2>1, <2>2 DEF HoldsStaff, Blocks, Inserting
  <1>2. ASSUME NEW q \in S, NEW o, UserLock(o) \in held[q]
        PROVE  FALSE
    <2>1. PICK r \in S : Blocks(r, q)
      BY <1>w
    <2>2. req[q].op = "change" /\ req[q].at \in {"target", "moving", "commit"}
      BY <1>2, <1>h DEF HoldsUser
    <2>3. \/ StaffLock(req[q].target) \in held[r] \/ DutyLock(req[q].target) \in held[r]
          \/ StaffKey(req[q].target) \in held[r]
      BY <2>1, <2>2 DEF Blocks
    <2>4. CASE StaffLock(req[q].target) \in held[r]
      BY <1>1, <1>h, <2>2, <2>4 DEF Opposed
    <2>5. CASE DutyLock(req[q].target) \in held[r]
      BY <1>h, <2>2, <2>5 DEF Opposed, HoldsDuty
    <2>6. CASE StaffKey(req[q].target) \in held[r]
      BY <1>h, <2>2, <2>6 DEF Opposed, HoldsStaffKey
    <2>7. QED
      BY <2>3, <2>4, <2>5, <2>6
  \* With a complaint in hand wait only approval, case material, and those who may
  \* wait for an officer.
  <1>3. ASSUME NEW q \in S, NEW c, ComplaintLock(c) \in held[q]
        PROVE  \/ req[q].op \in {"approve", "material"}
               \/ req[q].op \in {"decide", "open"} /\ req[q].at = "officer_key"
    <2>1. PICK r \in S : q # r /\ Blocks(r, q)
      BY <1>w
    <2>2. c = req[q].case /\ HoldsComplaint(req[q])
      BY <1>3, <1>h
    <2>3. ComplaintLock(req[q].case) \notin held[r]
      BY <1>3, <1>x, <2>1, <2>2
    <2>4. \A o : UserLock(o) \notin held[r]
      BY <1>2
    <2>5. SUFFICES ASSUME req[q].op \notin {"approve", "material"},
                          ~(req[q].op \in {"decide", "open"} /\ req[q].at = "officer_key")
                   PROVE  FALSE
      OBVIOUS
    <2>6. CASE req[q].op = "assign" /\ req[q].at \in {"user_key", "officer_key", "commit"}
      <3>1. StaffLock(req[q].actor) \in held[r]
        BY <2>1, <2>3, <2>4, <2>6 DEF Blocks
      <3>2. req[r].op = "assign" /\ req[r].target = req[q].actor
        BY <3>1, <1>1, <1>h
      <3>3. QED
        BY <3>2, <2>1, <2>6 DEF Opposed
    <2>7. CASE /\ req[q].op \in {"review", "decide", "open", "refusal_review", "escalation",
                                 "ncc_escalation", "status"}
               /\ req[q].at = "commit"
      BY <2>1, <2>4, <2>7 DEF Blocks
    <2>8. CASE req[q].at = "existing"
      BY <2>1, <2>4, <2>8 DEF Blocks
    <2>9. CASE req[q].op = "refusal_review" /\ req[q].at = "escalation"
      <3>1. RefusalLock(req[q].case, EscalationTarget(q)) \in held[r]
        BY <2>1, <2>9 DEF Blocks
      <3>2. HoldsReview(req[r]) /\ req[r].case = req[q].case
        BY <3>1, <1>h
      <3>3. req[r].op \in {"escalation", "ncc_escalation"}
        <4>1. SUFFICES ASSUME req[r].op = "refusal_review", req[r].at = "commit" PROVE FALSE
          BY <3>2 DEF HoldsReview
        <4>2. PICK w \in S : Blocks(w, r)
          BY <1>w
        <4>3. ComplaintLock(req[r].case) \notin held[w] /\ \A o : UserLock(o) \notin held[w]
          BY <1>2, <4>1, <4>2 DEF Blocks
        <4>4. QED
          BY <4>1, <4>2, <4>3 DEF Blocks
      <3>4. QED
        BY <3>2, <3>3, <2>9 DEF Opposed
    <2>10. QED
      BY <2>2, <2>5, <2>6, <2>7, <2>8, <2>9 DEF HoldsComplaint
  \* A complaint whose docket is being worked on is locked by the first two only:
  \* it is not to be decided, and its docket is there.
  <1>d. ASSUME NEW q \in S, req[q].op \in {"assign", "status"}, DocketLock(req[q].case) \in held[q],
               NEW r \in S, ComplaintLock(req[q].case) \in held[r]
        PROVE  FALSE
    <2> DEFINE c == req[q].case
    <2>1. Knows(q) /\ Knows(r) /\ DecisionFinal /\ Argued(req[q])
      BY DEF RequestsInv, RequestsTyped
    <2>2. c = req[r].case /\ HoldsDocket(req[q])
      BY <1>d, <1>h
    <2>3. req[r].op \in {"decide", "open"} /\ req[r].at = "officer_key"
      BY <1>3, <1>d, <2>2 DEF Opposed
    <2>4. c \in Complaint /\ docketStatus[c] \in {"APPROVED", "ACTIVE", "ON_HOLD"}
      BY <1>d, <2>1, <2>2 DEF Knows, KnowsAssign, KnowsStatus, Argued, HoldsDocket,
         Inserting, WritableStatuses,
         StatusTransitions
    <2>5. docketStatus[c] = "NONE" \/ complaintStatus[c] \in DecidableStatuses
      BY <2>1, <2>2, <2>3 DEF Knows, KnowsDecide, KnowsOpen
    <2>6. QED
      BY <2>1, <2>4, <2>5 DEF DecisionFinal, DecidableStatuses
  \* So nobody waits who has locked an investigator.
  <1>4. ASSUME NEW q \in S, NEW o, StaffLock(o) \in held[q]
        PROVE  FALSE
    <2>1. PICK r \in S : q # r /\ Blocks(r, q)
      BY <1>w
    <2>2. req[q].op = "assign" /\ req[q].at \in Inserting
      BY <1>1, <1>4
    <2>3. CASE ComplaintLock(req[q].case) \in held[r]
      <3>1. DocketLock(req[q].case) \in held[q]
        BY <2>2 DEF RequestsInv, Knows, KnowsAssign, Inserting, HasDocket
      <3>2. QED
        BY <1>d, <2>2, <2>3, <3>1
    <2>4. CASE StaffLock(req[q].actor) \in held[r]
      <3>1. req[r].op = "assign" /\ req[r].target = req[q].actor
        BY <1>1, <1>h, <2>4
      <3>2. QED
        BY <3>1, <2>1, <2>2 DEF Opposed
    <2>5. QED
      BY <2>1, <2>2, <2>3, <2>4, <1>2 DEF Blocks, Inserting
  \* A docket is in the hands of an assignment that waits for its investigator.
  <1>5. ASSUME NEW q \in S, NEW c, DocketLock(c) \in held[q]
        PROVE  req[q].op = "assign" /\ req[q].at = "target" /\ req[q].case = c
    <2>1. PICK r \in S : q # r /\ Blocks(r, q)
      BY <1>w
    <2>2. c = req[q].case /\ HoldsDocket(req[q])
      BY <1>5, <1>h
    <2>3. \A o : UserLock(o) \notin held[r] /\ StaffLock(o) \notin held[r]
      BY <1>2, <1>4
    <2>4. CASE \/ req[q].op \in {"approve", "material", "note"} /\ req[q].at \in {"officer_key", "commit"}
               \/ req[q].op = "unassign" /\ req[q].at = "commit"
      BY <2>1, <2>3, <2>4 DEF Blocks
    <2>5. CASE \/ req[q].op = "assign" /\ req[q].at \in Inserting
               \/ req[q].op = "status" /\ req[q].at \in {"trigger", "commit"}
      <3>1. ComplaintLock(req[q].case) \in held[r]
        BY <2>1, <2>3, <2>5 DEF Blocks, Inserting
      <3>2. QED
        BY <1>5, <1>d, <2>2, <2>5, <3>1
    <2>6. CASE req[q].op = "assign" /\ req[q].at \in {"eligible", "busy"}
      BY <2>1, <2>6 DEF Blocks
    <2>7. QED
      BY <2>2, <2>4, <2>5, <2>6 DEF HoldsDocket
  \* So nobody waits who has locked a complaint,
  <1>6. ASSUME NEW q \in S, NEW c, ComplaintLock(c) \in held[q]
        PROVE  FALSE
    <2>1. PICK r \in S : q # r /\ Blocks(r, q)
      BY <1>w
    <2>2. c = req[q].case /\ HoldsComplaint(req[q])
          /\ \/ req[q].op \in {"approve", "material"}
             \/ req[q].op \in {"decide", "open"} /\ req[q].at = "officer_key"
      BY <1>3, <1>6, <1>h
    <2>3. /\ \A o : UserLock(o) \notin held[r] /\ StaffLock(o) \notin held[r]
          /\ ComplaintLock(req[q].case) \notin held[r]
      BY <1>2, <1>4, <1>6, <1>x, <2>1, <2>2
    <2>4. req[q].op \in {"approve", "material"} /\ DocketLock(req[q].case) \in held[r]
      BY <2>1, <2>2, <2>3 DEF Blocks, HoldsComplaint
    <2>5. QED
      BY <1>5, <2>4 DEF Opposed
  \* nor anybody who has locked a refusal, the desk officer or the key of a row,
  <1>7. ASSUME NEW q \in S,
               \/ HoldsReview(req[q]) \/ HoldsDuty(req[q])
               \/ HoldsStaffKey(req[q]) \/ HoldsAccountKey(req[q])
        PROVE  FALSE
    <2>1. PICK r \in S : Blocks(r, q)
      BY <1>w
    <2>2. \A k : UserLock(k) \notin held[r] /\ StaffLock(k) \notin held[r] /\ ComplaintLock(k) \notin held[r]
      BY <1>2, <1>4, <1>6
    <2>3. ASSUME req[q].op = "material", req[q].at \in {"scope", "docket", "officer_key", "commit"}
          PROVE  FALSE
      <3>1. ComplaintLock(req[q].case) \in held[q]
        BY <2>3 DEF RequestsInv, Knows, KnowsMaterial, HasComplaint
      <3>2. QED
        BY <1>6, <3>1
    <2>4. CASE HoldsReview(req[q]) \/ HoldsDuty(req[q])
      BY <2>1, <2>2, <2>3, <2>4 DEF HoldsReview, HoldsDuty, Blocks
    <2>5. CASE HoldsStaffKey(req[q]) \/ HoldsAccountKey(req[q])
      BY <2>1, <2>2, <2>5 DEF HoldsStaffKey, HoldsAccountKey, Blocks
    <2>6. QED
      BY <1>7, <2>4, <2>5
  \* nor an assignment with a docket.
  <1>8. ASSUME NEW q \in S, NEW c, DocketLock(c) \in held[q]
        PROVE  FALSE
    <2>1. PICK r \in S : Blocks(r, q)
      BY <1>w
    <2>2. req[q].at = "target"
      BY <1>5, <1>8
    <2>3. QED
      BY <1>4, <1>7, <1>h, <2>1, <2>2 DEF Blocks
  <1>9. ASSUME NEW q \in S PROVE FALSE
    <2>1. PICK r \in S : Blocks(r, q)
      BY <1>w
    <2>2. /\ \A t : RefusalLock(req[q].case, t) \notin held[r]
          /\ \A o : DutyLock(o) \notin held[r] /\ StaffKey(o) \notin held[r]
          /\ \A o : AccountKey(o) \notin held[r]
      BY <1>7, <1>h
    <2>3. QED
      BY <1>2, <1>4, <1>6, <1>8, <2>1, <2>2 DEF Blocks
  <1>10. QED
    BY <1>9

\* However many requests of the case handlers are open, those that wait for each
\* other in a circle include two that lock the rows of one case or one officer in
\* opposite orders: approval or case material next to an assignment or a change of
\* status, the commander's review next to an escalation queue, a change of staff
\* next to the work of that officer or to its assignment, or two assignments of
\* which one assigns the signer of the other (the with_for_update queries of
\* dockets, intake, commander_review, refusals, investigations and administration,
\* and the foreign keys of the rows each flush inserts).
THEOREM CirclesCross == Spec => []CyclesAreOpposed
  <1>1. ASSUME RequestsInv, \A p \in Request : HeldInPlace(p) PROVE CyclesAreOpposed
    <2> SUFFICES ASSUME NEW S \in SUBSET Request, Deadlocked(S), \A p, q \in S : ~Opposed(p, q)
                 PROVE  FALSE
      BY DEF CyclesAreOpposed
    <2>1. S # {} /\ \A p \in S : \E q \in S : WaitsFor(p, q)
      BY DEF Deadlocked
    <2>2. QED
      BY <1>1, <2>1, CirclesOpposed
  <1>2. QED
    BY <1>1, RequestsHold, InPlaceHolds, PTL
=============================================================================
