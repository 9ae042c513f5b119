------------------------------ MODULE CaseFile ------------------------------
(***************************************************************************)
(* What the case database promises about one complaint and the docket      *)
(* opened from it: every committed transaction of the service is one       *)
(* atomic step.  Which requests run, which rows they lock and what they    *)
(* read before locking is the business of CaseTransactions and the modules *)
(* built on it, which are checked to implement this specification.         *)
(*                                                                         *)
(* A docket is identified with its complaint: dockets.complaint_id is      *)
(* unique (app/modules/dockets/models.py:29).                              *)
(***************************************************************************)
EXTENDS Naturals, Sequences

CONSTANTS
    Complaint,      \* the complaints of a run
    Officer,        \* the officers (one user account each)
    Station,        \* the police stations, all of them active
    None,           \* no officer, no station
    Legacy,         \* complaints accepted before dockets were opened on acceptance
    Approved,       \* complaints whose docket is approved when the run starts
    InitialPosting, \* Officer -> posting, the staff accounts at the start
    NewPostings,    \* the postings the administrator may give an officer
    MaxApprovals,   \* bound on the approval decisions of a docket
    MaxHistory,     \* bound on the status-history rows of a docket
    MaxEntries      \* bound on the material entries of a case

VARIABLES
    complaintStatus, \* complaints.status, "UNREGISTERED" before the insert
    home,            \* complaints.station_id
    decisions,       \* complaint_decisions.decision in decision_sequence order
    escalation,      \* refusal_escalations.status by target, "NONE" without a row
    docketStatus,    \* dockets.status, "NONE" without a docket
    approvals,       \* docket_approvals.decision in decision_sequence order
    history,         \* docket_status_history rows in changed_at order
    assignee,        \* officer of the case_assignments row with no unassigned_at
    entries,         \* notes and statements, in insertion order
    posting          \* officers.station_id, the role of the user, is_active

complaintVars == <<complaintStatus, home, decisions, escalation>>
docketVars == <<docketStatus, approvals, history, assignee>>
fileVars == <<complaintStatus, home, decisions, escalation, docketStatus,
              approvals, history, assignee, entries, posting>>

-----------------------------------------------------------------------------
ComplaintStatuses ==
    {"UNREGISTERED", "SUBMITTED", "UNDER_REVIEW", "ACCEPTED", "REFUSED",
     "ESCALATED", "DOCKET_CREATED"}

DocketStatuses ==
    {"NONE", "PENDING_APPROVAL", "APPROVED", "ACTIVE", "ON_HOLD", "CLOSED"}

\* Mutant: a closed docket still accepts work.
WritableStatusesMutant == {"APPROVED", "ACTIVE", "ON_HOLD", "CLOSED"}

\* ARCHIVED is a legal status that no operation of the service writes.
WritableStatuses == {"APPROVED", "ACTIVE", "ON_HOLD"}

\* Mutant: a refused complaint may be decided again.
DecidableStatusesMutant == {"SUBMITTED", "UNDER_REVIEW", "REFUSED"}

DecidableStatuses == {"SUBMITTED", "UNDER_REVIEW"}

StatusTransitions ==
    {<<"ACTIVE", "ON_HOLD">>, <<"ACTIVE", "CLOSED">>,
     <<"ON_HOLD", "ACTIVE">>, <<"ON_HOLD", "CLOSED">>}

Targets == {"STATION_COMMANDER", "NCC"}

EscalationStatuses == {"NONE", "OPEN", "ACKNOWLEDGED", "RESOLVED"}

\* The three kinds of refusal reason the service tells apart.
ReasonKinds == {"ORDINARY", "ESCALATING", "NON_COMPLIANT"}

StaffRoles == {"CHARGE_OFFICER", "STATION_COMMANDER", "INVESTIGATING_OFFICER"}

Postings == [station : Station, role : StaffRoles, active : BOOLEAN]

\* A note or statement of the investigator, or material of the charge office.
EntryKinds == {"NOTE", "CASE_MATERIAL", "STATION_INTAKE"}

Entries == [by : Officer, kind : EntryKinds]

Move(from, to) == [from |-> from, to |-> to]

Moves == [from : DocketStatuses, to : DocketStatuses]

ASSUME CaseAssumption ==
    /\ None \notin Officer
    /\ None \notin Station
    /\ Legacy \subseteq Complaint
    /\ Approved \subseteq Complaint \ Legacy
    /\ InitialPosting \in [Officer -> Postings]
    /\ NewPostings \subseteq Postings
    /\ MaxApprovals \in Nat
    /\ MaxHistory \in Nat
    /\ MaxEntries \in Nat

-----------------------------------------------------------------------------
FileInit ==
    /\ complaintStatus = [c \in Complaint |->
            IF c \in Legacy THEN "ACCEPTED"
            ELSE IF c \in Approved THEN "DOCKET_CREATED" ELSE "UNREGISTERED"]
    /\ home \in [Complaint -> Station \cup {None}]
    /\ \A c \in Complaint : (home[c] = None) <=> c \notin Legacy \cup Approved
    /\ decisions = [c \in Complaint |->
            IF c \in Legacy \cup Approved THEN <<"ACCEPTED">> ELSE <<>>]
    /\ escalation = [c \in Complaint |-> [t \in Targets |-> "NONE"]]
    /\ docketStatus = [c \in Complaint |->
            IF c \in Approved THEN "APPROVED" ELSE "NONE"]
    /\ approvals = [c \in Complaint |->
            IF c \in Approved THEN <<"APPROVED">> ELSE <<>>]
    /\ history = [c \in Complaint |->
            IF c \in Approved
              THEN <<Move("NONE", "PENDING_APPROVAL"),
                     Move("PENDING_APPROVAL", "APPROVED")>>
              ELSE <<>>]
    /\ assignee = [c \in Complaint |-> None]
    /\ entries = [c \in Complaint |-> <<>>]
    /\ posting = InitialPosting

\* The inserts of complaint registration, online or at the counter.
Register(c, s) ==
    /\ complaintStatus[c] = "UNREGISTERED"
    /\ complaintStatus' = [complaintStatus EXCEPT ![c] = "SUBMITTED"]
    /\ home' = [home EXCEPT ![c] = s]
    /\ UNCHANGED <<decisions, escalation, docketVars, entries, posting>>

-----------------------------------------------------------------------------
(***************************************************************************)
(* Effects: what a handler writes once its checks have passed.  The        *)
(* transactions of the detailed modules commit the same effects.           *)
(***************************************************************************)
\* Mutant: the review writes a status the table does not know.
BeginReviewMutant(c) ==
    /\ complaintStatus' = [complaintStatus EXCEPT ![c] = "IN_REVIEW"]
    /\ UNCHANGED <<home, decisions, escalation, docketVars, entries, posting>>

BeginReview(c) ==
    /\ complaintStatus' = [complaintStatus EXCEPT ![c] = "UNDER_REVIEW"]
    /\ UNCHANGED <<home, decisions, escalation, docketVars, entries, posting>>

\* create_from_acceptance: docket, first history row and complaint status.
OpenDocket(c) ==
    /\ docketStatus' = [docketStatus EXCEPT ![c] = "PENDING_APPROVAL"]
    /\ history' = [history EXCEPT ![c] =
            Append(@, Move("NONE", "PENDING_APPROVAL"))]
    /\ complaintStatus' = [complaintStatus EXCEPT ![c] = "DOCKET_CREATED"]
    /\ UNCHANGED <<home, escalation, approvals, assignee, entries, posting>>

RecordAcceptance(c) ==
    /\ decisions' = [decisions EXCEPT ![c] = Append(@, "ACCEPTED")]
    /\ OpenDocket(c)

\* The targets a refusal for a reason of kind k is escalated to.
EscalatedTo(k) ==
    CASE k = "NON_COMPLIANT" -> Targets
      [] k = "ESCALATING" -> {"STATION_COMMANDER"}
      [] OTHER -> {}

RecordRefusal(c, k) ==
    /\ decisions' = [decisions EXCEPT ![c] = Append(@, "REFUSED")]
    /\ complaintStatus' = [complaintStatus EXCEPT ![c] =
            IF EscalatedTo(k) # {} THEN "ESCALATED" ELSE "REFUSED"]
    /\ escalation' = [escalation EXCEPT ![c] =
            [t \in Targets |-> IF t \in EscalatedTo(k) THEN "OPEN" ELSE @[t]]]
    /\ UNCHANGED <<home, docketVars, entries, posting>>

SetEscalation(c, t, new) ==
    /\ escalation' = [escalation EXCEPT ![c][t] = new]
    /\ UNCHANGED <<home, decisions, complaintStatus, docketVars, entries, posting>>

\* Mutant: the complaint is not marked as escalated.
ForwardToNCCMutant(c) ==
    /\ escalation' = [escalation EXCEPT ![c]["NCC"] = "OPEN"]
    /\ UNCHANGED <<home, decisions, complaintStatus, docketVars, entries, posting>>

ForwardToNCC(c) ==
    /\ escalation' = [escalation EXCEPT ![c]["NCC"] = "OPEN"]
    /\ complaintStatus' = [complaintStatus EXCEPT ![c] = "ESCALATED"]
    /\ UNCHANGED <<home, decisions, docketVars, entries, posting>>

\* Mutant: a return for correction opens the docket too.
RecordApprovalMutant(c, verdict) ==
    /\ approvals' = [approvals EXCEPT ![c] = Append(@, verdict)]
    /\ docketStatus' = [docketStatus EXCEPT ![c] = "APPROVED"]
    /\ history' = [history EXCEPT ![c] = Append(@, Move("PENDING_APPROVAL", "APPROVED"))]
    /\ UNCHANGED <<complaintVars, assignee, entries, posting>>

RecordApproval(c, verdict) ==
    /\ approvals' = [approvals EXCEPT ![c] = Append(@, verdict)]
    /\ IF verdict = "APPROVED"
         THEN /\ docketStatus' = [docketStatus EXCEPT ![c] = "APPROVED"]
              /\ history' = [history EXCEPT ![c] =
                    Append(@, Move("PENDING_APPROVAL", "APPROVED"))]
         ELSE UNCHANGED <<docketStatus, history>>
    /\ UNCHANGED <<complaintVars, assignee, entries, posting>>

\* InvestigationService.transition on top of the assignment rows.
Transition(c, to) ==
    /\ history' = [history EXCEPT ![c] = Append(@, Move(docketStatus[c], to))]
    /\ docketStatus' = [docketStatus EXCEPT ![c] = to]

\* Mutant: every assignment activates the docket.
RecordAssignmentAlways(c, o) ==
    /\ assignee' = [assignee EXCEPT ![c] = o]
    /\ Transition(c, "ACTIVE")
    /\ UNCHANGED <<complaintVars, approvals, entries, posting>>

RecordAssignment(c, o) ==
    /\ assignee' = [assignee EXCEPT ![c] = o]
    /\ IF docketStatus[c] = "APPROVED"
         THEN Transition(c, "ACTIVE")
         ELSE UNCHANGED <<history, docketStatus>>
    /\ UNCHANGED <<complaintVars, approvals, entries, posting>>

EndAssignment(c) ==
    /\ assignee' = [assignee EXCEPT ![c] = None]
    /\ UNCHANGED <<complaintVars, docketStatus, approvals, history, entries, posting>>

RecordStatus(c, to) ==
    /\ Transition(c, to)
    /\ UNCHANGED <<complaintVars, approvals, assignee, entries, posting>>

RecordEntry(c, o, kind) ==
    /\ entries' = [entries EXCEPT ![c] = Append(@, [by |-> o, kind |-> kind])]
    /\ UNCHANGED <<complaintVars, docketVars, posting>>

RecordPosting(o, p) ==
    /\ posting' = [posting EXCEPT ![o] = p]
    /\ UNCHANGED <<complaintVars, docketVars, entries>>

-----------------------------------------------------------------------------
(***************************************************************************)
(* The conditions the handlers check on the case itself.                   *)
(***************************************************************************)
\* Mutant: a docket on hold does not count.
BusyMutant(o) ==
    \E d \in Complaint : assignee[d] = o /\ docketStatus[d] \in {"APPROVED", "ACTIVE"}

\* busy_assignment: o holds the active assignment of an unfinished docket.
Busy(o) ==
    \E d \in Complaint : assignee[d] = o /\ docketStatus[d] # "CLOSED"

\* o may be given the docket of c: active investigator of the docket's station.
Eligible(o, c) ==
    posting[o] = [station |-> home[c], role |-> "INVESTIGATING_OFFICER", active |-> TRUE]

\* Mutant: a change of role is forgotten.
MovingMutant(o, p) == p.station # posting[o].station

\* A change of station or role, the part an open docket forbids.
Moving(o, p) == p.station # posting[o].station \/ p.role # posting[o].role

\* Mutant: the approval of the docket does not close the intake.
IntakeOpenMutant(c) ==
    complaintStatus[c] \in {"SUBMITTED", "UNDER_REVIEW", "ACCEPTED", "DOCKET_CREATED"}

\* Is the charge office still allowed to add material to the case?
IntakeOpen(c) ==
    /\ complaintStatus[c] \in {"SUBMITTED", "UNDER_REVIEW", "ACCEPTED", "DOCKET_CREATED"}
    /\ docketStatus[c] \in {"NONE", "PENDING_APPROVAL"}

\* Mutant: any registered complaint may be reviewed.
RefusedMutant(c) == complaintStatus[c] # "UNREGISTERED"

\* The complaint has a refusal to review.
Refused(c) == complaintStatus[c] \in {"REFUSED", "ESCALATED"}

-----------------------------------------------------------------------------
StartReview(c) ==
    /\ complaintStatus[c] = "SUBMITTED"
    /\ BeginReview(c)

Accept(c) ==
    /\ complaintStatus[c] \in DecidableStatuses
    /\ RecordAcceptance(c)

Refuse(c, k) ==
    /\ complaintStatus[c] \in DecidableStatuses
    /\ RecordRefusal(c, k)

\* The compatibility endpoint that opens the docket of an accepted complaint.
Open(c) ==
    /\ docketStatus[c] = "NONE"
    /\ complaintStatus[c] = "ACCEPTED"
    /\ \E i \in 1..Len(decisions[c]) : decisions[c][i] = "ACCEPTED"
    /\ OpenDocket(c)
    /\ UNCHANGED decisions

Acknowledge(c, t) ==
    /\ escalation[c][t] = "OPEN"
    /\ SetEscalation(c, t, "ACKNOWLEDGED")

Resolve(c, t) ==
    /\ escalation[c][t] \in {"OPEN", "ACKNOWLEDGED"}
    /\ SetEscalation(c, t, "RESOLVED")

\* The commander's review of any refusal, escalated by the decision or not.
CommanderAcknowledge(c) ==
    /\ Refused(c)
    /\ escalation[c]["STATION_COMMANDER"] \in {"NONE", "OPEN"}
    /\ SetEscalation(c, "STATION_COMMANDER", "ACKNOWLEDGED")

CommanderEscalate(c) ==
    /\ Refused(c)
    /\ escalation[c]["NCC"] = "NONE"
    /\ ForwardToNCC(c)

Approve(c, verdict) ==
    /\ docketStatus[c] = "PENDING_APPROVAL"
    /\ verdict \in {"APPROVED", "RETURNED_FOR_CORRECTION"}
    /\ Len(approvals[c]) < MaxApprovals
    /\ RecordApproval(c, verdict)

Assign(c, o) ==
    /\ docketStatus[c] \in WritableStatuses
    /\ Len(history[c]) < MaxHistory
    /\ assignee[c] # o
    /\ Eligible(o, c)
    /\ ~Busy(o)
    /\ RecordAssignment(c, o)

Unassign(c) ==
    /\ docketStatus[c] \in WritableStatuses
    /\ assignee[c] # None
    /\ EndAssignment(c)

\* Only the assigned investigator reaches update_status.
UpdateStatus(c, to) ==
    /\ assignee[c] # None
    /\ <<docketStatus[c], to>> \in StatusTransitions
    /\ Len(history[c]) < MaxHistory
    /\ RecordStatus(c, to)

\* A note or statement of the investigator the docket is assigned to.
WriteCase(c, kind) ==
    /\ docketStatus[c] \in WritableStatuses
    /\ assignee[c] # None
    /\ kind \in {"NOTE", "CASE_MATERIAL"}
    /\ Len(entries[c]) < MaxEntries
    /\ RecordEntry(c, assignee[c], kind)

\* Material added by a charge officer of the receiving station.
WriteIntake(c, o) ==
    /\ IntakeOpen(c)
    /\ posting[o].station = home[c]
    /\ posting[o].active
    /\ Len(entries[c]) < MaxEntries
    /\ RecordEntry(c, o, "STATION_INTAKE")

\* The administrator edits a staff account.
ChangeStaff(o, p) ==
    /\ Moving(o, p) => ~Busy(o)
    /\ RecordPosting(o, p)

FileNext ==
    \/ \E c \in Complaint :
         \/ \E s \in Station : Register(c, s)
         \/ StartReview(c)
         \/ Accept(c)
         \/ \E k \in ReasonKinds : Refuse(c, k)
         \/ Open(c)
         \/ \E t \in Targets : Acknowledge(c, t) \/ Resolve(c, t)
         \/ CommanderAcknowledge(c)
         \/ CommanderEscalate(c)
         \/ \E verdict \in {"APPROVED", "RETURNED_FOR_CORRECTION"} : Approve(c, verdict)
         \/ \E o \in Officer : Assign(c, o) \/ WriteIntake(c, o)
         \/ Unassign(c)
         \/ \E to \in DocketStatuses : UpdateStatus(c, to)
         \/ \E kind \in EntryKinds : WriteCase(c, kind)
    \/ \E o \in Officer, p \in NewPostings : ChangeStaff(o, p)

FileSpec == FileInit /\ [][FileNext]_fileVars

-----------------------------------------------------------------------------
(***************************************************************************)
(* Properties.                                                             *)
(***************************************************************************)
\* Type invariant of the case tables.
FileTypeOK ==
    /\ complaintStatus \in [Complaint -> ComplaintStatuses]
    /\ home \in [Complaint -> Station \cup {None}]
    /\ decisions \in [Complaint -> Seq({"ACCEPTED", "REFUSED"})]
    /\ escalation \in [Complaint -> [Targets -> EscalationStatuses]]
    /\ docketStatus \in [Complaint -> DocketStatuses]
    /\ approvals \in [Complaint -> Seq({"APPROVED", "RETURNED_FOR_CORRECTION"})]
    /\ history \in [Complaint -> Seq(Moves)]
    /\ assignee \in [Complaint -> Officer \cup {None}]
    /\ entries \in [Complaint -> Seq(Entries)]
    /\ posting \in [Officer -> Postings]

\* A complaint is decided at most once, although the tables number the
\* decisions of a complaint: its status and its only decision always agree,
\* and a docket exists exactly for the complaints in status DOCKET_CREATED,
\* each of which was accepted (refusals/service.py decide, the triggers
\* docket_acceptance and complaint_docket_status).
DecisionFinal ==
    \A c \in Complaint :
        /\ decisions[c] =
             CASE complaintStatus[c] \in {"UNREGISTERED", "SUBMITTED", "UNDER_REVIEW"} -> <<>>
               [] Refused(c) -> <<"REFUSED">>
               [] OTHER -> <<"ACCEPTED">>
        /\ (docketStatus[c] # "NONE") <=> (complaintStatus[c] = "DOCKET_CREATED")

\* The status history of a docket is a chain from its creation to its current
\* status, without a gap: each row starts where the one before it ended, and
\* every move is one the workflow allows.
HistoryTellsStatus ==
    \A c \in Complaint :
        /\ (history[c] = <<>>) <=> (docketStatus[c] = "NONE")
        /\ history[c] # <<>> =>
             /\ history[c][1] = Move("NONE", "PENDING_APPROVAL")
             /\ history[c][Len(history[c])].to = docketStatus[c]
             /\ \A i \in 2..Len(history[c]) :
                  /\ history[c][i].from = history[c][i - 1].to
                  /\ <<history[c][i].from, history[c][i].to>> \in
                       StatusTransitions \cup {<<"PENDING_APPROVAL", "APPROVED">>,
                                               <<"APPROVED", "ACTIVE">>}

\* A docket is open for investigation exactly when a commander approved it, the
\* approval is the last decision on it, and everything before it was a return
\* for correction.
ApprovalOpensDocket ==
    \A c \in Complaint :
        LET n == Len(approvals[c])
        IN  /\ \A i \in 1..n : approvals[c][i] = "APPROVED" => i = n
            /\ docketStatus[c] \in {"APPROVED", "ACTIVE", "ON_HOLD", "CLOSED"}
                 <=> (n > 0 /\ approvals[c][n] = "APPROVED")
            /\ docketStatus[c] = "NONE" => n = 0

\* A docket with an investigator has been started: the assignment that takes an
\* approved docket also activates it, and no later step returns it.
AssignedDocketStarted ==
    \A c \in Complaint :
        assignee[c] # None => docketStatus[c] \in {"ACTIVE", "ON_HOLD", "CLOSED"}

\* Escalations exist only for refused complaints; the complaint is ESCALATED
\* whenever the national office has the case, and only if somebody has it.
EscalationFollowsRefusal ==
    \A c \in Complaint :
        /\ ~Refused(c) => \A t \in Targets : escalation[c][t] = "NONE"
        /\ escalation[c]["NCC"] # "NONE" => complaintStatus[c] = "ESCALATED"
        /\ complaintStatus[c] = "ESCALATED" => \E t \in Targets : escalation[c][t] # "NONE"

\* No investigator holds two unfinished dockets (investigations/availability.py).
OneUnfinishedCase ==
    \A c, d \in Complaint :
        /\ assignee[c] # None /\ assignee[c] = assignee[d]
        /\ docketStatus[c] # "CLOSED" /\ docketStatus[d] # "CLOSED"
        => c = d

\* The investigator of an unfinished docket is an investigator of the docket's
\* station: neither an assignment nor an administrative change of station or
\* role may break this, in whatever order they commit.
AssigneePosted ==
    \A c \in Complaint :
        assignee[c] # None /\ docketStatus[c] # "CLOSED" =>
            /\ posting[assignee[c]].station = home[c]
            /\ posting[assignee[c]].role = "INVESTIGATING_OFFICER"

EscalationRank(s) ==
    CASE s = "NONE" -> 0 [] s = "OPEN" -> 1 [] s = "ACKNOWLEDGED" -> 2 [] s = "RESOLVED" -> 3

\* A closed docket is final: its status, its assignment and its entries never
\* change again (docs/investigation-evidence.md: closed dockets reject new
\* notes and assignments, reopening is not introduced).  A review only moves
\* forward and is never reopened or dropped (docs/decisions-dockets.md:
\* "Resolved reviews are never reopened").
NothingReopens ==
    [][/\ \A c \in Complaint :
            docketStatus[c] = "CLOSED" =>
               /\ docketStatus'[c] = "CLOSED"
               /\ assignee'[c] = assignee[c]
               /\ entries'[c] = entries[c]
               /\ history'[c] = history[c]
       /\ \A c \in Complaint, t \in Targets :
            EscalationRank(escalation[c][t]) <= EscalationRank(escalation'[c][t])]_fileVars

\* Who may write to a case follows its docket: the charge office of the
\* receiving station until the docket is approved, afterwards only the
\* investigator the docket is assigned to at that moment.
EntriesFollowDocket ==
    [][\A c \in Complaint :
          entries'[c] # entries[c] =>
             LET e == entries'[c][Len(entries'[c])]
             IN  IF e.kind = "STATION_INTAKE"
                   THEN docketStatus[c] \in {"NONE", "PENDING_APPROVAL"}
                        /\ posting[e.by].station = home[c] /\ posting[e.by].active
                   ELSE docketStatus[c] \in WritableStatuses /\ e.by = assignee[c]]_fileVars
=============================================================================
