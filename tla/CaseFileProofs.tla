--------------------------- MODULE CaseFileProofs ---------------------------
(***************************************************************************)
(* Proofs about CaseFile for every set of complaints, officers, stations   *)
(* and every value of the bounds, and that it never runs into a rule of    *)
(* the database schema (CaseSchema).                                       *)
(***************************************************************************)
EXTENDS CaseSchema, TLAPS

-----------------------------------------------------------------------------
(***************************************************************************)
(* Type correctness.                                                       *)
(***************************************************************************)
\* The status that ends a transition of the workflow is a docket status, and
\* neither end is a docket that does not exist yet.
LEMMA TransitionStatuses ==
    ASSUME NEW from, NEW to, <<from, to>> \in StatusTransitions
    PROVE  /\ from \in {"ACTIVE", "ON_HOLD"}
           /\ to \in {"ACTIVE", "ON_HOLD", "CLOSED"}
           /\ from # to
  BY DEF StatusTransitions

\* Appending a row to the table of one complaint.
LEMMA AppendTyped ==
    ASSUME NEW S, NEW f \in [Complaint -> Seq(S)], NEW c \in Complaint, NEW x \in S
    PROVE  [f EXCEPT ![c] = Append(@, x)] \in [Complaint -> Seq(S)]
  OBVIOUS

\* The rows of a table with one row more.
LEMMA AppendRows ==
    ASSUME NEW S, NEW h \in Seq(S), NEW x \in S
    PROVE  /\ Len(h) \in Nat /\ Len(Append(h, x)) = Len(h) + 1
           /\ Append(h, x)[Len(h) + 1] = x
           /\ \A i \in 1..Len(h) : Append(h, x)[i] = h[i]
  OBVIOUS

\* A row of the status history.
LEMMA MoveTyped ==
    ASSUME NEW from \in DocketStatuses, NEW to \in DocketStatuses
    PROVE  Move(from, to) \in Moves
  BY DEF Moves, Move

\* The initial case tables are well typed.
LEMMA InitTyped == FileInit => FileTypeOK
  <1> SUFFICES ASSUME FileInit PROVE FileTypeOK
    OBVIOUS
  <1> USE CaseAssumption DEF FileInit
  <1>1. complaintStatus \in [Complaint -> ComplaintStatuses]
    BY DEF ComplaintStatuses
  <1>2. home \in [Complaint -> Station \cup {None}]
    OBVIOUS
  <1>3. decisions \in [Complaint -> Seq({"ACCEPTED", "REFUSED"})]
    <2>1. <<>> \in Seq({"ACCEPTED", "REFUSED"}) /\ <<"ACCEPTED">> \in Seq({"ACCEPTED", "REFUSED"})
      OBVIOUS
    <2>2. QED
      BY <2>1
  <1>4. escalation \in [Complaint -> [Targets -> EscalationStatuses]]
    BY DEF EscalationStatuses
  <1>5. docketStatus \in [Complaint -> DocketStatuses]
    BY DEF DocketStatuses
  <1>6. approvals \in [Complaint -> Seq({"APPROVED", "RETURNED_FOR_CORRECTION"})]
    <2> DEFINE V == {"APPROVED", "RETURNED_FOR_CORRECTION"}
    <2>1. <<>> \in Seq(V) /\ <<"APPROVED">> \in Seq(V)
      OBVIOUS
    <2>2. QED
      BY <2>1
  <1>7. history \in [Complaint -> Seq(Moves)]
    <2>1. Move("NONE", "PENDING_APPROVAL") \in Moves /\ Move("PENDING_APPROVAL", "APPROVED") \in Moves
      BY DEF Moves, Move, DocketStatuses
    <2>2. /\ <<>> \in Seq(Moves)
          /\ <<Move("NONE", "PENDING_APPROVAL"), Move("PENDING_APPROVAL", "APPROVED")>> \in Seq(Moves)
      BY <2>1
    <2>3. QED
      BY <2>2
  <1>8. assignee \in [Complaint -> Officer \cup {None}]
    OBVIOUS
  <1>9. entries \in [Complaint -> Seq(Entries)]
    OBVIOUS
  <1>10. posting \in [Officer -> Postings]
    OBVIOUS
  <1>11. QED
    BY <1>1, <1>2, <1>3, <1>4, <1>5, <1>6, <1>7, <1>8, <1>9, <1>10 DEF FileTypeOK

\* Every step of the case file keeps the tables well typed.
LEMMA NextTyped == FileTypeOK /\ [FileNext]_fileVars => FileTypeOK'
  <1> SUFFICES ASSUME FileTypeOK, [FileNext]_fileVars PROVE FileTypeOK'
    OBVIOUS
  <1> USE DEF FileTypeOK, complaintVars, docketVars
  <1>1. ASSUME NEW c \in Complaint, NEW s \in Station, Register(c, s) PROVE FileTypeOK'
    BY <1>1 DEF Register, ComplaintStatuses
  <1>2. ASSUME NEW c \in Complaint, StartReview(c) PROVE FileTypeOK'
    BY <1>2 DEF StartReview, BeginReview, ComplaintStatuses
  <1>3. ASSUME NEW c \in Complaint, OpenDocket(c),
               decisions' \in [Complaint -> Seq({"ACCEPTED", "REFUSED"})]
        PROVE  FileTypeOK'
    BY <1>3 DEF OpenDocket, ComplaintStatuses, DocketStatuses, Moves, Move
  <1>4. ASSUME NEW c \in Complaint, Accept(c) PROVE FileTypeOK'
    BY <1>3, <1>4 DEF Accept, RecordAcceptance
  <1>5. ASSUME NEW c \in Complaint, NEW k \in ReasonKinds, Refuse(c, k) PROVE FileTypeOK'
    BY <1>5 DEF Refuse, RecordRefusal, ComplaintStatuses, EscalationStatuses
  <1>6. ASSUME NEW c \in Complaint, Open(c) PROVE FileTypeOK'
    BY <1>3, <1>6 DEF Open
  <1>7. ASSUME NEW c \in Complaint, NEW t \in Targets, NEW new \in EscalationStatuses,
               SetEscalation(c, t, new)
        PROVE  FileTypeOK'
    BY <1>7 DEF SetEscalation
  <1>8. ASSUME NEW c \in Complaint, NEW t \in Targets, Acknowledge(c, t) \/ Resolve(c, t)
        PROVE  FileTypeOK'
    BY <1>7, <1>8 DEF Acknowledge, Resolve, EscalationStatuses
  <1>9. ASSUME NEW c \in Complaint, CommanderAcknowledge(c) PROVE FileTypeOK'
    BY <1>7, <1>9 DEF CommanderAcknowledge, EscalationStatuses, Targets
  <1>10. ASSUME NEW c \in Complaint, CommanderEscalate(c) PROVE FileTypeOK'
    BY <1>10 DEF CommanderEscalate, ForwardToNCC, EscalationStatuses, Targets, ComplaintStatuses
  <1>11. ASSUME NEW c \in Complaint, NEW v \in {"APPROVED", "RETURNED_FOR_CORRECTION"},
                Approve(c, v)
         PROVE  FileTypeOK'
    <2>1. Move("PENDING_APPROVAL", "APPROVED") \in Moves
      BY MoveTyped DEF DocketStatuses
    <2>2. approvals' \in [Complaint -> Seq({"APPROVED", "RETURNED_FOR_CORRECTION"})]
      BY <1>11, AppendTyped DEF Approve, RecordApproval
    <2>3. docketStatus' \in [Complaint -> DocketStatuses]
      BY <1>11 DEF Approve, RecordApproval, DocketStatuses
    <2>4. history' \in [Complaint -> Seq(Moves)]
      <3> DEFINE m == Move("PENDING_APPROVAL", "APPROVED")
      <3>1. history' \in {history, [history EXCEPT ![c] = Append(@, m)]}
        BY <1>11 DEF Approve, RecordApproval
      <3>2. [history EXCEPT ![c] = Append(@, m)] \in [Complaint -> Seq(Moves)]
        BY <2>1, AppendTyped
      <3>3. QED
        BY <3>1, <3>2
    <2>5. QED
      BY <1>11, <2>2, <2>3, <2>4 DEF Approve, RecordApproval
  <1>12. ASSUME NEW c \in Complaint, NEW to \in DocketStatuses, Transition(c, to)
         PROVE  /\ history' \in [Complaint -> Seq(Moves)]
                /\ docketStatus' \in [Complaint -> DocketStatuses]
    <2>1. Move(docketStatus[c], to) \in Moves
      BY MoveTyped
    <2>2. QED
      BY <1>12, <2>1, AppendTyped DEF Transition
  <1>13. ASSUME NEW c \in Complaint, NEW o \in Officer, Assign(c, o) PROVE FileTypeOK'
    BY <1>12, <1>13 DEF Assign, RecordAssignment, DocketStatuses
  <1>14. ASSUME NEW c \in Complaint, Unassign(c) PROVE FileTypeOK'
    BY <1>14 DEF Unassign, EndAssignment
  <1>15. ASSUME NEW c \in Complaint, NEW to \in DocketStatuses, UpdateStatus(c, to)
         PROVE  FileTypeOK'
    BY <1>12, <1>15 DEF UpdateStatus, RecordStatus
  <1>16. ASSUME NEW c \in Complaint, NEW o \in Officer, NEW kind \in EntryKinds,
                RecordEntry(c, o, kind)
         PROVE  FileTypeOK'
    <2>1. [by |-> o, kind |-> kind] \in Entries
      BY DEF Entries
    <2>2. QED
      BY <1>16, <2>1, AppendTyped DEF RecordEntry
  <1>17. ASSUME NEW c \in Complaint, NEW o \in Officer, WriteIntake(c, o) PROVE FileTypeOK'
    BY <1>16, <1>17 DEF WriteIntake, EntryKinds
  <1>18. ASSUME NEW c \in Complaint, NEW kind \in EntryKinds, WriteCase(c, kind)
         PROVE  FileTypeOK'
    BY <1>16, <1>18 DEF WriteCase
  <1>19. ASSUME NEW o \in Officer, NEW p \in NewPostings, ChangeStaff(o, p) PROVE FileTypeOK'
    BY <1>19, CaseAssumption DEF ChangeStaff, RecordPosting
  <1>20. CASE UNCHANGED fileVars
    BY <1>20 DEF fileVars
  <1>21. QED
    BY <1>1, <1>2, <1>4, <1>5, <1>6, <1>8, <1>9, <1>10, <1>11, <1>13, <1>14, <1>15,
       <1>17, <1>18, <1>19, <1>20 DEF FileNext

\* The tables always hold values of their types.
THEOREM FileTyped == FileSpec => []FileTypeOK
  BY InitTyped, NextTyped, PTL DEF FileSpec

-----------------------------------------------------------------------------
(***************************************************************************)
(* A complaint is decided once.  The invariant is inductive on its own:    *)
(* the status decides which actions are possible, and it tells whether a   *)
(* decision and a docket exist.                                            *)
(***************************************************************************)
\* The steps that only work on the docket keep it in existence.
LEMMA DocketMoves ==
    ASSUME FileTypeOK, NEW c \in Complaint,
           \/ \E v \in {"APPROVED", "RETURNED_FOR_CORRECTION"} : Approve(c, v)
           \/ \E o \in Officer : Assign(c, o)
           \/ \E to \in DocketStatuses : UpdateStatus(c, to)
    PROVE  /\ UNCHANGED <<complaintStatus, decisions, escalation, home>>
           /\ docketStatus[c] # "NONE" /\ docketStatus'[c] # "NONE"
           /\ \A d \in Complaint : d # c => docketStatus'[d] = docketStatus[d]
  <1> USE DEF FileTypeOK, complaintVars
  <1>1. ASSUME NEW v \in {"APPROVED", "RETURNED_FOR_CORRECTION"}, Approve(c, v)
        PROVE  /\ UNCHANGED <<complaintStatus, decisions, escalation, home>>
               /\ docketStatus[c] # "NONE" /\ docketStatus'[c] # "NONE"
               /\ \A d \in Complaint : d # c => docketStatus'[d] = docketStatus[d]
    BY <1>1 DEF Approve, RecordApproval
  <1>2. ASSUME NEW o \in Officer, Assign(c, o)
        PROVE  /\ UNCHANGED <<complaintStatus, decisions, escalation, home>>
               /\ docketStatus[c] # "NONE" /\ docketStatus'[c] # "NONE"
               /\ \A d \in Complaint : d # c => docketStatus'[d] = docketStatus[d]
    BY <1>2 DEF Assign, RecordAssignment, Transition, WritableStatuses
  <1>3. ASSUME NEW to \in DocketStatuses, UpdateStatus(c, to)
        PROVE  /\ UNCHANGED <<complaintStatus, decisions, escalation, home>>
               /\ docketStatus[c] # "NONE" /\ docketStatus'[c] # "NONE"
               /\ \A d \in Complaint : d # c => docketStatus'[d] = docketStatus[d]
    BY <1>3, TransitionStatuses DEF UpdateStatus, RecordStatus, Transition
  <1>4. QED
    BY <1>1, <1>2, <1>3

\* Every step keeps decisions, complaint status and docket in agreement.
LEMMA DecisionStep == FileTypeOK /\ DecisionFinal /\ [FileNext]_fileVars => DecisionFinal'
  <1> SUFFICES ASSUME FileTypeOK, DecisionFinal, [FileNext]_fileVars PROVE DecisionFinal'
    OBVIOUS
  <1> USE DEF FileTypeOK, DecisionFinal, Refused, complaintVars, docketVars
  <1>1. ASSUME NEW c \in Complaint, NEW s \in Station, Register(c, s) PROVE DecisionFinal'
    BY <1>1 DEF Register
  <1>2. ASSUME NEW c \in Complaint, StartReview(c) PROVE DecisionFinal'
    BY <1>2 DEF StartReview, BeginReview
  <1>3. ASSUME NEW c \in Complaint, Accept(c) PROVE DecisionFinal'
    <2>1. complaintStatus[c] \in DecidableStatuses /\ decisions[c] = <<>>
      BY <1>3 DEF Accept, DecidableStatuses
    <2>2. decisions' = [decisions EXCEPT ![c] = <<"ACCEPTED">>]
      BY <1>3, <2>1 DEF Accept, RecordAcceptance
    <2>3. QED
      BY <1>3, <2>2 DEF Accept, RecordAcceptance, OpenDocket
  <1>4. ASSUME NEW c \in Complaint, NEW k \in ReasonKinds, Refuse(c, k) PROVE DecisionFinal'
    <2>1. complaintStatus[c] \in DecidableStatuses /\ decisions[c] = <<>>
      BY <1>4 DEF Refuse, DecidableStatuses
    <2>2. decisions' = [decisions EXCEPT ![c] = <<"REFUSED">>]
      BY <1>4, <2>1 DEF Refuse, RecordRefusal
    <2>3. docketStatus[c] = "NONE" /\ docketStatus' = docketStatus
      BY <1>4, <2>1 DEF Refuse, RecordRefusal, DecidableStatuses
    <2>4. complaintStatus' \in {[complaintStatus EXCEPT ![c] = "ESCALATED"],
                               [complaintStatus EXCEPT ![c] = "REFUSED"]}
      BY <1>4 DEF Refuse, RecordRefusal
    <2>5. QED
      BY <2>2, <2>3, <2>4
  <1>5. ASSUME NEW c \in Complaint, Open(c) PROVE DecisionFinal'
    BY <1>5 DEF Open, OpenDocket
  <1>6. ASSUME NEW c \in Complaint, CommanderEscalate(c) PROVE DecisionFinal'
    BY <1>6 DEF CommanderEscalate, ForwardToNCC
  <1>7. ASSUME NEW c \in Complaint,
               \/ \E v \in {"APPROVED", "RETURNED_FOR_CORRECTION"} : Approve(c, v)
               \/ \E o \in Officer : Assign(c, o)
               \/ \E to \in DocketStatuses : UpdateStatus(c, to)
        PROVE  DecisionFinal'
    BY <1>7, DocketMoves
  <1>8. CASE UNCHANGED <<complaintStatus, decisions, docketStatus>>
    BY <1>8
  <1>9. ASSUME NEW c \in Complaint,
               \/ \E t \in Targets : Acknowledge(c, t) \/ Resolve(c, t)
               \/ CommanderAcknowledge(c)
        PROVE  UNCHANGED <<complaintStatus, decisions, docketStatus>>
    BY <1>9 DEF Acknowledge, Resolve, CommanderAcknowledge, SetEscalation
  <1>10. ASSUME NEW c \in Complaint,
                \/ Unassign(c)
                \/ \E o \in Officer : WriteIntake(c, o)
                \/ \E kind \in EntryKinds : WriteCase(c, kind)
         PROVE  UNCHANGED <<complaintStatus, decisions, docketStatus>>
    BY <1>10 DEF Unassign, EndAssignment, WriteIntake, WriteCase, RecordEntry
  <1>11. ASSUME NEW o \in Officer, NEW p \in NewPostings, ChangeStaff(o, p)
         PROVE  UNCHANGED <<complaintStatus, decisions, docketStatus>>
    BY <1>11 DEF ChangeStaff, RecordPosting
  <1>12. CASE UNCHANGED fileVars
    BY <1>8, <1>12 DEF fileVars
  <1>13. QED
    BY <1>1, <1>2, <1>3, <1>4, <1>5, <1>6, <1>7, <1>8, <1>9, <1>10, <1>11, <1>12 DEF FileNext

\* A complaint is decided at most once, and has a docket exactly when its
\* status says so.
THEOREM DecidedOnce == FileSpec => []DecisionFinal
  <1>1. FileInit => DecisionFinal
    BY CaseAssumption DEF FileInit, DecisionFinal, Refused
  <1>2. QED
    BY <1>1, DecisionStep, FileTyped, PTL DEF FileSpec

-----------------------------------------------------------------------------
(***************************************************************************)
(* A closed docket is final.                                               *)
(***************************************************************************)
\* What a step may do to a docket: open it, approve it, give it to an
\* investigator, move it along the workflow, or leave it alone.
LEMMA DocketStep ==
    ASSUME FileTypeOK, DecisionFinal, [FileNext]_fileVars, NEW c \in Complaint
    PROVE  \/ /\ UNCHANGED <<docketStatus[c], assignee[c], history[c]>>
           \/ /\ docketStatus[c] = "NONE" /\ docketStatus'[c] = "PENDING_APPROVAL"
              /\ assignee'[c] = assignee[c]
              /\ history'[c] = Append(history[c], Move("NONE", "PENDING_APPROVAL"))
           \/ /\ Approve(c, "APPROVED")
              /\ docketStatus[c] = "PENDING_APPROVAL" /\ docketStatus'[c] = "APPROVED"
              /\ assignee'[c] = assignee[c]
              /\ history'[c] = Append(history[c], Move("PENDING_APPROVAL", "APPROVED"))
           \/ \E o \in Officer : Assign(c, o)
           \/ Unassign(c)
           \/ \E to \in DocketStatuses : UpdateStatus(c, to)
  <1> DEFINE Kept(d) == UNCHANGED <<docketStatus[d], assignee[d], history[d]>>
             Opened(d) == /\ docketStatus[d] = "NONE" /\ docketStatus'[d] = "PENDING_APPROVAL"
                          /\ assignee'[d] = assignee[d]
                          /\ history'[d] = Append(history[d], Move("NONE", "PENDING_APPROVAL"))
             Approved1(d) == /\ Approve(d, "APPROVED")
                             /\ docketStatus[d] = "PENDING_APPROVAL"
                             /\ docketStatus'[d] = "APPROVED"
                             /\ assignee'[d] = assignee[d]
                             /\ history'[d] = Append(history[d], Move("PENDING_APPROVAL", "APPROVED"))
  <1> USE DEF FileTypeOK, complaintVars, docketVars
  <1>1. CASE UNCHANGED <<docketStatus, assignee, history>>
    BY <1>1
  <1>2. ASSUME NEW d \in Complaint,
               \/ \E s \in Station : Register(d, s)
               \/ StartReview(d)
               \/ \E k \in ReasonKinds : Refuse(d, k)
               \/ \E t \in Targets : Acknowledge(d, t) \/ Resolve(d, t)
               \/ CommanderAcknowledge(d)
               \/ CommanderEscalate(d)
               \/ \E o \in Officer : WriteIntake(d, o)
               \/ \E kind \in EntryKinds : WriteCase(d, kind)
        PROVE  UNCHANGED <<docketStatus, assignee, history>>
    BY <1>2 DEF Register, StartReview, BeginReview, Refuse, RecordRefusal, Acknowledge, Resolve,
                CommanderAcknowledge, SetEscalation, CommanderEscalate, ForwardToNCC,
                WriteIntake, WriteCase, RecordEntry
  <1>3. ASSUME NEW d \in Complaint, Accept(d) \/ Open(d) PROVE Kept(c) \/ Opened(c)
    <2>1. docketStatus[d] = "NONE"
      BY <1>3 DEF Accept, Open, DecidableStatuses, DecisionFinal
    <2>2. QED
      BY <1>3, <2>1 DEF Accept, RecordAcceptance, Open, OpenDocket
  <1>4. ASSUME NEW d \in Complaint, NEW v \in {"APPROVED", "RETURNED_FOR_CORRECTION"},
               Approve(d, v)
        PROVE  Kept(c) \/ Approved1(c)
    BY <1>4 DEF Approve, RecordApproval
  <1>5. ASSUME NEW d \in Complaint, d # c,
               \/ \E o \in Officer : Assign(d, o)
               \/ Unassign(d)
               \/ \E to \in DocketStatuses : UpdateStatus(d, to)
        PROVE  Kept(c)
    BY <1>5 DEF Assign, RecordAssignment, Transition, Unassign, EndAssignment,
                UpdateStatus, RecordStatus
  <1>6. ASSUME NEW o \in Officer, NEW p \in NewPostings, ChangeStaff(o, p)
        PROVE  UNCHANGED <<docketStatus, assignee, history>>
    BY <1>6 DEF ChangeStaff, RecordPosting
  <1>7. CASE UNCHANGED fileVars
    BY <1>1, <1>7 DEF fileVars
  <1>8. QED
    BY <1>1, <1>2, <1>3, <1>4, <1>5, <1>6, <1>7 DEF FileNext

\* Entries are added by the charge office and by the investigator only.
LEMMA EntryStep ==
    ASSUME [FileNext]_fileVars
    PROVE  \/ entries' = entries
           \/ \E c \in Complaint, o \in Officer : WriteIntake(c, o)
           \/ \E c \in Complaint, kind \in EntryKinds : WriteCase(c, kind)
  <1> USE DEF complaintVars, docketVars
  <1>1. ASSUME NEW d \in Complaint,
               \/ \E s \in Station : Register(d, s)
               \/ StartReview(d)
               \/ \E k \in ReasonKinds : Refuse(d, k)
               \/ \E t \in Targets : Acknowledge(d, t) \/ Resolve(d, t)
               \/ CommanderAcknowledge(d)
               \/ CommanderEscalate(d)
        PROVE  entries' = entries
    BY <1>1 DEF Register, StartReview, BeginReview, Refuse, RecordRefusal, Acknowledge, Resolve,
                CommanderAcknowledge, SetEscalation, CommanderEscalate, ForwardToNCC
  <1>2. ASSUME NEW d \in Complaint,
               \/ Accept(d) \/ Open(d) \/ Unassign(d)
               \/ \E v \in {"APPROVED", "RETURNED_FOR_CORRECTION"} : Approve(d, v)
               \/ \E o \in Officer : Assign(d, o)
               \/ \E to \in DocketStatuses : UpdateStatus(d, to)
        PROVE  entries' = entries
    BY <1>2 DEF Accept, RecordAcceptance, Open, OpenDocket, Unassign, EndAssignment, Approve,
                RecordApproval, Assign, RecordAssignment, UpdateStatus, RecordStatus
  <1>3. ASSUME NEW o \in Officer, NEW p \in NewPostings, ChangeStaff(o, p)
        PROVE  entries' = entries
    BY <1>3 DEF ChangeStaff, RecordPosting
  <1>4. CASE UNCHANGED fileVars
    BY <1>4 DEF fileVars
  <1>5. QED
    BY <1>1, <1>2, <1>3, <1>4 DEF FileNext

\* Nothing about a closed docket changes: status, assignment, status history and
\* entries stay as they are.
LEMMA ClosedStays ==
    ASSUME FileTypeOK, DecisionFinal, [FileNext]_fileVars,
           NEW c \in Complaint, docketStatus[c] = "CLOSED"
    PROVE  /\ docketStatus'[c] = "CLOSED"
           /\ assignee'[c] = assignee[c]
           /\ entries'[c] = entries[c]
           /\ history'[c] = history[c]
  <1>1. ~ \E o \in Officer : Assign(c, o)
    BY DEF Assign, WritableStatuses
  <1>2. ~ Unassign(c)
    BY DEF Unassign, WritableStatuses
  <1>3. ~ \E to \in DocketStatuses : UpdateStatus(c, to)
    BY DEF UpdateStatus, StatusTransitions
  <1>4. entries'[c] = entries[c]
    BY EntryStep DEF WriteIntake, IntakeOpen, WriteCase, WritableStatuses, RecordEntry, FileTypeOK
  <1>5. QED
    BY <1>1, <1>2, <1>3, <1>4, DocketStep

\* Whoever adds an entry is, at that moment, in charge of the case: the receiving
\* station until approval, then the investigator the docket is assigned to.
THEOREM EntriesInCharge == FileSpec => EntriesFollowDocket
  <1> DEFINE InCharge(c, e) ==
               IF e.kind = "STATION_INTAKE"
                 THEN /\ docketStatus[c] \in {"NONE", "PENDING_APPROVAL"}
                      /\ posting[e.by].station = home[c] /\ posting[e.by].active
                 ELSE docketStatus[c] \in WritableStatuses /\ e.by = assignee[c]
             Last(c) == entries'[c][Len(entries'[c])]
             Allowed ==
               \A c \in Complaint :
                 entries'[c] # entries[c] =>
                    LET e == entries'[c][Len(entries'[c])]
                    IN  IF e.kind = "STATION_INTAKE"
                          THEN docketStatus[c] \in {"NONE", "PENDING_APPROVAL"}
                               /\ posting[e.by].station = home[c] /\ posting[e.by].active
                          ELSE docketStatus[c] \in WritableStatuses /\ e.by = assignee[c]
  <1>1. ASSUME FileTypeOK, NEW d \in Complaint, NEW o \in Officer, NEW kind \in EntryKinds,
               RecordEntry(d, o, kind)
        PROVE  /\ \A c \in Complaint : c # d => entries'[c] = entries[c]
               /\ Last(d) = [by |-> o, kind |-> kind]
    <2>1. [by |-> o, kind |-> kind] \in Entries /\ entries[d] \in Seq(Entries)
      BY <1>1 DEF Entries, FileTypeOK
    <2>2. entries' = [entries EXCEPT ![d] = Append(@, [by |-> o, kind |-> kind])]
      BY <1>1 DEF RecordEntry
    <2>3. entries'[d] = Append(entries[d], [by |-> o, kind |-> kind])
      BY <2>2, <1>1 DEF FileTypeOK
    <2>4. QED
      BY <2>1, <2>2, <2>3, AppendRows, <1>1 DEF FileTypeOK
  <1>2. ASSUME FileTypeOK, NEW d \in Complaint, NEW o \in Officer, WriteIntake(d, o)
        PROVE  Allowed
    <2>1. Last(d) = [by |-> o, kind |-> "STATION_INTAKE"]
      BY <1>1, <1>2 DEF WriteIntake, EntryKinds
    <2>2. InCharge(d, [by |-> o, kind |-> "STATION_INTAKE"])
      BY <1>2 DEF WriteIntake, IntakeOpen
    <2>3. \A c \in Complaint : c # d => entries'[c] = entries[c]
      BY <1>1, <1>2 DEF WriteIntake, EntryKinds
    <2>4. QED
      BY <2>1, <2>2, <2>3
  <1>3. ASSUME FileTypeOK, NEW d \in Complaint, NEW kind \in EntryKinds, WriteCase(d, kind)
        PROVE  Allowed
    <2> DEFINE o == assignee[d]
    <2>1. o \in Officer /\ kind # "STATION_INTAKE" /\ RecordEntry(d, o, kind)
      BY <1>3 DEF WriteCase, FileTypeOK
    <2>2. /\ Last(d) = [by |-> o, kind |-> kind]
          /\ \A c \in Complaint : c # d => entries'[c] = entries[c]
      BY <1>1, <1>3, <2>1
    <2>3. InCharge(d, [by |-> o, kind |-> kind])
      BY <1>3, <2>1 DEF WriteCase
    <2>4. QED
      BY <2>2, <2>3
  <1>4. FileTypeOK /\ [FileNext]_fileVars => [Allowed]_fileVars
    BY <1>2, <1>3, EntryStep
  <1>5. QED
    BY <1>4, FileTyped, PTL DEF FileSpec, EntriesFollowDocket

-----------------------------------------------------------------------------
(***************************************************************************)
(* Assignments.  The invariant that carries the two results below: an      *)
(* assigned docket has been started, so that opening or approving a docket *)
(* never concerns one that somebody works on.                              *)
(***************************************************************************)
\* A docket that has an investigator has been approved and activated.
THEOREM AssignedStarted == FileSpec => []AssignedDocketStarted
  <1>1. FileInit => AssignedDocketStarted
    BY DEF FileInit, AssignedDocketStarted
  <1>2. FileTypeOK /\ DecisionFinal /\ AssignedDocketStarted /\ [FileNext]_fileVars
          => AssignedDocketStarted'
    <2> SUFFICES ASSUME FileTypeOK, DecisionFinal, AssignedDocketStarted, [FileNext]_fileVars,
                        NEW c \in Complaint, assignee'[c] # None
                 PROVE  docketStatus'[c] \in {"ACTIVE", "ON_HOLD", "CLOSED"}
      BY DEF AssignedDocketStarted
    <2> USE DEF FileTypeOK
    <2>1. ASSUME NEW o \in Officer, Assign(c, o)
          PROVE  docketStatus'[c] \in {"ACTIVE", "ON_HOLD", "CLOSED"}
      BY <2>1 DEF Assign, RecordAssignment, Transition, WritableStatuses
    <2>2. CASE Unassign(c)
      BY <2>2 DEF Unassign, EndAssignment
    <2>3. ASSUME NEW to \in DocketStatuses, UpdateStatus(c, to)
          PROVE  docketStatus'[c] \in {"ACTIVE", "ON_HOLD", "CLOSED"}
      BY <2>3, TransitionStatuses DEF UpdateStatus, RecordStatus, Transition
    <2>4. QED
      BY <2>1, <2>2, <2>3, DocketStep DEF AssignedDocketStarted
  <1>3. QED
    BY <1>1, <1>2, FileTyped, DecidedOnce, PTL DEF FileSpec

\* Whoever holds an unfinished docket after a step held it before, or has just
\* been assigned to it.
LEMMA HolderStep ==
    ASSUME FileTypeOK, DecisionFinal, AssignedDocketStarted, [FileNext]_fileVars,
           NEW c \in Complaint, assignee'[c] # None, docketStatus'[c] # "CLOSED"
    PROVE  \/ assignee[c] = assignee'[c] /\ docketStatus[c] # "CLOSED"
           \/ \E o \in Officer : o = assignee'[c] /\ Assign(c, o)
  <1> USE DEF FileTypeOK
  <1>1. ASSUME NEW o \in Officer, Assign(c, o) PROVE o = assignee'[c]
    BY <1>1 DEF Assign, RecordAssignment
  <1>2. ~ Unassign(c)
    BY DEF Unassign, EndAssignment
  <1>3. ASSUME NEW to \in DocketStatuses, UpdateStatus(c, to)
        PROVE  assignee[c] = assignee'[c] /\ docketStatus[c] # "CLOSED"
    BY <1>3, TransitionStatuses DEF UpdateStatus, RecordStatus
  <1>4. QED
    BY <1>1, <1>2, <1>3, DocketStep

\* An assignment leaves every other docket, every case's station and every
\* posting alone.
LEMMA AssignAlone ==
    ASSUME FileTypeOK, NEW c \in Complaint, NEW o \in Officer, Assign(c, o)
    PROVE  /\ home' = home /\ posting' = posting
           /\ \A d \in Complaint \ {c} :
                assignee'[d] = assignee[d] /\ docketStatus'[d] = docketStatus[d]
  BY DEF FileTypeOK, Assign, RecordAssignment, Transition, complaintVars

\* No investigator ever holds two unfinished dockets.
THEOREM OneCase == FileSpec => []OneUnfinishedCase
  <1>1. FileInit => OneUnfinishedCase
    BY DEF FileInit, OneUnfinishedCase
  <1>2. FileTypeOK /\ DecisionFinal /\ AssignedDocketStarted /\ OneUnfinishedCase
          /\ [FileNext]_fileVars => OneUnfinishedCase'
    <2> SUFFICES ASSUME FileTypeOK, DecisionFinal, AssignedDocketStarted, OneUnfinishedCase,
                        [FileNext]_fileVars,
                        NEW c \in Complaint, NEW d \in Complaint, c # d,
                        assignee'[c] # None, assignee'[c] = assignee'[d],
                        docketStatus'[c] # "CLOSED", docketStatus'[d] # "CLOSED"
                 PROVE  FALSE
      BY DEF OneUnfinishedCase
    <2>1. \A e \in {c, d} :
            \/ assignee[e] = assignee'[e] /\ docketStatus[e] # "CLOSED"
            \/ \E o \in Officer : o = assignee'[e] /\ Assign(e, o)
      BY HolderStep
    <2>2. ASSUME NEW e \in Complaint, NEW f \in Complaint, e # f,
                 assignee'[e] = assignee'[f], docketStatus'[f] # "CLOSED",
                 NEW o \in Officer, o = assignee'[e], Assign(e, o)
          PROVE  FALSE
      <3>1. assignee[f] = o /\ docketStatus[f] # "CLOSED"
        BY <2>2, AssignAlone
      <3>2. ~ Busy(o)
        BY <2>2 DEF Assign
      <3>3. QED
        BY <3>1, <3>2 DEF Busy
    <2>3. QED
      BY <2>1, <2>2 DEF OneUnfinishedCase
  <1>3. QED
    BY <1>1, <1>2, FileTyped, DecidedOnce, AssignedStarted, PTL DEF FileSpec

\* The station of a case and the postings of the officers change only by a
\* registration and by the administrator.
LEMMA PostingStep ==
    ASSUME FileTypeOK, [FileNext]_fileVars
    PROVE  \/ home' = home /\ posting' = posting
           \/ \E c \in Complaint, s \in Station : Register(c, s)
           \/ \E o \in Officer, p \in NewPostings : ChangeStaff(o, p)
  <1> USE DEF complaintVars, docketVars
  <1>1. ASSUME NEW c \in Complaint,
               \/ StartReview(c) \/ Accept(c) \/ Open(c)
               \/ \E k \in ReasonKinds : Refuse(c, k)
               \/ \E t \in Targets : Acknowledge(c, t) \/ Resolve(c, t)
               \/ CommanderAcknowledge(c)
               \/ CommanderEscalate(c)
        PROVE  home' = home /\ posting' = posting
    BY <1>1 DEF StartReview, BeginReview, Accept, RecordAcceptance, Open, OpenDocket, Refuse,
                RecordRefusal, Acknowledge, Resolve, CommanderAcknowledge, SetEscalation,
                CommanderEscalate, ForwardToNCC
  <1>2. ASSUME NEW c \in Complaint,
               \/ \E v \in {"APPROVED", "RETURNED_FOR_CORRECTION"} : Approve(c, v)
               \/ \E o \in Officer : Assign(c, o) \/ WriteIntake(c, o)
               \/ Unassign(c)
               \/ \E to \in DocketStatuses : UpdateStatus(c, to)
               \/ \E kind \in EntryKinds : WriteCase(c, kind)
        PROVE  home' = home /\ posting' = posting
    BY <1>2 DEF Approve, RecordApproval, Assign, RecordAssignment, WriteIntake, RecordEntry,
                Unassign, EndAssignment, UpdateStatus, RecordStatus, WriteCase
  <1>3. CASE UNCHANGED fileVars
    BY <1>3 DEF fileVars
  <1>4. QED
    BY <1>1, <1>2, <1>3 DEF FileNext

\* The investigator of an unfinished docket always is an investigator of the
\* docket's station.
THEOREM AssigneeAtStation == FileSpec => []AssigneePosted
  <1>1. FileInit => AssigneePosted
    BY DEF FileInit, AssigneePosted
  <1>2. FileTypeOK /\ DecisionFinal /\ AssignedDocketStarted /\ AssigneePosted
          /\ [FileNext]_fileVars => AssigneePosted'
    <2> SUFFICES ASSUME FileTypeOK, DecisionFinal, AssignedDocketStarted, AssigneePosted,
                        [FileNext]_fileVars,
                        NEW c \in Complaint, assignee'[c] # None, docketStatus'[c] # "CLOSED"
                 PROVE  /\ posting'[assignee'[c]].station = home'[c]
                        /\ posting'[assignee'[c]].role = "INVESTIGATING_OFFICER"
      BY DEF AssigneePosted
    <2> USE DEF FileTypeOK
    <2>1. ASSUME NEW o \in Officer, o = assignee'[c], Assign(c, o)
          PROVE  /\ posting'[o].station = home'[c]
                 /\ posting'[o].role = "INVESTIGATING_OFFICER"
      <3>1. posting[o] = [station |-> home[c], role |-> "INVESTIGATING_OFFICER", active |-> TRUE]
        BY <2>1 DEF Assign, Eligible
      <3>2. QED
        BY <2>1, <3>1, AssignAlone
    <2>2. CASE assignee[c] = assignee'[c] /\ docketStatus[c] # "CLOSED"
      <3> DEFINE o == assignee[c]
      <3>1. /\ o \in Officer /\ o = assignee'[c]
            /\ posting[o].station = home[c]
            /\ posting[o].role = "INVESTIGATING_OFFICER"
        BY <2>2 DEF AssigneePosted
      <3>2. ASSUME NEW d \in Complaint, NEW s \in Station, Register(d, s)
            PROVE  home'[c] = home[c] /\ posting' = posting
        <4>1. docketStatus[d] = "NONE"
          BY <3>2 DEF Register, DecisionFinal
        <4>2. d # c
          BY <4>1, <3>1, CaseAssumption DEF AssignedDocketStarted
        <4>3. QED
          BY <3>2, <4>2 DEF Register
      <3>3. ASSUME NEW q \in Officer, NEW p \in NewPostings, ChangeStaff(q, p)
            PROVE  /\ home' = home
                   /\ posting'[o].station = posting[o].station
                   /\ posting'[o].role = posting[o].role
        <4>1. home' = home /\ posting' = [posting EXCEPT ![q] = p]
          BY <3>3 DEF ChangeStaff, RecordPosting, complaintVars
        <4>2. CASE q = o
          <5>1. Busy(q)
            BY <4>2, <2>2 DEF Busy
          <5>2. p.station = posting[q].station /\ p.role = posting[q].role
            BY <3>3, <5>1 DEF ChangeStaff, Moving
          <5>3. QED
            BY <4>1, <4>2, <5>2, <3>1
        <4>3. CASE q # o
          BY <4>1, <4>3, <3>1
        <4>4. QED
          BY <4>2, <4>3
      <3>4. QED
        BY <3>1, <3>2, <3>3, PostingStep
    <2>3. QED
      BY <2>1, <2>2, HolderStep
  <1>3. QED
    BY <1>1, <1>2, FileTyped, DecidedOnce, AssignedStarted, PTL DEF FileSpec

-----------------------------------------------------------------------------
(***************************************************************************)
(* Approval.                                                               *)
(***************************************************************************)
\* Only a decision of the commander on a pending docket adds an approval row.
LEMMA ApprovalStep ==
    ASSUME FileTypeOK, [FileNext]_fileVars, NEW c \in Complaint
    PROVE  \/ approvals'[c] = approvals[c]
           \/ \E v \in {"APPROVED", "RETURNED_FOR_CORRECTION"} : Approve(c, v)
  <1> USE DEF complaintVars, docketVars
  <1>1. ASSUME NEW d \in Complaint,
               \/ \E s \in Station : Register(d, s)
               \/ StartReview(d) \/ Accept(d) \/ Open(d)
               \/ \E k \in ReasonKinds : Refuse(d, k)
               \/ \E t \in Targets : Acknowledge(d, t) \/ Resolve(d, t)
               \/ CommanderAcknowledge(d)
               \/ CommanderEscalate(d)
        PROVE  approvals' = approvals
    BY <1>1 DEF Register, StartReview, BeginReview, Accept, RecordAcceptance, Open, OpenDocket,
                Refuse, RecordRefusal, Acknowledge, Resolve, CommanderAcknowledge, SetEscalation,
                CommanderEscalate, ForwardToNCC
  <1>2. ASSUME NEW d \in Complaint,
               \/ \E o \in Officer : Assign(d, o) \/ WriteIntake(d, o)
               \/ Unassign(d)
               \/ \E to \in DocketStatuses : UpdateStatus(d, to)
               \/ \E kind \in EntryKinds : WriteCase(d, kind)
        PROVE  approvals' = approvals
    BY <1>2 DEF Assign, RecordAssignment, WriteIntake, RecordEntry, Unassign, EndAssignment,
                UpdateStatus, RecordStatus, WriteCase
  <1>3. ASSUME NEW d \in Complaint, d # c, NEW v \in {"APPROVED", "RETURNED_FOR_CORRECTION"},
               Approve(d, v)
        PROVE  approvals'[c] = approvals[c]
    BY <1>3 DEF Approve, RecordApproval, FileTypeOK
  <1>4. ASSUME NEW o \in Officer, NEW p \in NewPostings, ChangeStaff(o, p)
        PROVE  approvals' = approvals
    BY <1>4 DEF ChangeStaff, RecordPosting
  <1>5. CASE UNCHANGED fileVars
    BY <1>5 DEF fileVars
  <1>6. QED
    BY <1>1, <1>2, <1>3, <1>4, <1>5 DEF FileNext

\* A docket is open for investigation exactly when the last decision on it
\* approved it.
THEOREM ApprovedOpens == FileSpec => []ApprovalOpensDocket
  <1>1. FileInit => ApprovalOpensDocket
    <2> SUFFICES ASSUME FileInit, NEW c \in Complaint
                 PROVE  LET n == Len(approvals[c])
                        IN  /\ \A i \in 1..n : approvals[c][i] = "APPROVED" => i = n
                            /\ docketStatus[c] \in {"APPROVED", "ACTIVE", "ON_HOLD", "CLOSED"}
                                 <=> (n > 0 /\ approvals[c][n] = "APPROVED")
                            /\ docketStatus[c] = "NONE" => n = 0
      BY DEF ApprovalOpensDocket
    <2>1. CASE c \in Approved
      <3>1. approvals[c] = <<"APPROVED">> /\ docketStatus[c] = "APPROVED"
        BY <2>1 DEF FileInit
      <3>2. QED
        BY <3>1
    <2>2. CASE c \notin Approved
      <3>1. approvals[c] = <<>> /\ docketStatus[c] = "NONE"
        BY <2>2 DEF FileInit
      <3>2. QED
        BY <3>1
    <2>3. QED
      BY <2>1, <2>2
  <1>2. FileTypeOK /\ DecisionFinal /\ ApprovalOpensDocket /\ [FileNext]_fileVars
          => ApprovalOpensDocket'
    <2> DEFINE OpenStatuses == {"APPROVED", "ACTIVE", "ON_HOLD", "CLOSED"}
               V == {"APPROVED", "RETURNED_FOR_CORRECTION"}
               Fits(a, d) == /\ \A i \in 1..Len(a) : a[i] = "APPROVED" => i = Len(a)
                             /\ d \in OpenStatuses <=> (Len(a) > 0 /\ a[Len(a)] = "APPROVED")
                             /\ d = "NONE" => Len(a) = 0
    <2> SUFFICES ASSUME FileTypeOK, DecisionFinal, ApprovalOpensDocket, [FileNext]_fileVars,
                        NEW c \in Complaint
                 PROVE  Fits(approvals'[c], docketStatus'[c])
      BY DEF ApprovalOpensDocket
    <2>1. approvals[c] \in Seq(V) /\ Fits(approvals[c], docketStatus[c])
      BY DEF ApprovalOpensDocket, FileTypeOK
    <2>2. ASSUME NEW v \in V, Approve(c, v)
          PROVE  Fits(approvals'[c], docketStatus'[c])
      <3> DEFINE a == approvals[c]
                 n == Len(a)
      <3>1. /\ approvals'[c] = Append(a, v)
            /\ docketStatus[c] = "PENDING_APPROVAL"
            /\ docketStatus'[c] = IF v = "APPROVED" THEN "APPROVED" ELSE "PENDING_APPROVAL"
        BY <2>2 DEF Approve, RecordApproval, FileTypeOK
      <3>2. n \in Nat /\ \A i \in 1..n : a[i] # "APPROVED"
        BY <2>1, <3>1
      <3>3. /\ Len(approvals'[c]) = n + 1
            /\ \A i \in 1..n : approvals'[c][i] = a[i]
            /\ approvals'[c][n + 1] = v
        BY <2>1, <3>1
      <3>4. QED
        BY <3>1, <3>2, <3>3
    <2>3. CASE approvals'[c] = approvals[c] /\ ~ \E v \in V : Approve(c, v)
      <3>1. \/ docketStatus'[c] = docketStatus[c]
            \/ docketStatus[c] = "NONE" /\ docketStatus'[c] = "PENDING_APPROVAL"
            \/ docketStatus[c] \in OpenStatuses /\ docketStatus'[c] \in OpenStatuses
        <4>1. ASSUME NEW o \in Officer, Assign(c, o)
              PROVE  docketStatus[c] \in OpenStatuses /\ docketStatus'[c] \in OpenStatuses
          BY <4>1 DEF Assign, RecordAssignment, Transition, WritableStatuses, FileTypeOK
        <4>2. ASSUME Unassign(c) PROVE docketStatus'[c] = docketStatus[c]
          BY <4>2 DEF Unassign, EndAssignment
        <4>3. ASSUME NEW to \in DocketStatuses, UpdateStatus(c, to)
              PROVE  docketStatus[c] \in OpenStatuses /\ docketStatus'[c] \in OpenStatuses
          BY <4>3, TransitionStatuses DEF UpdateStatus, RecordStatus, Transition, FileTypeOK
        <4>4. QED
          BY <4>1, <4>2, <4>3, <2>3, DocketStep
      <3>2. QED
        BY <2>1, <2>3, <3>1
    <2>4. QED
      BY <2>2, <2>3, ApprovalStep
  <1>3. QED
    BY <1>1, <1>2, FileTyped, DecidedOnce, PTL DEF FileSpec

-----------------------------------------------------------------------------
(***************************************************************************)
(* The status history.                                                     *)
(***************************************************************************)
\* Every change of a docket's status adds the row that describes it, and
\* nothing else adds one.
LEMMA HistoryStep ==
    ASSUME FileTypeOK, DecisionFinal, [FileNext]_fileVars, NEW c \in Complaint
    PROVE  \/ UNCHANGED <<docketStatus[c], history[c]>>
           \/ /\ history'[c] = Append(history[c], Move(docketStatus[c], docketStatus'[c]))
              /\ <<docketStatus[c], docketStatus'[c]>> \in
                   StatusTransitions \cup {<<"NONE", "PENDING_APPROVAL">>,
                                           <<"PENDING_APPROVAL", "APPROVED">>,
                                           <<"APPROVED", "ACTIVE">>}
  <1> USE DEF FileTypeOK
  <1>1. ASSUME NEW o \in Officer, Assign(c, o)
        PROVE  \/ UNCHANGED <<docketStatus[c], history[c]>>
               \/ /\ history'[c] = Append(history[c], Move(docketStatus[c], docketStatus'[c]))
                  /\ <<docketStatus[c], docketStatus'[c]>> = <<"APPROVED", "ACTIVE">>
    BY <1>1 DEF Assign, RecordAssignment, Transition
  <1>2. ASSUME Unassign(c) PROVE UNCHANGED <<docketStatus[c], history[c]>>
    BY <1>2 DEF Unassign, EndAssignment
  <1>3. ASSUME NEW to \in DocketStatuses, UpdateStatus(c, to)
        PROVE  /\ history'[c] = Append(history[c], Move(docketStatus[c], docketStatus'[c]))
               /\ <<docketStatus[c], docketStatus'[c]>> \in StatusTransitions
    BY <1>3 DEF UpdateStatus, RecordStatus, Transition
  <1>4. QED
    BY <1>1, <1>2, <1>3, DocketStep

\* The rows of a status history form a chain from the creation of the docket to
\* its current status, along moves of the workflow only.
THEOREM HistoryChain == FileSpec => []HistoryTellsStatus
  <1> DEFINE Legal == StatusTransitions \cup {<<"PENDING_APPROVAL", "APPROVED">>,
                                              <<"APPROVED", "ACTIVE">>}
             Created == Move("NONE", "PENDING_APPROVAL")
             Chain(h, d) == /\ (h = <<>>) <=> (d = "NONE")
                            /\ h # <<>> =>
                                 /\ h[1] = Created
                                 /\ h[Len(h)].to = d
                                 /\ \A i \in 2..Len(h) :
                                      /\ h[i].from = h[i - 1].to
                                      /\ <<h[i].from, h[i].to>> \in Legal
  <1>1. FileInit => HistoryTellsStatus
    <2> SUFFICES ASSUME FileInit, NEW c \in Complaint
                 PROVE  Chain(history[c], docketStatus[c])
      BY DEF HistoryTellsStatus
    <2>1. CASE c \in Approved
      <3> DEFINE h == <<Created, Move("PENDING_APPROVAL", "APPROVED")>>
      <3>1. history[c] = h /\ docketStatus[c] = "APPROVED"
        BY <2>1 DEF FileInit
      <3>2. Len(h) = 2 /\ h[1] = Created /\ h[2] = Move("PENDING_APPROVAL", "APPROVED")
        OBVIOUS
      <3>3. QED
        BY <3>1, <3>2 DEF Move
    <2>2. CASE c \notin Approved
      BY <2>2 DEF FileInit
    <2>3. QED
      BY <2>1, <2>2
  <1>2. FileTypeOK /\ DecisionFinal /\ HistoryTellsStatus /\ [FileNext]_fileVars
          => HistoryTellsStatus'
    <2> SUFFICES ASSUME FileTypeOK, DecisionFinal, HistoryTellsStatus, [FileNext]_fileVars,
                        NEW c \in Complaint
                 PROVE  Chain(history'[c], docketStatus'[c])
      BY DEF HistoryTellsStatus
    <2> DEFINE h == history[c]
               from == docketStatus[c]
               to == docketStatus'[c]
    <2>1. h \in Seq(Moves) /\ Chain(h, from)
      BY DEF HistoryTellsStatus, FileTypeOK
    <2>2. CASE UNCHANGED <<docketStatus[c], history[c]>>
      BY <2>1, <2>2
    <2>3. CASE /\ history'[c] = Append(h, Move(from, to))
               /\ <<from, to>> \in Legal \cup {<<"NONE", "PENDING_APPROVAL">>}
      <3> DEFINE g == history'[c]
                 n == Len(h)
      <3>1. /\ n \in Nat /\ Len(g) = n + 1 /\ g # <<>>
            /\ g[n + 1] = Move(from, to)
            /\ \A i \in 1..n : g[i] = h[i]
        <4>1. from \in DocketStatuses /\ to \in DocketStatuses
          BY <2>3 DEF DocketStatuses, StatusTransitions
        <4>2. Move(from, to) \in Moves
          BY <4>1, MoveTyped
        <4>3. QED
          BY <2>1, <2>3, <4>2, AppendRows
      <3>2. g[n + 1].from = from /\ g[n + 1].to = to
        BY <3>1 DEF Move
      <3>3. CASE from = "NONE"
        <4>1. n = 0 /\ to = "PENDING_APPROVAL"
          BY <2>1, <2>3, <3>3 DEF StatusTransitions
        <4>2. QED
          BY <3>1, <3>2, <4>1, <3>3
      <3>4. CASE from # "NONE"
        <4>1. /\ n > 0 /\ h[1] = Created /\ h[n].to = from
              /\ \A i \in 2..n : h[i].from = h[i - 1].to /\ <<h[i].from, h[i].to>> \in Legal
          BY <2>1, <3>4, <3>1
        <4>2. <<from, to>> \in Legal /\ to # "NONE"
          BY <2>3, <3>4 DEF StatusTransitions
        <4>3. ASSUME NEW i \in 2..(n + 1)
              PROVE  g[i].from = g[i - 1].to /\ <<g[i].from, g[i].to>> \in Legal
          <5>1. CASE i \in 2..n
            <6>1. i \in 1..n /\ i - 1 \in 1..n
              BY <5>1, <3>1
            <6>2. g[i] = h[i] /\ g[i - 1] = h[i - 1]
              BY <6>1, <3>1
            <6>3. QED
              BY <5>1, <6>2, <4>1
          <5>2. CASE i = n + 1
            BY <5>2, <4>1, <4>2, <3>1, <3>2
          <5>3. QED
            BY <5>1, <5>2, <3>1
        <4>4. QED
          BY <3>1, <3>2, <4>1, <4>2, <4>3
      <3>5. QED
        BY <3>3, <3>4
    <2>4. QED
      BY <2>2, <2>3, HistoryStep
  <1>3. QED
    BY <1>1, <1>2, FileTyped, DecidedOnce, PTL DEF FileSpec

-----------------------------------------------------------------------------
(***************************************************************************)
(* Escalations.                                                            *)
(***************************************************************************)
\* Only the refusal and the reviews touch an escalation or a status that an
\* escalation depends on.
LEMMA EscalationStep ==
    ASSUME FileTypeOK, [FileNext]_fileVars
    PROVE  \/ UNCHANGED <<complaintStatus, escalation>>
           \/ /\ escalation' = escalation
              /\ \E c \in Complaint, st \in ComplaintStatuses \ {"REFUSED", "ESCALATED"} :
                   /\ ~Refused(c)
                   /\ complaintStatus' = [complaintStatus EXCEPT ![c] = st]
           \/ \E c \in Complaint, k \in ReasonKinds : Refuse(c, k)
           \/ \E c \in Complaint, t \in Targets : Acknowledge(c, t) \/ Resolve(c, t)
           \/ \E c \in Complaint : CommanderAcknowledge(c) \/ CommanderEscalate(c)
  <1> USE DEF complaintVars, docketVars
  <1>1. ASSUME NEW c \in Complaint, NEW st \in {"SUBMITTED", "UNDER_REVIEW", "DOCKET_CREATED"},
               escalation' = escalation, ~Refused(c),
               complaintStatus' = [complaintStatus EXCEPT ![c] = st]
        PROVE  \E d \in Complaint, s \in ComplaintStatuses \ {"REFUSED", "ESCALATED"} :
                   /\ ~Refused(d)
                   /\ complaintStatus' = [complaintStatus EXCEPT ![d] = s]
    BY <1>1 DEF ComplaintStatuses
  <1>2. ASSUME NEW c \in Complaint, \E s \in Station : Register(c, s)
        PROVE  /\ escalation' = escalation /\ ~Refused(c)
               /\ complaintStatus' = [complaintStatus EXCEPT ![c] = "SUBMITTED"]
    BY <1>2 DEF Register, Refused
  <1>3. ASSUME NEW c \in Complaint, StartReview(c)
        PROVE  /\ escalation' = escalation /\ ~Refused(c)
               /\ complaintStatus' = [complaintStatus EXCEPT ![c] = "UNDER_REVIEW"]
    BY <1>3 DEF StartReview, BeginReview, Refused
  <1>4. ASSUME NEW c \in Complaint, Accept(c) \/ Open(c)
        PROVE  /\ escalation' = escalation /\ ~Refused(c)
               /\ complaintStatus' = [complaintStatus EXCEPT ![c] = "DOCKET_CREATED"]
    BY <1>4 DEF Accept, RecordAcceptance, Open, OpenDocket, Refused, DecidableStatuses
  <1>5. ASSUME NEW c \in Complaint,
               \/ \E v \in {"APPROVED", "RETURNED_FOR_CORRECTION"} : Approve(c, v)
               \/ \E o \in Officer : Assign(c, o) \/ WriteIntake(c, o)
               \/ Unassign(c)
               \/ \E to \in DocketStatuses : UpdateStatus(c, to)
               \/ \E kind \in EntryKinds : WriteCase(c, kind)
        PROVE  UNCHANGED <<complaintStatus, escalation>>
    BY <1>5 DEF Approve, RecordApproval, Assign, RecordAssignment, WriteIntake, RecordEntry,
                Unassign, EndAssignment, UpdateStatus, RecordStatus, WriteCase
  <1>6. ASSUME NEW o \in Officer, NEW p \in NewPostings, ChangeStaff(o, p)
        PROVE  UNCHANGED <<complaintStatus, escalation>>
    BY <1>6 DEF ChangeStaff, RecordPosting
  <1>7. CASE UNCHANGED fileVars
    BY <1>7 DEF fileVars
  <1>8. QED
    BY <1>1, <1>2, <1>3, <1>4, <1>5, <1>6, <1>7 DEF FileNext

\* A review changes the status of one escalation.
LEMMA SetEscalationAt ==
    ASSUME FileTypeOK, NEW c \in Complaint, NEW t \in Targets, NEW new, SetEscalation(c, t, new)
    PROVE  /\ complaintStatus' = complaintStatus
           /\ \A d \in Complaint, u \in Targets :
                escalation'[d][u] = IF d = c /\ u = t THEN new ELSE escalation[d][u]
  BY DEF FileTypeOK, SetEscalation

\* An acknowledgement or a resolution moves one escalation that is not resolved.
LEMMA ReviewAt ==
    ASSUME FileTypeOK, NEW c \in Complaint, NEW t \in Targets, Acknowledge(c, t) \/ Resolve(c, t)
    PROVE  /\ complaintStatus' = complaintStatus
           /\ \A d \in Complaint, u \in Targets :
                \/ escalation'[d][u] = escalation[d][u]
                \/ escalation[d][u] = "OPEN" /\ escalation'[d][u] \in {"ACKNOWLEDGED", "RESOLVED"}
                \/ escalation[d][u] = "ACKNOWLEDGED" /\ escalation'[d][u] = "RESOLVED"
  <1>1. CASE Acknowledge(c, t)
    BY <1>1, SetEscalationAt DEF Acknowledge
  <1>2. CASE Resolve(c, t)
    BY <1>2, SetEscalationAt DEF Resolve
  <1>3. QED
    BY <1>1, <1>2

\* Escalations exist only for refused complaints, and the complaint is
\* ESCALATED exactly when the decision or the commander escalated it.
THEOREM EscalationsOfRefusals == FileSpec => []EscalationFollowsRefusal
  <1>1. FileInit => EscalationFollowsRefusal
    <2> SUFFICES ASSUME FileInit PROVE EscalationFollowsRefusal
      OBVIOUS
    <2>1. \A c \in Complaint : complaintStatus[c] \notin {"REFUSED", "ESCALATED"}
      BY DEF FileInit
    <2>2. \A c \in Complaint : \A t \in Targets : escalation[c][t] = "NONE"
      BY DEF FileInit
    <2>3. QED
      BY <2>1, <2>2 DEF EscalationFollowsRefusal, Targets
  <1>2. FileTypeOK /\ EscalationFollowsRefusal /\ [FileNext]_fileVars
          => EscalationFollowsRefusal'
    <2> SUFFICES ASSUME FileTypeOK, EscalationFollowsRefusal, [FileNext]_fileVars
                 PROVE  EscalationFollowsRefusal'
      OBVIOUS
    <2> USE DEF FileTypeOK, EscalationFollowsRefusal, Refused, Targets
    <2>1. CASE UNCHANGED <<complaintStatus, escalation>>
      BY <2>1
    <2>2. ASSUME NEW c \in Complaint, NEW st \in ComplaintStatuses \ {"REFUSED", "ESCALATED"},
                 escalation' = escalation, ~Refused(c),
                 complaintStatus' = [complaintStatus EXCEPT ![c] = st]
          PROVE  EscalationFollowsRefusal'
      BY <2>2
    <2>3. ASSUME NEW c \in Complaint, NEW k \in ReasonKinds, Refuse(c, k)
          PROVE  EscalationFollowsRefusal'
      <3>1. /\ EscalatedTo(k) \subseteq Targets
            /\ "NCC" \in EscalatedTo(k) => EscalatedTo(k) # {}
        BY <2>3 DEF ReasonKinds, EscalatedTo
      <3>2. ~Refused(c) /\ c \in DOMAIN complaintStatus /\ c \in DOMAIN escalation
        BY <2>3 DEF Refuse, DecidableStatuses
      <3>3. \A t \in Targets : escalation[c][t] = "NONE"
        BY <3>2
      <3>4. /\ \A d \in Complaint \ {c} : complaintStatus'[d] = complaintStatus[d]
                                        /\ escalation'[d] = escalation[d]
            /\ complaintStatus'[c] = IF EscalatedTo(k) # {} THEN "ESCALATED" ELSE "REFUSED"
            /\ \A t \in Targets : escalation'[c][t] = IF t \in EscalatedTo(k)
                                                     THEN "OPEN" ELSE escalation[c][t]
        BY <2>3, <3>2 DEF Refuse, RecordRefusal
      <3>5. \A d \in Complaint \ {c} :
               /\ ~Refused(d)' => \A t \in Targets : escalation'[d][t] = "NONE"
               /\ escalation'[d]["NCC"] # "NONE" => complaintStatus'[d] = "ESCALATED"
               /\ complaintStatus'[d] = "ESCALATED" => \E t \in Targets : escalation'[d][t] # "NONE"
        BY <3>4
      <3>6. /\ ~Refused(c)' => \A t \in Targets : escalation'[c][t] = "NONE"
            /\ escalation'[c]["NCC"] # "NONE" => complaintStatus'[c] = "ESCALATED"
            /\ complaintStatus'[c] = "ESCALATED" => \E t \in Targets : escalation'[c][t] # "NONE"
        BY <3>1, <3>3, <3>4
      <3>7. QED
        BY <3>5, <3>6
    <2>4. ASSUME NEW c \in Complaint, NEW t \in Targets, Acknowledge(c, t) \/ Resolve(c, t)
          PROVE  EscalationFollowsRefusal'
      <3>1. \A d \in Complaint, u \in Targets :
              escalation'[d][u] = "NONE" <=> escalation[d][u] = "NONE"
        <4>1. \A d \in Complaint, u \in Targets :
                 \/ escalation'[d][u] = escalation[d][u]
                 \/ escalation[d][u] = "OPEN" /\ escalation'[d][u] \in {"ACKNOWLEDGED", "RESOLVED"}
                 \/ escalation[d][u] = "ACKNOWLEDGED" /\ escalation'[d][u] = "RESOLVED"
          BY ONLY FileTypeOK, <2>4, ReviewAt
        <4> TAKE d \in Complaint, u \in Targets
        <4>2. CASE escalation'[d][u] = escalation[d][u]
          BY ONLY <4>2
        <4>3. CASE escalation'[d][u] # escalation[d][u]
          BY ONLY <4>1, <4>3, d \in Complaint, u \in Targets
        <4>4. QED
          BY ONLY <4>2, <4>3
      <3>2. complaintStatus' = complaintStatus
        BY <2>4, ReviewAt
      <3>3. QED
        BY <3>1, <3>2
    <2>5. ASSUME NEW c \in Complaint, CommanderAcknowledge(c)
          PROVE  EscalationFollowsRefusal'
      BY <2>5 DEF CommanderAcknowledge, SetEscalation
    <2>6. ASSUME NEW c \in Complaint, CommanderEscalate(c)
          PROVE  EscalationFollowsRefusal'
      BY <2>6 DEF CommanderEscalate, ForwardToNCC
    <2>7. QED
      BY <2>1, <2>2, <2>3, <2>4, <2>5, <2>6, EscalationStep
  <1>3. QED
    BY <1>1, <1>2, FileTyped, PTL DEF FileSpec

LEMMA ReviewsForward ==
    ASSUME FileTypeOK, EscalationFollowsRefusal, [FileNext]_fileVars
    PROVE  \A c \in Complaint, t \in Targets :
              EscalationRank(escalation[c][t]) <= EscalationRank(escalation'[c][t])
  <1> DEFINE Forward == \A c \in Complaint, t \in Targets :
                          EscalationRank(escalation[c][t]) <= EscalationRank(escalation'[c][t])
  <1> USE DEF FileTypeOK, EscalationRank, EscalationStatuses, Targets
  <1>1. CASE escalation' = escalation
    BY <1>1
  <1>2. ASSUME NEW c \in Complaint, NEW k \in ReasonKinds, Refuse(c, k) PROVE Forward
    <2>1. \A t \in Targets : escalation[c][t] = "NONE"
      BY <1>2 DEF Refuse, DecidableStatuses, EscalationFollowsRefusal, Refused
    <2>2. \A d \in Complaint, t \in Targets :
            escalation'[d][t] = escalation[d][t] \/ (d = c /\ escalation'[d][t] = "OPEN")
      BY <1>2 DEF Refuse, RecordRefusal
    <2>3. QED
      BY <2>1, <2>2
  <1>3. ASSUME NEW c \in Complaint, NEW t \in Targets, Acknowledge(c, t) \/ Resolve(c, t)
        PROVE  Forward
    BY <1>3, ReviewAt
  <1>4. ASSUME NEW c \in Complaint, CommanderAcknowledge(c) PROVE Forward
    BY <1>4 DEF CommanderAcknowledge, SetEscalation
  <1>5. ASSUME NEW c \in Complaint, CommanderEscalate(c) PROVE Forward
    BY <1>5 DEF CommanderEscalate, ForwardToNCC
  <1>6. QED
    BY <1>1, <1>2, <1>3, <1>4, <1>5, EscalationStep

\* Nothing about a closed docket ever changes, and a review only moves forward:
\* no step reopens or drops it.
THEOREM Finality == FileSpec => NothingReopens
  <1>1. FileTypeOK /\ DecisionFinal /\ EscalationFollowsRefusal /\ [FileNext]_fileVars =>
          [/\ \A c \in Complaint :
                docketStatus[c] = "CLOSED" =>
                   /\ docketStatus'[c] = "CLOSED"
                   /\ assignee'[c] = assignee[c]
                   /\ entries'[c] = entries[c]
                   /\ history'[c] = history[c]
           /\ \A c \in Complaint, t \in Targets :
                EscalationRank(escalation[c][t]) <= EscalationRank(escalation'[c][t])]_fileVars
    BY ClosedStays, ReviewsForward
  <1>2. QED
    BY <1>1, FileTyped, DecidedOnce, EscalationsOfRefusals, PTL DEF FileSpec, NothingReopens

-----------------------------------------------------------------------------
(***************************************************************************)
(* No step runs into a rule of the database schema.                        *)
(***************************************************************************)
\* A row more, or none, only adds.
LEMMA AppendAdds ==
    ASSUME NEW S, NEW h \in Seq(S), NEW k,
           k = h \/ \E x : k = Append(h, x)
    PROVE  OnlyAdded(h, k)
  BY DEF OnlyAdded

\* Only a decision on the complaint adds a decision row.
LEMMA DecisionRowStep ==
    ASSUME FileTypeOK, [FileNext]_fileVars, NEW c \in Complaint
    PROVE  \/ decisions'[c] = decisions[c]
           \/ \E x \in {"ACCEPTED", "REFUSED"} : decisions'[c] = Append(decisions[c], x)
  <1> USE DEF complaintVars, docketVars, FileTypeOK
  <1>1. ASSUME NEW d \in Complaint,
               \/ \E s \in Station : Register(d, s)
               \/ StartReview(d) \/ Open(d)
               \/ \E t \in Targets : Acknowledge(d, t) \/ Resolve(d, t)
               \/ CommanderAcknowledge(d)
               \/ CommanderEscalate(d)
        PROVE  decisions' = decisions
    BY <1>1 DEF Register, StartReview, BeginReview, Open, Acknowledge, Resolve,
                CommanderAcknowledge, SetEscalation, CommanderEscalate, ForwardToNCC
  <1>2. ASSUME NEW d \in Complaint,
               \/ \E v \in {"APPROVED", "RETURNED_FOR_CORRECTION"} : Approve(d, v)
               \/ \E o \in Officer : Assign(d, o) \/ WriteIntake(d, o)
               \/ Unassign(d)
               \/ \E to \in DocketStatuses : UpdateStatus(d, to)
               \/ \E kind \in EntryKinds : WriteCase(d, kind)
        PROVE  decisions' = decisions
    BY <1>2 DEF Approve, RecordApproval, Assign, RecordAssignment, WriteIntake, RecordEntry,
                Unassign, EndAssignment, UpdateStatus, RecordStatus, WriteCase
  <1>3. ASSUME NEW d \in Complaint, Accept(d) \/ \E k \in ReasonKinds : Refuse(d, k)
        PROVE  \/ decisions'[c] = decisions[c]
               \/ \E x \in {"ACCEPTED", "REFUSED"} : decisions'[c] = Append(decisions[c], x)
    BY <1>3 DEF Accept, RecordAcceptance, Refuse, RecordRefusal
  <1>4. ASSUME NEW o \in Officer, NEW p \in NewPostings, ChangeStaff(o, p)
        PROVE  decisions' = decisions
    BY <1>4 DEF ChangeStaff, RecordPosting
  <1>5. CASE UNCHANGED fileVars
    BY <1>5 DEF fileVars
  <1>6. QED
    BY <1>1, <1>2, <1>3, <1>4, <1>5 DEF FileNext

\* No step takes a row back.
LEMMA AppendOnlyStep ==
    ASSUME FileTypeOK, DecisionFinal, [FileNext]_fileVars, NEW c \in Complaint
    PROVE  AppendOnly(c)
  <1>1. OnlyAdded(decisions[c], decisions'[c])
    <2>1. \/ decisions'[c] = decisions[c]
          \/ \E x : decisions'[c] = Append(decisions[c], x)
      BY DecisionRowStep
    <2>2. QED
      BY <2>1, AppendAdds DEF FileTypeOK
  <1>2. OnlyAdded(approvals[c], approvals'[c])
    <2>1. ASSUME NEW v, Approve(c, v) PROVE approvals'[c] = Append(approvals[c], v)
      BY <2>1 DEF Approve, RecordApproval, FileTypeOK
    <2>2. \/ approvals'[c] = approvals[c]
          \/ \E v : approvals'[c] = Append(approvals[c], v)
      BY <2>1, ApprovalStep
    <2>3. QED
      BY <2>2, AppendAdds DEF FileTypeOK
  <1>3. OnlyAdded(history[c], history'[c])
    <2>1. \/ history'[c] = history[c]
          \/ \E x : history'[c] = Append(history[c], x)
      BY HistoryStep
    <2>2. QED
      BY <2>1, AppendAdds DEF FileTypeOK
  <1>4. OnlyAdded(entries[c], entries'[c])
    <2>1. \/ entries'[c] = entries[c]
          \/ \E x : entries'[c] = Append(entries[c], x)
      <3>1. ASSUME NEW d \in Complaint, NEW o, NEW kind, RecordEntry(d, o, kind)
            PROVE  \/ entries'[c] = entries[c]
                   \/ \E x : entries'[c] = Append(entries[c], x)
        BY <3>1 DEF RecordEntry, FileTypeOK
      <3>2. ASSUME NEW d \in Complaint, NEW o \in Officer, WriteIntake(d, o)
            PROVE  RecordEntry(d, o, "STATION_INTAKE")
        BY <3>2 DEF WriteIntake
      <3>3. ASSUME NEW d \in Complaint, NEW kind \in EntryKinds, WriteCase(d, kind)
            PROVE  RecordEntry(d, assignee[d], kind)
        BY <3>3 DEF WriteCase
      <3>4. QED
        BY EntryStep, <3>1, <3>2, <3>3
    <2>2. QED
      BY <2>1, AppendAdds DEF FileTypeOK
  <1>5. QED
    BY <1>1, <1>2, <1>3, <1>4 DEF AppendOnly

\* A docket stays, and its history begins with it.
LEMMA HistoryRowStep ==
    ASSUME FileTypeOK, DecisionFinal, HistoryTellsStatus, [FileNext]_fileVars, NEW c \in Complaint
    PROVE  /\ docketStatus[c] # "NONE" => docketStatus'[c] # "NONE"
           /\ InitialHistory(c)
  <1> USE DEF FileTypeOK
  <1>1. CASE UNCHANGED <<docketStatus[c], history[c]>>
    BY <1>1 DEF InitialHistory
  <1>2. CASE /\ history'[c] = Append(history[c], Move(docketStatus[c], docketStatus'[c]))
             /\ <<docketStatus[c], docketStatus'[c]>> \in
                   StatusTransitions \cup {<<"NONE", "PENDING_APPROVAL">>,
                                           <<"PENDING_APPROVAL", "APPROVED">>,
                                           <<"APPROVED", "ACTIVE">>}
    <2>1. docketStatus'[c] # "NONE"
      BY <1>2, TransitionStatuses
    <2>2. ASSUME NEW i \in Len(history[c]) + 1..Len(history'[c]), history'[c][i].from = "NONE"
          PROVE  history[c] = <<>> /\ i = 1
      <3>1. /\ i = Len(history[c]) + 1
            /\ history'[c][i] = Move(docketStatus[c], docketStatus'[c])
        BY <1>2
      <3>2. docketStatus[c] = "NONE"
        BY <2>2, <3>1 DEF Move
      <3>3. history[c] = <<>>
        BY <3>2 DEF HistoryTellsStatus
      <3>4. QED
        BY <3>1, <3>3
    <2>3. QED
      BY <2>1, <2>2 DEF InitialHistory
  <1>3. QED
    BY <1>1, <1>2, HistoryStep

\* The moves of a docket after its creation.
ChainMoves ==
    StatusTransitions \cup {<<"PENDING_APPROVAL", "APPROVED">>, <<"APPROVED", "ACTIVE">>}

\* The rows of a history that is a chain of moves each tell a change, and only
\* the first tells a creation.
LEMMA ChainRows ==
    ASSUME NEW h \in Seq(Moves), NEW i \in 1..Len(h),
           h # <<>> => /\ h[1] = Move("NONE", "PENDING_APPROVAL")
                       /\ \A j \in 2..Len(h) : <<h[j].from, h[j].to>> \in ChainMoves
    PROVE  h[i].from # h[i].to /\ (h[i].from = "NONE" => i = 1)
  <1>1. Len(h) \in Nat /\ h # <<>>
    OBVIOUS
  <1>2. CASE i = 1
    <2>1. h[1] = Move("NONE", "PENDING_APPROVAL")
      BY <1>1
    <2>2. QED
      BY <1>2, <2>1 DEF Move
  <1>3. CASE i # 1
    <2>1. i \in 2..Len(h)
      BY <1>1, <1>3
    <2>2. <<h[i].from, h[i].to>> \in ChainMoves
      BY <1>1, <2>1
    <2>3. QED
      BY <2>2, TransitionStatuses DEF ChainMoves
  <1>4. QED
    BY <1>2, <1>3

\* No commit of the handlers is refused by a trigger, a foreign key, a row check
\* or an append-only table of the case schema.
THEOREM SchemaSatisfied == FileSpec => SchemaAccepts
  <1> DEFINE Accepted == UNCHANGED caseVars \/ \A c \in Complaint :
                           /\ AppendOnly(c)
                           /\ DocketParent(c) /\ HistoryRows(c)
                           /\ DocketAcceptance(c) /\ ComplaintDocketStatus(c)
                           /\ RefusalEscalation(c) /\ InitialHistory(c)
             Known == /\ FileTypeOK /\ DecisionFinal /\ HistoryTellsStatus
                      /\ ApprovalOpensDocket /\ AssignedDocketStarted /\ EscalationFollowsRefusal
  <1>1. Known /\ Known' /\ [FileNext]_fileVars => [Accepted]_fileVars
    <2> SUFFICES ASSUME Known, Known', [FileNext]_fileVars, NEW c \in Complaint
                 PROVE  /\ AppendOnly(c)
                        /\ DocketParent(c) /\ HistoryRows(c)
                        /\ DocketAcceptance(c) /\ ComplaintDocketStatus(c)
                        /\ RefusalEscalation(c) /\ InitialHistory(c)
      OBVIOUS
    <2>1. AppendOnly(c)
      BY AppendOnlyStep
    <2>2. DocketParent(c)
      <3>1. approvals'[c] # <<>> => docketStatus'[c] # "NONE"
        BY DEF ApprovalOpensDocket, FileTypeOK
      <3>2. QED
        BY <3>1 DEF DocketParent, HistoryTellsStatus, AssignedDocketStarted
    <2>3. HistoryRows(c)
      <3> DEFINE h == history'[c]
      <3>1. /\ h \in Seq(Moves)
            /\ h # <<>> => /\ h[1] = Move("NONE", "PENDING_APPROVAL")
                           /\ \A i \in 2..Len(h) :
                                <<h[i].from, h[i].to>> \in ChainMoves
        BY DEF FileTypeOK, HistoryTellsStatus, ChainMoves
      <3>2. \A i \in 1..Len(h) : h[i].from # h[i].to /\ (h[i].from = "NONE" => i = 1)
        <4> HIDE DEF h
        <4> QED
          BY <3>1, ChainRows
      <3>3. Len(history[c]) \in Nat /\ Len(h) \in Nat
        BY <3>1 DEF FileTypeOK
      <3>4. QED
        BY <3>2, <3>3 DEF HistoryRows
    <2>4. docketStatus'[c] # "NONE" =>
            complaintStatus'[c] = "DOCKET_CREATED" /\ decisions'[c] = <<"ACCEPTED">>
      BY DEF DecisionFinal, Refused
    <2>5. docketStatus[c] # "NONE" => docketStatus'[c] # "NONE"
      BY HistoryRowStep
    <2>6. DocketAcceptance(c)
      <3>1. docketStatus'[c] # docketStatus[c] => docketStatus'[c] # "NONE"
        BY <2>5
      <3>2. ASSUME docketStatus'[c] # "NONE"
            PROVE  \E i \in 1..Len(decisions'[c]) : decisions'[c][i] = "ACCEPTED"
        <4>1. Len(decisions'[c]) = 1 /\ decisions'[c][1] = "ACCEPTED"
          BY <2>4, <3>2
        <4>2. QED
          BY <4>1
      <3>3. QED
        BY <2>4, <3>1, <3>2 DEF DocketAcceptance
    <2>7. ComplaintDocketStatus(c)
      BY <2>4, <2>5 DEF ComplaintDocketStatus
    <2>8. RefusalEscalation(c)
      <3>1. ASSUME NEW t \in Targets, escalation'[c][t] # "NONE"
            PROVE  decisions'[c] = <<"REFUSED">>
        <4>1. complaintStatus'[c] \in {"REFUSED", "ESCALATED"}
          BY <3>1 DEF EscalationFollowsRefusal, Refused
        <4>2. decisions'[c] =
                CASE complaintStatus'[c] \in {"UNREGISTERED", "SUBMITTED", "UNDER_REVIEW"} -> <<>>
                  [] complaintStatus'[c] \in {"REFUSED", "ESCALATED"} -> <<"REFUSED">>
                  [] OTHER -> <<"ACCEPTED">>
          BY DEF DecisionFinal, Refused
        <4>3. QED
          BY <4>1, <4>2
      <3>2. QED
        BY <3>1 DEF RefusalEscalation
    <2>9. InitialHistory(c)
      BY HistoryRowStep
    <2>10. QED
      BY <2>1, <2>2, <2>3, <2>6, <2>7, <2>8, <2>9
  <1>2. QED
    BY <1>1, FileTyped, DecidedOnce, HistoryChain, ApprovedOpens, AssignedStarted,
       EscalationsOfRefusals, PTL DEF FileSpec, SchemaAccepts
=============================================================================
