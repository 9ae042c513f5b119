----------------------------- MODULE CaseSchema -----------------------------
(***************************************************************************)
(* The rules PostgreSQL itself enforces on the case tables: triggers,      *)
(* foreign keys, row checks and tables that only grow.  A statement that   *)
(* breaks one ends its request with an error the handlers do not expect;   *)
(* what their own guards admit must therefore never be refused here.  A    *)
(* trigger sees what its transaction has written, the primed rows.         *)
(***************************************************************************)
EXTENDS CaseFile

\* The tables with these rules: all but the staff accounts.
caseVars == <<complaintVars, docketVars, entries>>

\* reject_append_only_mutation: the rows that are there stay as they are.
OnlyAdded(old, new) ==
    new # old => Len(old) < Len(new) /\ \A i \in 1..Len(old) : new[i] = old[i]

\* Decisions, approvals, status history and notes only grow.
AppendOnly(c) ==
    /\ OnlyAdded(decisions[c], decisions'[c])
    /\ OnlyAdded(approvals[c], approvals'[c])
    /\ OnlyAdded(history[c], history'[c])
    /\ OnlyAdded(entries[c], entries'[c])

\* Everything that belongs to a docket needs the docket.
DocketParent(c) ==
    approvals'[c] # <<>> \/ history'[c] # <<>> \/ assignee'[c] # None =>
        docketStatus'[c] # "NONE"

\* The checks and the unique index on every row inserted into the history: it
\* tells a change, and only one tells a creation.
HistoryRows(c) ==
    \A i \in Len(history[c]) + 1..Len(history'[c]) :
        /\ history'[c][i].from # history'[c][i].to
        /\ history'[c][i].from = "NONE" =>
             \A j \in 1..i - 1 : history'[c][j].from # "NONE"

\* Trigger docket_acceptance, on every insert and update of a docket.
DocketAcceptance(c) ==
    docketStatus'[c] # docketStatus[c] =>
        /\ complaintStatus'[c] \in {"ACCEPTED", "DOCKET_CREATED"}
        /\ \E i \in 1..Len(decisions'[c]) : decisions'[c][i] = "ACCEPTED"

\* Trigger complaint_docket_status, on every change of a complaint's status.
ComplaintDocketStatus(c) ==
    complaintStatus'[c] # complaintStatus[c] /\ docketStatus[c] # "NONE" =>
        complaintStatus'[c] \in {"ACCEPTED", "DOCKET_CREATED"}

\* Trigger refusal_escalation_decision, on every insert and update of a review.
RefusalEscalation(c) ==
    \A t \in Targets :
        escalation'[c][t] # escalation[c][t] /\ escalation'[c][t] # "NONE" =>
            \E i \in 1..Len(decisions'[c]) : decisions'[c][i] = "REFUSED"

\* Trigger docket_history_initial_record: only the first row tells a creation.
InitialHistory(c) ==
    \A i \in Len(history[c]) + 1..Len(history'[c]) :
        history'[c][i].from = "NONE" => history[c] = <<>> /\ i = 1

-----------------------------------------------------------------------------
\* The database refuses no transaction of the handlers, in whatever order they
\* come: the guards of decide, act_on_review, approve, assign and update_status
\* are at least as strong as the triggers and keys written independently of them
\* in the migrations 53b49290f8f4, fd1a582b8271 and a59515a63a4d.
SchemaAccepts ==
    [][UNCHANGED caseVars \/
          \A c \in Complaint :
             /\ AppendOnly(c)
             /\ DocketParent(c) /\ HistoryRows(c)
             /\ DocketAcceptance(c) /\ ComplaintDocketStatus(c)
             /\ RefusalEscalation(c) /\ InitialHistory(c)]_fileVars
=============================================================================
