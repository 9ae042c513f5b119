----------------------------- MODULE CaseRecords -----------------------------
(***************************************************************************)
(* The records that grow around one case: versions of its statement,       *)
(* feedback with corrections and invitations, official documents, and the  *)
(* alerts of its station.  Each handler looks for what is there already    *)
(* under a lock of its own kind and inserts under the same lock.           *)
(***************************************************************************)
EXTENDS RecordTransactions

CONSTANTS
    Invitation,  \* the request ids clients choose for invitations
    Manager,     \* the commanders who handle alerts
    Episode      \* what may become due: a refusal, an overdue docket, ..., numbered

VARIABLES
    phase,       \* how far the case is
    statements,  \* complaint_statements rows, in the order of their inserts
    feedback,    \* case_feedback rows, in the order of their inserts
    documents,   \* official_documents rows
    due,         \* the episodes evaluate would find now
    alerts       \* alerts rows, in the order of their inserts

recordVars == <<phase, statements, feedback, documents, due, alerts>>

-----------------------------------------------------------------------------
Phases == {"SUBMITTED", "REFUSED", "DOCKET", "CLOSED"}

Kinds == {"COMPLAINT_REGISTRATION_CONFIRMATION", "REFUSAL_CONFIRMATION",
          "DOCKET_REGISTRATION_CONFIRMATION", "CASE_CLOSURE_CONFIRMATION"}

\* The phases in which a document of a kind may be issued.
IssuedIn(kind) ==
    CASE kind = "COMPLAINT_REGISTRATION_CONFIRMATION" -> Phases
      [] kind = "REFUSAL_CONFIRMATION" -> {"REFUSED"}
      [] kind = "DOCKET_REGISTRATION_CONFIRMATION" -> {"DOCKET", "CLOSED"}
      [] OTHER -> {"CLOSED"}

Contents == {"INTERVIEW", "MEETING"}

\* The moves of an alert, forward only.
AlertMoves ==
    {<<"OPEN", "ACKNOWLEDGED">>, <<"OPEN", "RESOLVED">>, <<"OPEN", "DISMISSED">>,
     <<"ACKNOWLEDGED", "RESOLVED">>, <<"ACKNOWLEDGED", "DISMISSED">>}

\* The rows the handlers insert.
NewStatement(v) == [version |-> v, current |-> TRUE]

NewFeedback(corrected, id, content) == [corrects |-> corrected, id |-> id, content |-> content]

NewDocument(kind, number, key) == [kind |-> kind, number |-> number, key |-> key]

NewAlert(e) == [episode |-> e, status |-> "OPEN", assigned |-> None]

RecordInit ==
    /\ phase = "SUBMITTED"
    /\ statements = <<NewStatement(1)>>
    /\ feedback = <<>>
    /\ documents = {}
    /\ due = {}
    /\ alerts = <<>>

\* The newest row: the highest version.
Latest == Max({statements[i].version : i \in 1..Len(statements)})

Superseded(f) == \E i \in 1..Len(feedback) : feedback[i].corrects = f

RecordBegin(p) ==
    \/ \E expected \in 1..Latest : Begin(p, New("statement", "complaint", None, expected, None))
    \/ \E kind \in Kinds : Begin(p, New("document", "complaint", None, 0, kind))
    \/ /\ phase \in {"DOCKET", "CLOSED"}
       /\ \E f \in 0..Len(feedback) : Begin(p, New("feedback", "docket", None, f, None))
    \/ /\ phase = "DOCKET"
       /\ \E id \in Invitation, content \in Contents :
            Begin(p, [New("invite", "docket", None, 0, content) EXCEPT !.ref = id])
    \/ Begin(p, New("evaluate", "station", None, 0, None))
    \/ \E i \in 1..Len(alerts), m \in Manager, move \in AlertMoves :
            Begin(p, [New("transition", "alert", m, i, move[2]) EXCEPT !.ref = move[1]])

-----------------------------------------------------------------------------
\* append_statement: intake is open, or the investigation; the version the
\* officer corrects must still be the newest.
StatementLock(p) ==
    /\ At(p, "statement", "complaint")
    /\ Check(p, {<<"complaint">>, <<"docket">>},
             phase \in {"SUBMITTED", "DOCKET"} /\ request[p].row = Latest, "commit")
    /\ UNCHANGED recordVars

StatementCommit(p) ==
    /\ At(p, "statement", "commit")
    /\ statements' = Append(
            [i \in 1..Len(statements) |->
                IF statements[i].version = request[p].row
                  THEN [statements[i] EXCEPT !.current = FALSE] ELSE statements[i]],
            NewStatement(request[p].row + 1))
    /\ Commit(p)
    /\ UNCHANGED <<phase, feedback, documents, due, alerts>>

-----------------------------------------------------------------------------
\* Mutant: an existing document is looked for without the lock of the complaint.
DocumentLockMutant(p) ==
    /\ At(p, "document", "complaint")
    /\ Check(p, {}, /\ phase \in IssuedIn(request[p].what)
                    /\ request[p].what \notin {d.kind : d \in documents}, "counter")
    /\ UNCHANGED recordVars

\* DocumentService.generate: a document that exists is returned as it is.
DocumentLock(p) ==
    /\ At(p, "document", "complaint")
    /\ Check(p, {<<"complaint">>},
             /\ phase \in IssuedIn(request[p].what)
             /\ request[p].what \notin {d.kind : d \in documents}, "counter")
    /\ UNCHANGED recordVars

DocumentNumber(p) ==
    /\ At(p, "document", "counter")
    /\ Allocate(p, "DOCUMENT", "save")
    /\ UNCHANGED recordVars

DocumentCommit(p) ==
    /\ At(p, "document", "commit")
    /\ documents' = documents \cup
            {NewDocument(request[p].what, request[p].number, request[p].key)}
    /\ CommitNumber(p, "DOCUMENT")
    /\ UNCHANGED <<phase, statements, feedback, due, alerts>>

-----------------------------------------------------------------------------
\* Mutant: the docket is read without its lock.
FeedbackLockMutant(p) ==
    /\ At(p, "feedback", "docket")
    /\ Check(p, {}, request[p].row = 0 \/ ~Superseded(request[p].row), "commit")
    /\ UNCHANGED recordVars

\* FeedbackService.publish: only the latest record of a line can be corrected.
FeedbackLock(p) ==
    /\ At(p, "feedback", "docket")
    /\ Check(p, {<<"docket">>}, request[p].row = 0 \/ ~Superseded(request[p].row), "commit")
    /\ UNCHANGED recordVars

FeedbackCommit(p) ==
    /\ At(p, "feedback", "commit")
    /\ feedback' = Append(feedback, NewFeedback(request[p].row, None, "UPDATE"))
    /\ Commit(p)
    /\ UNCHANGED <<phase, statements, documents, due, alerts>>

\* invite: the docket, then the advisory lock of the request id.
InviteDocket(p) ==
    /\ At(p, "invite", "docket")
    /\ Check(p, {<<"docket">>}, phase = "DOCKET", "invitation")
    /\ UNCHANGED recordVars

\* A repeated request finds its record (the same content) or is refused.
InviteLock(p) ==
    /\ At(p, "invite", "invitation")
    /\ Check(p, {<<"invitation", request[p].ref>>},
             \A i \in 1..Len(feedback) : feedback[i].id # request[p].ref, "commit")
    /\ UNCHANGED recordVars

InviteCommit(p) ==
    /\ At(p, "invite", "commit")
    /\ feedback' = Append(feedback, NewFeedback(0, request[p].ref, request[p].what))
    /\ Commit(p)
    /\ UNCHANGED <<phase, statements, documents, due, alerts>>

-----------------------------------------------------------------------------
\* Mutant: the evaluation is not serialized per station.
EvaluateLockMutant(p) ==
    /\ At(p, "evaluate", "station")
    /\ TakeAndSee(p, {}, "commit", due \ {alerts[i].episode : i \in 1..Len(alerts)})
    /\ UNCHANGED recordVars

\* AlertService.evaluate: what is due and was never reported, whatever became
\* of the report.
EvaluateLock(p) ==
    /\ At(p, "evaluate", "station")
    /\ TakeAndSee(p, {<<"station">>}, "commit", due \ {alerts[i].episode : i \in 1..Len(alerts)})
    /\ UNCHANGED recordVars

EvaluateCommit(p) ==
    /\ At(p, "evaluate", "commit")
    /\ LET new == SetToSeq(request[p].seen)
       IN  alerts' = alerts \o [i \in 1..Len(new) |-> NewAlert(new[i])]
    /\ Commit(p)
    /\ UNCHANGED <<phase, statements, feedback, documents, due>>

\* AlertService.transition: the alert is free or one's own and still in the
\* status the manager saw.
TransitionLock(p) ==
    /\ At(p, "transition", "alert")
    /\ LET alert == alerts[request[p].row]
       IN  Check(p, {<<"alert", request[p].row>>},
                 /\ alert.assigned \in {None, request[p].by}
                 /\ alert.status = request[p].ref, "commit")
    /\ UNCHANGED recordVars

TransitionCommit(p) ==
    /\ At(p, "transition", "commit")
    /\ alerts' = [alerts EXCEPT ![request[p].row].status = request[p].what,
                                ![request[p].row].assigned = request[p].by]
    /\ Commit(p)
    /\ UNCHANGED <<phase, statements, feedback, documents, due>>

-----------------------------------------------------------------------------
\* The case goes on elsewhere: decisions and closing lock the complaint too.
CaseProceeds ==
    /\ mix \cap {"document", "invite"} # {}
    /\ \A q \in Request : <<"complaint">> \notin held[q] /\ <<"docket">> \notin held[q]
    /\ \E new \in Phases :
         /\ <<phase, new>> \in {<<"SUBMITTED", "REFUSED">>, <<"SUBMITTED", "DOCKET">>, <<"DOCKET", "CLOSED">>}
         /\ phase' = new
    /\ UNCHANGED <<statements, feedback, documents, due, alerts, transactionVars>>

\* A deadline passes, or the work it waited for is done.
DeadlinesChange ==
    /\ "evaluate" \in mix
    /\ \E e \in Episode : due' = IF e \in due THEN due \ {e} ELSE due \cup {e}
    /\ UNCHANGED <<phase, statements, feedback, documents, alerts, transactionVars>>

RecordStep(p) ==
    \/ RecordBegin(p) /\ UNCHANGED recordVars
    \/ StatementLock(p) \/ StatementCommit(p)
    \/ DocumentLock(p) \/ DocumentNumber(p) \/ DocumentCommit(p)
    \/ FeedbackLock(p) \/ FeedbackCommit(p)
    \/ InviteDocket(p) \/ InviteLock(p) \/ InviteCommit(p)
    \/ EvaluateLock(p) \/ EvaluateCommit(p) \/ TransitionLock(p) \/ TransitionCommit(p)

-----------------------------------------------------------------------------
\* Corrections never fork.  A statement has the versions 1, 2, ... once each
\* and shows the last (append_statement); a feedback record is corrected at most
\* once, and an invitation is recorded once however often its request is sent
\* (feedback/service.py, investigations/contact.py).
CorrectionsInLine ==
    /\ \A i \in 1..Len(statements) :
         /\ statements[i].version = i
         /\ statements[i].current <=> i = Len(statements)
    /\ \A i, j \in 1..Len(feedback) :
         i # j => /\ feedback[i].corrects = feedback[j].corrects => feedback[i].corrects = 0
                  /\ feedback[i].id = feedback[j].id => feedback[i].id = None

\* One document of a kind is issued for the case, numbers are used up without
\* gap, its file is kept, and it confirms only what has happened
\* (communications/documents.py).
DocumentsOnce ==
    /\ \A c, d \in documents : c.kind = d.kind => c = d
    /\ {d.number : d \in documents} = 1..Cardinality(documents)
    /\ counter["DOCUMENT"] = Cardinality(documents)
    /\ {d.key : d \in documents} \subseteq stored
    /\ \A d \in documents : phase \in IssuedIn(d.kind)

\* An episode is reported once, even when its alert was dismissed and it is
\* still due, and an alert belongs to the first manager who handled it and only
\* goes forward (alerts/service.py).
AlertsForward ==
    [][/\ Len(alerts') >= Len(alerts)
       /\ \A i, j \in 1..Len(alerts') : alerts'[i].episode = alerts'[j].episode => i = j
       /\ \A i \in 1..Len(alerts) : alerts'[i] # alerts[i] =>
            /\ <<alerts[i].status, alerts'[i].status>> \in AlertMoves
            /\ alerts[i].assigned \in {None, alerts'[i].assigned}
      ]_alerts
=============================================================================
