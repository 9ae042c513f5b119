--------------------- MODULE InvestigationTransactions ----------------------
(***************************************************************************)
(* The investigation service and the administrator.  Every handler of the  *)
(* service locks the docket row first; an assignment and a change of staff *)
(* meet on the row of the officer they are about.                          *)
(***************************************************************************)
EXTENDS CaseTransactions

\* InvestigationService.scope: the docket row, the station, the assignment.
Scope(p, ok) ==
    LET c == req[p].case
    IN  /\ docketStatus[c] # "NONE"
        /\ InScope(p)
        /\ docketStatus[c] \in WritableStatuses
        /\ req[p].op \in {"note", "status"} => assignee[c] = req[p].actor
        /\ ok

-----------------------------------------------------------------------------
\* InvestigationService.assign.
AssignLockDocket(p) ==
    /\ At(p, "assign", "docket")
    /\ Check(p, Scope(p, Len(history[req[p].case]) < MaxHistory), "target")

\* Mutant: the officer row is read without its lock.
AssignLockTargetMutant(p) ==
    /\ At(p, "assign", "target")
    /\ CheckUnlocked(p, posting[req[p].target].station = req[p].seen, "eligible")

\* The officer row of the investigator, locked and read again.
AssignLockTarget(p) ==
    /\ At(p, "assign", "target")
    /\ Check(p, posting[req[p].target].station = req[p].seen, "eligible")

AssignEligible(p) ==
    /\ At(p, "assign", "eligible")
    /\ LET t == req[p].target
       IN  Check(p, posting[t].active /\ posting[t].role = "INVESTIGATING_OFFICER", "busy")

\* Not assigned to this docket already, and free of any unfinished docket.
AssignFree(p) ==
    /\ At(p, "assign", "busy")
    /\ LET c == req[p].case
           t == req[p].target
       IN  Check(p, assignee[c] # t /\ ~Busy(t),
                 IF docketStatus[c] = "APPROVED" THEN "trigger" ELSE "officer_key")

\* Activating the docket updates its row: the trigger locks the complaint.
AssignTrigger(p) ==
    /\ At(p, "assign", "trigger")
    /\ Check(p, TRUE, "user_key")

AssignCommit(p) ==
    /\ At(p, "assign", "commit")
    /\ Commit(p)
    /\ RecordAssignment(req[p].case, req[p].target)

-----------------------------------------------------------------------------
UnassignLock(p) ==
    /\ At(p, "unassign", "docket")
    /\ Check(p, Scope(p, assignee[req[p].case] # None), "commit")

UnassignCommit(p) ==
    /\ At(p, "unassign", "commit")
    /\ Commit(p)
    /\ EndAssignment(req[p].case)

-----------------------------------------------------------------------------
NoteLock(p) ==
    /\ At(p, "note", "docket")
    /\ Check(p, Scope(p, Len(entries[req[p].case]) < MaxEntries), "officer_key")

NoteCommit(p) ==
    /\ At(p, "note", "commit")
    /\ Commit(p)
    /\ RecordEntry(req[p].case, req[p].actor, "NOTE")

-----------------------------------------------------------------------------
\* Mutant: the docket of a status change is read without its lock.
StatusLockMutant(p) ==
    /\ At(p, "status", "docket")
    /\ LET c == req[p].case
       IN  CheckUnlocked(p, Scope(p, /\ docketStatus[c] = req[p].expected
                                     /\ <<docketStatus[c], req[p].choice>> \in StatusTransitions
                                     /\ Len(history[c]) < MaxHistory),
                         "trigger")

\* InvestigationService.update_status: the docket must still be in the status
\* the investigator saw.
StatusLock(p) ==
    /\ At(p, "status", "docket")
    /\ LET c == req[p].case
       IN  Check(p, Scope(p, /\ docketStatus[c] = req[p].expected
                             /\ <<docketStatus[c], req[p].choice>> \in StatusTransitions
                             /\ Len(history[c]) < MaxHistory),
                 "trigger")

StatusTrigger(p) ==
    /\ At(p, "status", "trigger")
    /\ Check(p, TRUE, "commit")

StatusCommit(p) ==
    /\ At(p, "status", "commit")
    /\ Commit(p)
    /\ RecordStatus(req[p].case, req[p].choice)

-----------------------------------------------------------------------------
\* AdministrationService.change: the user row, the officer row, then the check
\* that a move leaves no unfinished docket behind.
ChangeLockUser(p) ==
    /\ At(p, "change", "user")
    /\ Check(p, TRUE, "target")

ChangeLockOfficer(p) ==
    /\ At(p, "change", "target")
    /\ Check(p, TRUE, "moving")

ChangeMoving(p) ==
    /\ At(p, "change", "moving")
    /\ Check(p, Moving(req[p].target, req[p].post) => ~Busy(req[p].target), "commit")

ChangeCommit(p) ==
    /\ At(p, "change", "commit")
    /\ Commit(p)
    /\ RecordPosting(req[p].target, req[p].post)

InvestigationStep(p) ==
    \/ AssignLockDocket(p) \/ AssignLockTarget(p) \/ AssignEligible(p)
    \/ AssignFree(p) \/ AssignTrigger(p) \/ AssignCommit(p)
    \/ UnassignLock(p) \/ UnassignCommit(p)
    \/ NoteLock(p) \/ NoteCommit(p)
    \/ StatusLock(p) \/ StatusTrigger(p) \/ StatusCommit(p)
    \/ ChangeLockUser(p) \/ ChangeLockOfficer(p) \/ ChangeMoving(p) \/ ChangeCommit(p)
=============================================================================
