-------------------------- MODULE DeskTransactions --------------------------
(***************************************************************************)
(* The handlers of the charge desk and of docket approval: all of them     *)
(* lock the complaint row first and serialize on it.                       *)
(***************************************************************************)
EXTENDS CaseTransactions

\* StationComplaintService.start_review.
ReviewLock(p) ==
    /\ At(p, "review", "complaint")
    /\ LET c == req[p].case
       IN  Check(p, InScope(p) /\ complaintStatus[c] = "SUBMITTED", "commit")

ReviewCommit(p) ==
    /\ At(p, "review", "commit")
    /\ Commit(p)
    /\ BeginReview(req[p].case)

-----------------------------------------------------------------------------
\* ComplaintDecisionService.decide reads the role once more before it locks.
DecideRole(p) ==
    /\ At(p, "decide", "decider")
    /\ Check(p, HasRole(p), "complaint")

\* Mutant: the complaint is read without its lock.
DecideLockMutant(p) ==
    /\ At(p, "decide", "complaint")
    /\ CheckUnlocked(p, InScope(p) /\ complaintStatus[req[p].case] \in DecidableStatuses,
                     "officer_key")

DecideLock(p) ==
    /\ At(p, "decide", "complaint")
    /\ Check(p, InScope(p) /\ complaintStatus[req[p].case] \in DecidableStatuses, "officer_key")

DecideCommit(p) ==
    /\ At(p, "decide", "commit")
    /\ Commit(p)
    /\ IF req[p].choice = "ACCEPTED"
         THEN RecordAcceptance(req[p].case)
         ELSE RecordRefusal(req[p].case, req[p].choice)

-----------------------------------------------------------------------------
\* DocketService.open: an existing docket is returned as it is.
OpenLock(p) ==
    /\ At(p, "open", "complaint")
    /\ LET c == req[p].case
       IN  Check(p, /\ InScope(p)
                    /\ \/ docketStatus[c] # "NONE"
                       \/ /\ complaintStatus[c] = "ACCEPTED"
                          /\ \E i \in 1..Len(decisions[c]) : decisions[c][i] = "ACCEPTED",
                 IF docketStatus[c] # "NONE" THEN "existing" ELSE "officer_key")

OpenExisting(p) ==
    /\ At(p, "open", "existing")
    /\ Commit(p)
    /\ UNCHANGED fileVars

OpenCommit(p) ==
    /\ At(p, "open", "commit")
    /\ Commit(p)
    /\ OpenDocket(req[p].case)
    /\ UNCHANGED decisions

-----------------------------------------------------------------------------
\* DocketService.approve: complaint row, then docket row.
ApproveLockComplaint(p) ==
    /\ At(p, "approve", "complaint")
    /\ Check(p, InScope(p) /\ docketStatus[req[p].case] # "NONE", "docket")

ApproveLockDocket(p) ==
    /\ At(p, "approve", "docket")
    /\ LET c == req[p].case
       IN  Check(p, docketStatus[c] = "PENDING_APPROVAL" /\ Len(approvals[c]) < MaxApprovals,
                 "officer_key")

ApproveCommit(p) ==
    /\ At(p, "approve", "commit")
    /\ Commit(p)
    /\ RecordApproval(req[p].case, req[p].choice)

-----------------------------------------------------------------------------
(***************************************************************************)
(* ComplaintIntakeService: statements and witnesses of a case.  The roles  *)
(* read before the complaint is locked choose whose rules apply.           *)
(***************************************************************************)
MaterialRole(p) ==
    /\ At(p, "material", "role")
    /\ req' = [req EXCEPT ![p].at = "complaint", ![p].choice = posting[req[p].actor].role]
    /\ UNCHANGED <<held, fileVars>>

MaterialLockComplaint(p) ==
    /\ At(p, "material", "complaint")
    /\ LET c == req[p].case
       IN  IF req[p].choice = "CHARGE_OFFICER"
             THEN Check(p, complaintStatus[c] # "UNREGISTERED", "desk_role")
             ELSE Check(p, req[p].choice \in RoleOf("material") /\ docketStatus[c] # "NONE", "posting")

MaterialScope(p) ==
    /\ At(p, "material", "scope")
    /\ Check(p, InScope(p), "docket")

\* Mutant: the docket of an investigator's statement is read without its lock.
MaterialLockDocketMutant(p) ==
    /\ At(p, "material", "docket")
    /\ LET c == req[p].case
       IN  CheckUnlocked(p, /\ InScope(p)
                            /\ Len(entries[c]) < MaxEntries
                            /\ IF req[p].choice = "CHARGE_OFFICER"
                                 THEN IntakeOpen(c)
                                 ELSE /\ assignee[c] = req[p].actor
                                      /\ docketStatus[c] \in WritableStatuses,
                         "officer_key")

\* The charge office: until approval.  The investigator: as for any case write.
MaterialLockDocket(p) ==
    /\ At(p, "material", "docket")
    /\ LET c == req[p].case
       IN  Check(p, /\ InScope(p)
                    /\ Len(entries[c]) < MaxEntries
                    /\ IF req[p].choice = "CHARGE_OFFICER"
                         THEN IntakeOpen(c)
                         ELSE /\ assignee[c] = req[p].actor
                              /\ docketStatus[c] \in WritableStatuses,
                 "officer_key")

MaterialCommit(p) ==
    /\ At(p, "material", "commit")
    /\ Commit(p)
    /\ RecordEntry(req[p].case, req[p].actor,
            IF req[p].choice = "CHARGE_OFFICER" THEN "STATION_INTAKE" ELSE "CASE_MATERIAL")

DeskStep(p) ==
    \/ ReviewLock(p) \/ ReviewCommit(p)
    \/ DecideRole(p) \/ DecideLock(p) \/ DecideCommit(p)
    \/ OpenLock(p) \/ OpenExisting(p) \/ OpenCommit(p)
    \/ ApproveLockComplaint(p) \/ ApproveLockDocket(p) \/ ApproveCommit(p)
    \/ MaterialRole(p) \/ MaterialLockComplaint(p) \/ MaterialScope(p)
    \/ MaterialLockDocket(p) \/ MaterialCommit(p)
=============================================================================
