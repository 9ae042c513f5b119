------------------------ MODULE RefusalTransactions -------------------------
(***************************************************************************)
(* Review of refused complaints: the commander's review of any refusal,    *)
(* and the escalation queues of the station commander and of the NCC.      *)
(***************************************************************************)
EXTENDS CaseTransactions

\* commander_review.scope(write=True): the complaint row, then its refusal.
ReviewRefusalLock(p) ==
    /\ At(p, "refusal_review", "complaint")
    /\ LET c == req[p].case
           n == Len(decisions[c])
       IN  Check(p, /\ InScope(p)
                    /\ n > 0 /\ decisions[c][n] = "REFUSED"
                    /\ Refused(c),
                 "escalation")

\* act_on_review: the escalation row, if there is one.
ReviewRefusalRecord(p) ==
    /\ At(p, "refusal_review", "escalation")
    /\ Check(p, req[p].choice = "ACKNOWLEDGE" =>
                  escalation[req[p].case]["STATION_COMMANDER"] # "RESOLVED", "commit")

\* A review that is there already is returned unchanged.
ReviewRefusalCommit(p) ==
    /\ At(p, "refusal_review", "commit")
    /\ Commit(p)
    /\ LET c == req[p].case
           found == escalation[c][EscalationTarget(p)]
       IN  CASE req[p].choice = "ACKNOWLEDGE" /\ found \in {"NONE", "OPEN"} ->
                    SetEscalation(c, "STATION_COMMANDER", "ACKNOWLEDGED")
             [] req[p].choice = "ESCALATE" /\ found = "NONE" -> ForwardToNCC(c)
             [] OTHER -> UNCHANGED fileVars

\* _update_escalation: one joined SELECT ... FOR UPDATE locks the escalation
\* row and then the complaint row.
EscalationLock(p) ==
    /\ req[p].op \in {"escalation", "ncc_escalation"}
    /\ req[p].at = "escalation"
    /\ Check(p, escalation[req[p].case][EscalationTarget(p)] # "NONE", "complaint")

\* Mutant: the status of the review is not looked at.
EscalationLockComplaintMutant(p) ==
    /\ req[p].op \in {"escalation", "ncc_escalation"}
    /\ req[p].at = "complaint"
    /\ Check(p, req[p].op = "escalation" => InScope(p), "commit")

EscalationLockComplaint(p) ==
    /\ req[p].op \in {"escalation", "ncc_escalation"}
    /\ req[p].at = "complaint"
    /\ LET found == escalation[req[p].case][EscalationTarget(p)]
       IN  Check(p, /\ req[p].op = "escalation" => InScope(p)
                    /\ IF req[p].choice = "ACKNOWLEDGED"
                         THEN found = "OPEN"
                         ELSE found # "RESOLVED",
                 "commit")

EscalationCommit(p) ==
    /\ req[p].op \in {"escalation", "ncc_escalation"}
    /\ req[p].at = "commit"
    /\ Commit(p)
    /\ SetEscalation(req[p].case, EscalationTarget(p), req[p].choice)

RefusalStep(p) ==
    \/ ReviewRefusalLock(p) \/ ReviewRefusalRecord(p) \/ ReviewRefusalCommit(p)
    \/ EscalationLock(p) \/ EscalationLockComplaint(p) \/ EscalationCommit(p)
=============================================================================
