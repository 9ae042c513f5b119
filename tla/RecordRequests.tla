--------------------------- MODULE RecordRequests ---------------------------
(***************************************************************************)
(* The handlers of CaseRecords and of IntakeMaterial on one database.      *)
(***************************************************************************)
EXTENDS CaseRecords, IntakeMaterial

\* Clients are bounded by numbers; a station has finitely many things due.
ASSUME RecordsAssumption ==
    /\ None \notin Key
    /\ IsFiniteSet(Episode)
    /\ MaxGuesses \in Nat /\ MaxUploads \in Nat

allVars == <<recordVars, intakeVars, transactionVars>>

UsedKeys == {d.key : d \in documents} \cup {uploads[f].key : f \in Uploads}

RecordsInit == TransactionInit /\ RecordInit /\ IntakeInit

\* Clients may leave it at that.
Quiet == (\A p \in Request : request[p].op = "idle") /\ UNCHANGED allVars

RecordsNext ==
    \/ Quiet
    \/ (CaseProceeds \/ DeadlinesChange) /\ UNCHANGED intakeVars
    \/ (ConsentsAge \/ UploadsAge \/ Refuse) /\ UNCHANGED recordVars
    \/ \E p \in Request :
         \/ RecordStep(p) /\ UNCHANGED intakeVars
         \/ IntakeStep(p) /\ UNCHANGED recordVars
         \/ (Save(p, UsedKeys) \/ Fail(p) \/ Crash(p)) /\ UNCHANGED <<recordVars, intakeVars>>

RecordsSpec == RecordsInit /\ [][RecordsNext]_allVars
=============================================================================
