--------------------------- MODULE EvidenceCustody ---------------------------
(***************************************************************************)
(* One evidence item of a docket: its chain of custody, its files and the  *)
(* private store that holds their bytes.  Items share no rows but those of *)
(* their docket, whose lock every handler takes first, so one item stands  *)
(* for each of them.                                                       *)
(*                                                                         *)
(* A handler reads the officer without a lock, locks the docket and the    *)
(* item until it ends, and commits its rows together.  The store is a      *)
(* directory: it knows no transaction and does not roll back.              *)
(***************************************************************************)
EXTENDS Naturals, Sequences, FiniteSets, FiniteSetsExt

CONSTANTS
    Officer,      \* investigators of the docket's station
    Desk,         \* a charge officer of the station
    None,
    Key,          \* object keys of the store
    Request,      \* transactions open at once
    MaxEvents     \* bound on the custody events of the item

ASSUME EvidenceAssumption ==
    /\ Desk \notin Officer
    /\ None \notin Officer \cup {Desk} \cup Key \cup Request
    /\ MaxEvents \in Nat

VARIABLES
    onDuty,       \* who is an active investigator of the station
    docket,       \* the status of the docket
    assignee,     \* the officer of its active assignment
    item,         \* evidence_items: status and current custodian
    events,       \* evidence_custody_events in occurred_at order
    files,        \* evidence_files: key and version
    stored,       \* the objects in the store
    request,      \* what each open transaction is doing
    docketLock,   \* the transaction that holds the docket row
    strays        \* history: objects a failure was allowed to leave behind

caseVars == <<onDuty, docket, assignee>>
custodyVars == <<item, events, files>>
evidenceVars == <<caseVars, custodyVars, stored, request, docketLock, strays>>

-----------------------------------------------------------------------------
Officers == Officer \cup {Desk}

\* APPROVED, ACTIVE and ON_HOLD are writable alike.
DocketPhases == {"PENDING_APPROVAL", "WRITABLE", "CLOSED"}

\* A custody change: the event, the statuses it starts from and the one it ends in.
Transition ==
    [TRANSFERRED        |-> [from |-> {"IN_CUSTODY", "TRANSFERRED"}, to |-> "TRANSFERRED"],
     ANALYSIS_STARTED   |-> [from |-> {"IN_CUSTODY", "TRANSFERRED"}, to |-> "UNDER_ANALYSIS"],
     ANALYSIS_COMPLETED |-> [from |-> {"UNDER_ANALYSIS"}, to |-> "IN_CUSTODY"],
     RELEASED           |-> [from |-> {"IN_CUSTODY", "TRANSFERRED"}, to |-> "RELEASED"],
     DISPOSED           |-> [from |-> {"IN_CUSTODY", "TRANSFERRED"}, to |-> "DISPOSED"]]

Changes == DOMAIN Transition

Ended == {"RELEASED", "DISPOSED"}

ItemStatuses == {"NONE", "IN_CUSTODY", "TRANSFERRED", "UNDER_ANALYSIS"} \cup Ended

EventTypes == Changes \cup {"REGISTERED", "ACCESSED"}

\* An event remembers, for the properties, the head its client had seen.
Events == [type : EventTypes, from : Officers \cup {None}, to : Officers \cup {None},
           seen : 0..MaxEvents]

Writes == {"register", "initial", "custody", "upload"}

Operations == Writes \cup {"download"}

\* custody_version: the last event that was more than an access.
CustodyVersion(es) ==
    LET changes == {i \in 1..Len(es) : es[i].type # "ACCESSED"}
    IN  IF changes = {} THEN 0 ELSE Max(changes)

Idle == [op |-> "idle", at |-> "idle", actor |-> None, type |-> "NONE",
         target |-> None, seen |-> 0, key |-> None, version |-> 0]

EvidenceInit ==
    /\ onDuty = [o \in Officer |-> TRUE]
    /\ docket = "PENDING_APPROVAL"
    /\ assignee = None
    /\ item = [status |-> "NONE", custodian |-> None]
    /\ events = <<>>
    /\ files = {}
    /\ stored = {}
    /\ request = [p \in Request |-> Idle]
    /\ docketLock = None
    /\ strays = {}

-----------------------------------------------------------------------------
\* The docket around the item: approval, assignment, closing, and the staff.
Approve ==
    /\ docketLock = None /\ docket = "PENDING_APPROVAL"
    /\ docket' = "WRITABLE"
    /\ UNCHANGED <<onDuty, assignee, custodyVars, stored, request, docketLock, strays>>

Assign(o) ==
    /\ docketLock = None /\ docket = "WRITABLE"
    /\ onDuty[o] /\ assignee # o
    /\ assignee' = o
    /\ UNCHANGED <<onDuty, docket, custodyVars, stored, request, docketLock, strays>>

Close ==
    /\ docketLock = None /\ docket = "WRITABLE" /\ assignee # None
    /\ docket' = "CLOSED"
    /\ UNCHANGED <<onDuty, assignee, custodyVars, stored, request, docketLock, strays>>

ChangeDuty(o) ==
    /\ onDuty' = [onDuty EXCEPT ![o] = ~@]
    /\ UNCHANGED <<docket, assignee, custodyVars, stored, request, docketLock, strays>>

-----------------------------------------------------------------------------
At(p, op, step) == request[p].op = op /\ request[p].at = step

Go(p, step) ==
    /\ request' = [request EXCEPT ![p].at = step]
    /\ UNCHANGED docketLock

Finish(p) ==
    /\ request' = [request EXCEPT ![p] = Idle]
    /\ docketLock' = IF docketLock = p THEN None ELSE docketLock

\* A client calls, with the version it last saw for a custody change, and the
\* active officer and the role are read without a lock.
Begin(p) ==
    /\ request[p] = Idle
    /\ \E op \in Operations, o \in Officers :
         /\ IF op = "initial" THEN o = Desk ELSE o \in Officer /\ onDuty[o]
         /\ \E type \in (IF op = "custody" THEN Changes ELSE {"NONE"}),
               target \in Officer \cup {None},
               seen \in (IF op = "custody" THEN {i \in 1..Len(events) : events[i].type # "ACCESSED"} ELSE {0}) :
              /\ target # None <=> type = "TRANSFERRED"
              /\ request' = [request EXCEPT ![p] =
                    [op |-> op, at |-> "scope", actor |-> o, type |-> type,
                     target |-> target, seen |-> seen, key |-> None, version |-> 0]]
    /\ UNCHANGED <<caseVars, custodyVars, stored, docketLock, strays>>

-----------------------------------------------------------------------------
\* The scope of the request: the assignment (for the desk, an open intake), the
\* status of the docket, and for a write custody that has not ended.
InScope(p) ==
    /\ IF request[p].op = "initial"
         THEN docket = "PENDING_APPROVAL"
         ELSE assignee = request[p].actor
    /\ request[p].op \in {"register", "custody", "upload"} => docket = "WRITABLE"
    /\ IF request[p].op \in {"register", "initial"}
         THEN item.status = "NONE"
         ELSE item.status # "NONE"
    /\ request[p].op \in {"custody", "upload"} => item.status \notin Ended

\* Mutant: the version the client sent is not compared.
CurrentMutant(p) == item.status \in Transition[request[p].type].from

Current(p) ==
    /\ request[p].seen = CustodyVersion(events)
    /\ item.status \in Transition[request[p].type].from

NextStep(p) ==
    CASE request[p].type = "TRANSFERRED" -> "target"
      [] request[p].op = "upload" -> "save"
      [] OTHER -> "commit"

\* Mutant: docket and item are read without FOR UPDATE.
LockScopeMutant(p) ==
    /\ request[p].at = "scope"
    /\ IF InScope(p) /\ (request[p].op = "custody" => Current(p))
         THEN Go(p, NextStep(p))
         ELSE Finish(p)
    /\ UNCHANGED <<caseVars, custodyVars, stored, strays>>

\* scope and item_scope: the docket row, then the item.
LockScope(p) ==
    /\ request[p].at = "scope"
    /\ docketLock = None
    /\ IF InScope(p) /\ (request[p].op = "custody" => Current(p))
         THEN /\ docketLock' = p
              /\ request' = [request EXCEPT ![p].at = NextStep(p)]
         ELSE Finish(p)
    /\ UNCHANGED <<caseVars, custodyVars, stored, strays>>

\* The new custodian, read without a lock while the item is locked.
ReadTarget(p) ==
    /\ At(p, "custody", "target")
    /\ IF onDuty[request[p].target] /\ request[p].target # item.custodian
         THEN Go(p, "commit")
         ELSE Finish(p)
    /\ UNCHANGED <<caseVars, custodyVars, stored, strays>>

\* EvidenceStorage.save, under a new key: the bytes are on disk before the row
\* exists.  The row gets the next version of the item.
SaveFile(p) ==
    /\ At(p, "upload", "save")
    /\ LET versions == {f.version : f \in files}
       IN  \E key \in Key \ (stored \cup {f.key : f \in files}) :
             /\ stored' = stored \cup {key}
             /\ request' = [request EXCEPT ![p].at = "commit", ![p].key = key,
                    ![p].version = IF versions = {} THEN 1 ELSE Max(versions) + 1]
    /\ UNCHANGED <<caseVars, custodyVars, docketLock, strays>>

-----------------------------------------------------------------------------
NewEvent(p, type, to) ==
    /\ Len(events) < MaxEvents
    /\ events' = Append(events,
            [type |-> type, from |-> item.custodian, to |-> to, seen |-> request[p].seen])

CommitRegister(p) ==
    /\ request[p].op \in {"register", "initial"} /\ request[p].at = "commit"
    /\ NewEvent(p, "REGISTERED", request[p].actor)
    /\ item' = [status |-> "IN_CUSTODY", custodian |-> request[p].actor]
    /\ Finish(p)
    /\ UNCHANGED <<caseVars, files, stored, strays>>

\* Mutant: the item takes the name of the event as its status.
CommitCustodyMutant(p) ==
    /\ At(p, "custody", "commit")
    /\ NewEvent(p, request[p].type, item.custodian)
    /\ item' = [item EXCEPT !.status = request[p].type]
    /\ Finish(p)
    /\ UNCHANGED <<caseVars, files, stored, strays>>

CommitCustody(p) ==
    /\ At(p, "custody", "commit")
    /\ LET type == request[p].type
           to == CASE type = "TRANSFERRED" -> request[p].target
                   [] type \in Ended -> None
                   [] OTHER -> item.custodian
       IN  /\ NewEvent(p, type, to)
           /\ item' = [status |-> Transition[type].to, custodian |-> to]
    /\ Finish(p)
    /\ UNCHANGED <<caseVars, files, stored, strays>>

\* A verified download is an event of the chain as well.
CommitDownload(p) ==
    /\ At(p, "download", "commit")
    /\ \E f \in files : f.key \in stored
    /\ NewEvent(p, "ACCESSED", item.custodian)
    /\ Finish(p)
    /\ UNCHANGED <<caseVars, item, files, stored, strays>>

CommitUpload(p) ==
    /\ At(p, "upload", "commit")
    /\ files' = files \cup {[key |-> request[p].key, version |-> request[p].version]}
    /\ Finish(p)
    /\ UNCHANGED <<caseVars, item, events, stored, strays>>

\* Mutant: the object is discarded although the COMMIT was sent and took place.
UncertainMutant(p) ==
    /\ At(p, "upload", "commit")
    /\ stored' = stored \ {request[p].key}
    /\ files' = files \cup {[key |-> request[p].key, version |-> request[p].version]}
    /\ Finish(p)
    /\ UNCHANGED <<caseVars, item, events, strays>>

\* The connection breaks during COMMIT, and the commit did not take place: the
\* service cannot know, and keeps the object.
Uncertain(p) ==
    /\ At(p, "upload", "commit")
    /\ strays' = strays \cup {request[p].key}
    /\ Finish(p)
    /\ UNCHANGED <<caseVars, custodyVars, stored>>

\* An error before COMMIT is sent: the rows are rolled back and the object is
\* discarded, or left if the store refuses.
Fail(p) ==
    /\ request[p] # Idle
    /\ \/ stored' = stored \ {request[p].key} /\ UNCHANGED strays
       \/ /\ request[p].key \in stored
          /\ strays' = strays \cup {request[p].key} /\ UNCHANGED stored
    /\ Finish(p)
    /\ UNCHANGED <<caseVars, custodyVars>>

\* The process stops: PostgreSQL rolls back, nobody discards the object.
Crash(p) ==
    /\ request[p] # Idle
    /\ strays' = strays \cup ({request[p].key} \cap stored)
    /\ Finish(p)
    /\ UNCHANGED <<caseVars, custodyVars, stored>>

Step(p) ==
    \/ Begin(p) \/ LockScope(p) \/ ReadTarget(p)
    \/ SaveFile(p)
    \/ CommitRegister(p) \/ CommitCustody(p) \/ CommitDownload(p) \/ CommitUpload(p)
    \/ Uncertain(p) \/ Fail(p) \/ Crash(p)

EvidenceNext ==
    \/ Approve \/ Close
    \/ \E o \in Officer : Assign(o) \/ ChangeDuty(o)
    \/ \E p \in Request : Step(p)

EvidenceSpec == EvidenceInit /\ [][EvidenceNext]_evidenceVars

-----------------------------------------------------------------------------
EvidenceTypeOK ==
    /\ onDuty \in [Officer -> BOOLEAN]
    /\ docket \in DocketPhases
    /\ assignee \in Officer \cup {None}
    /\ item \in [status : ItemStatuses, custodian : Officers \cup {None}]
    /\ events \in Seq(Events)
    /\ files \subseteq [key : Key, version : Nat]
    /\ stored \subseteq Key
    /\ request \in [Request -> [op : Operations \cup {"idle"},
            at : {"idle", "scope", "target", "save", "commit"},
            actor : Officers \cup {None}, type : Changes \cup {"NONE"},
            target : Officer \cup {None}, seen : 0..MaxEvents,
            key : Key \cup {None}, version : Nat]]
    /\ docketLock \in Request \cup {None}
    /\ strays \subseteq Key

StatusAfter(type) == IF type = "REGISTERED" THEN "IN_CUSTODY" ELSE Transition[type].to

\* The chain of custody has no gap and no fork: it starts with the registration,
\* every event hands over from whom the one before left it to, every change was
\* asked for by somebody who had seen the change before it, none follows the
\* end of custody, and the item says what the chain says (EvidenceService.custody,
\* register and download).
ChainUnbroken ==
    /\ item.status = "NONE" <=> events = <<>>
    /\ \A i \in 1..Len(events) :
         LET e == events[i]
             h == CustodyVersion(SubSeq(events, 1, i - 1))
         IN  IF i = 1
               THEN e.type = "REGISTERED" /\ e.from = None
               ELSE /\ e.type # "REGISTERED"
                    /\ e.from = events[h].to
                    /\ e.type = "ACCESSED" => e.to = e.from
                    /\ e.type # "ACCESSED" =>
                         /\ e.seen = h
                         /\ StatusAfter(events[h].type) \in Transition[e.type].from
    /\ events # <<>> =>
         /\ item.custodian = events[CustodyVersion(events)].to
         /\ item.status = StatusAfter(events[CustodyVersion(events)].type)

\* Rows and store agree: the bytes of every committed file are there, versions
\* are numbered from 1 without gap or double, and an object without a row
\* belongs to an upload under way or was left by a failure nobody could clean up
\* (EvidenceService.upload: "preserve the private object for reconciliation
\* rather than risk deleting evidence whose metadata was actually committed").
FilesAgree ==
    /\ {f.key : f \in files} \subseteq stored
    /\ {f.version : f \in files} = 1..Cardinality(files)
    /\ \A k \in stored \ ({f.key : f \in files} \cup strays) :
         \E p \in Request : request[p].key = k

\* Whoever writes to the item is, at the commit, the officer the docket is
\* assigned to and the docket is open; the desk writes only before approval; no
\* file is added once custody has ended.
WrittenInCharge ==
    [][custodyVars' # custodyVars =>
          \E p \in Request :
             /\ request[p] # Idle /\ request'[p] = Idle
             /\ IF request[p].op = "initial"
                  THEN docket = "PENDING_APPROVAL"
                  ELSE /\ assignee = request[p].actor
                       /\ request[p].op # "download" => docket = "WRITABLE"
             /\ files' # files => item.status \notin Ended
      ]_evidenceVars
=============================================================================
