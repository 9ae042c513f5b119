--------------------------- MODULE EvidenceProofs ---------------------------
(***************************************************************************)
(* EvidenceCustody for any number of officers, transactions and object     *)
(* keys: the chain of custody never forks or breaks, the rows of the files *)
(* have their bytes, and who writes is in charge of the docket.            *)
(***************************************************************************)
EXTENDS EvidenceCustody, SequenceTheorems, FiniteSetTheorems, TLAPS

-----------------------------------------------------------------------------
(***************************************************************************)
(* The inductive invariant.                                                *)
(***************************************************************************)
Inside(p) == request[p].at \in {"target", "save", "commit"}

\* Past the scope a request holds the lock of the docket.
OneWriter == \A p \in Request : Inside(p) => docketLock = p

\* What the scope has shown is still so.
Admitted ==
    \A p \in Request : Inside(p) =>
        /\ InScope(p)
        /\ request[p].op = "custody" => Current(p)

\* What a request asks for fits how far it is.
Asked ==
    \A p \in Request :
        /\ request[p].op = "custody" <=> request[p].type \in Changes
        /\ request[p].type = "TRANSFERRED" => request[p].target \in Officer
        /\ request[p].at = "target" => request[p].op = "custody"
        /\ request[p].at = "save" => request[p].op = "upload"

\* Only an upload that is about to commit has an object, and no row has it yet.
Saved ==
    \A p \in Request :
        /\ request[p].key # None => request[p].at = "commit" /\ request[p].op = "upload"
        /\ request[p].at = "commit" /\ request[p].op = "upload" =>
              /\ request[p].key \in stored
              /\ \A f \in files : f.key # request[p].key
              /\ request[p].version = Cardinality(files) + 1

Counting ==
    /\ IsFiniteSet(files)
    /\ Len(events) <= MaxEvents
    /\ item.status = "NONE" => item.custodian = None

\* The last change of custody among the first n events.
Newest(h, n) ==
    /\ events[h].type # "ACCESSED"
    /\ \A i \in 1..n : events[i].type # "ACCESSED" => i <= h

\* Every prefix of the chain has one.
Headed == \A n \in 1..Len(events) : \E h \in 1..n : Newest(h, n)

EvidenceInv ==
    /\ EvidenceTypeOK
    /\ OneWriter /\ Admitted /\ Asked /\ Saved /\ Counting /\ Headed
    /\ ChainUnbroken /\ FilesAgree

-----------------------------------------------------------------------------
(***************************************************************************)
(* The chain after one more event.                                         *)
(***************************************************************************)
\* The newest change is the version of the custody.
LEMMA VersionIsNewest ==
    ASSUME NEW es \in Seq(Events), NEW h \in 1..Len(es),
           es[h].type # "ACCESSED",
           \A i \in 1..Len(es) : es[i].type # "ACCESSED" => i <= h
    PROVE  CustodyVersion(es) = h
  <1> DEFINE S == {i \in 1..Len(es) : es[i].type # "ACCESSED"}
  <1>1. h \in S /\ \A x \in S : h >= x
    OBVIOUS
  <1>2. \A m \in S : (\A x \in S : m >= x) => m = h
    BY <1>1
  <1>3. Max(S) = h
    BY <1>1, <1>2 DEF Max
  <1>4. QED
    BY <1>1, <1>3 DEF CustodyVersion

\* A prefix of a chain is not touched by an append.
LEMMA PrefixKept ==
    ASSUME NEW es \in Seq(Events), NEW e \in Events, NEW i \in 1..Len(es) + 1
    PROVE  SubSeq(Append(es, e), 1, i - 1) = SubSeq(es, 1, i - 1)
  <1>1. /\ Append(es, e) \in Seq(Events)
        /\ \A j \in 1..Len(es) : Append(es, e)[j] = es[j]
    BY AppendProperties
  <1>2. \A j \in 1..i - 1 : es[j] \in Events /\ Append(es, e)[j] = es[j]
    BY <1>1
  <1>3. /\ SubSeq(es, 1, i - 1) \in Seq(Events)
        /\ Len(SubSeq(es, 1, i - 1)) = IF 1 <= i - 1 THEN i - 1 - 1 + 1 ELSE 0
        /\ \A j \in 1..i - 1 - 1 + 1 : SubSeq(es, 1, i - 1)[j] = es[1 + j - 1]
    <2>1. 1 \in Int /\ i - 1 \in Int /\ \A j \in 1..i - 1 : es[j] \in Events
      BY <1>2
    <2>2. QED
      BY <2>1, SubSeqProperties
  <1>4. /\ SubSeq(Append(es, e), 1, i - 1) \in Seq(Events)
        /\ Len(SubSeq(Append(es, e), 1, i - 1)) = IF 1 <= i - 1 THEN i - 1 - 1 + 1 ELSE 0
        /\ \A j \in 1..i - 1 - 1 + 1 : SubSeq(Append(es, e), 1, i - 1)[j] = Append(es, e)[1 + j - 1]
    <2>1. 1 \in Int /\ i - 1 \in Int /\ \A j \in 1..i - 1 : Append(es, e)[j] \in Events
      BY <1>2
    <2>2. QED
      BY <2>1, SubSeqProperties
  <1>5. \A j \in 1..Len(SubSeq(es, 1, i - 1)) :
            SubSeq(Append(es, e), 1, i - 1)[j] = SubSeq(es, 1, i - 1)[j]
    BY <1>2, <1>3, <1>4
  <1>6. QED
    BY <1>3, <1>4, <1>5, SeqEqual

\* The whole chain is the longest prefix of the longer one.
LEMMA WholePrefix ==
    ASSUME NEW es \in Seq(Events), NEW e \in Events
    PROVE  SubSeq(Append(es, e), 1, Len(es) + 1 - 1) = es
  <1>1. Len(es) \in Nat /\ Len(es) + 1 \in 1..Len(es) + 1
    OBVIOUS
  <1>2. SubSeq(Append(es, e), 1, Len(es) + 1 - 1) = SubSeq(es, 1, Len(es) + 1 - 1)
    BY <1>1, PrefixKept
  <1>3. SubSeq(es, 1, Len(es)) = es
    BY SubSeqFull
  <1>4. QED
    BY <1>1, <1>2, <1>3

\* The table of the changes: where each starts and ends.
LEMMA TransitionFacts ==
    ASSUME NEW t \in Changes
    PROVE  /\ Transition[t].to \in ItemStatuses \ {"NONE"}
           /\ t \in EventTypes /\ t \notin {"ACCESSED", "REGISTERED", "NONE"}
           /\ Transition[t].from \cap (Ended \cup {"NONE"}) = {}
           /\ StatusAfter(t) = Transition[t].to
           /\ t \in Ended <=> Transition[t].to \in Ended
  <1>1. Changes = {"TRANSFERRED", "ANALYSIS_STARTED", "ANALYSIS_COMPLETED", "RELEASED", "DISPOSED"}
    BY DEF Changes, Transition
  <1>2. /\ Transition["TRANSFERRED"].from = {"IN_CUSTODY", "TRANSFERRED"}
        /\ Transition["TRANSFERRED"].to = "TRANSFERRED"
        /\ Transition["ANALYSIS_STARTED"].from = {"IN_CUSTODY", "TRANSFERRED"}
        /\ Transition["ANALYSIS_STARTED"].to = "UNDER_ANALYSIS"
        /\ Transition["ANALYSIS_COMPLETED"].from = {"UNDER_ANALYSIS"}
        /\ Transition["ANALYSIS_COMPLETED"].to = "IN_CUSTODY"
        /\ Transition["RELEASED"].from = {"IN_CUSTODY", "TRANSFERRED"}
        /\ Transition["RELEASED"].to = "RELEASED"
        /\ Transition["DISPOSED"].from = {"IN_CUSTODY", "TRANSFERRED"}
        /\ Transition["DISPOSED"].to = "DISPOSED"
    BY DEF Transition
  <1>3. QED
    BY <1>1, <1>2 DEF ItemStatuses, EventTypes, Ended, StatusAfter

\* An event is well typed, and the older ones stay.
LEMMA EventAppended ==
    ASSUME EvidenceInv, NEW p \in Request, NEW type \in EventTypes,
           NEW to \in Officers \cup {None}, NewEvent(p, type, to)
    PROVE  /\ events' \in Seq(Events)
           /\ Len(events') = Len(events) + 1 /\ Len(events') <= MaxEvents
           /\ events' # <<>>
           /\ \A i \in 1..Len(events) :
                events'[i] = events[i] /\ SubSeq(events', 1, i - 1) = SubSeq(events, 1, i - 1)
           /\ SubSeq(events', 1, Len(events) + 1 - 1) = events
           /\ events'[Len(events) + 1].type = type
           /\ events'[Len(events) + 1].from = item.custodian
           /\ events'[Len(events) + 1].to = to
           /\ events'[Len(events) + 1].seen = request[p].seen
  <1> DEFINE e == [type |-> type, from |-> item.custodian, to |-> to, seen |-> request[p].seen]
  <1>1. e \in Events /\ events \in Seq(Events)
    <2>1. request[p].seen \in 0..MaxEvents /\ item.custodian \in Officers \cup {None}
      BY DEF EvidenceInv, EvidenceTypeOK
    <2>2. QED
      BY <2>1 DEF EvidenceInv, EvidenceTypeOK, Events
  <1>2. events' = Append(events, e) /\ Len(events) < MaxEvents
    BY DEF NewEvent
  <1>3. /\ events' \in Seq(Events) /\ events' # <<>>
        /\ Len(events') = Len(events) + 1 /\ Len(events) \in Nat
        /\ \A i \in 1..Len(events) : events'[i] = events[i]
        /\ events'[Len(events) + 1] = e
    BY <1>1, <1>2, AppendProperties
  <1>4. \A i \in 1..Len(events) : SubSeq(events', 1, i - 1) = SubSeq(events, 1, i - 1)
    BY <1>1, <1>2, <1>3, PrefixKept
  <1>5. SubSeq(events', 1, Len(events) + 1 - 1) = events
    BY <1>1, <1>2, WholePrefix
  <1>6. QED
    BY <1>2, <1>3, <1>4, <1>5, EvidenceAssumption

\* The newest change, after a change and after an access.
LEMMA HeadMoves ==
    ASSUME EvidenceInv, NEW p \in Request, NEW type \in EventTypes,
           NEW to \in Officers \cup {None}, NewEvent(p, type, to),
           type = "ACCESSED" => events # <<>>
    PROVE  /\ Headed'
           /\ CustodyVersion(events') =
                IF type = "ACCESSED" THEN CustodyVersion(events) ELSE Len(events) + 1
           /\ events # <<>> => CustodyVersion(events) \in 1..Len(events)
  <1>1. /\ events' \in Seq(Events) /\ events \in Seq(Events)
        /\ Len(events') = Len(events) + 1 /\ Len(events) \in Nat
        /\ \A i \in 1..Len(events) : events'[i] = events[i]
        /\ events'[Len(events) + 1].type = type
    BY EventAppended DEF EvidenceInv, EvidenceTypeOK
  <1>2. events # <<>> => \E h \in 1..Len(events) : Newest(h, Len(events))
    BY <1>1 DEF EvidenceInv, Headed
  <1>3. \A h \in 1..Len(events) : Newest(h, Len(events)) => CustodyVersion(events) = h
    BY <1>1, VersionIsNewest DEF Newest
  <1>4. ASSUME NEW n \in 1..Len(events)
        PROVE  \E h \in 1..n : Newest(h, n)'
    <2>1. PICK h \in 1..n : Newest(h, n)
      BY DEF EvidenceInv, Headed
    <2>2. Newest(h, n)'
      BY <1>1, <2>1 DEF Newest
    <2>3. QED
      BY <2>2
  <1>5. CASE type = "ACCESSED"
    <2>1. PICK h \in 1..Len(events) : Newest(h, Len(events))
      BY <1>2, <1>5
    <2>2. /\ h \in 1..Len(events') /\ events'[h].type # "ACCESSED"
          /\ \A i \in 1..Len(events') : events'[i].type # "ACCESSED" => i <= h
      BY <1>1, <1>5, <2>1 DEF Newest
    <2>3. CustodyVersion(events') = h
      BY <1>1, <2>2, VersionIsNewest
    <2>4. ASSUME NEW n \in 1..Len(events')
          PROVE  \E g \in 1..n : Newest(g, n)'
      <3>1. CASE n \in 1..Len(events)
        BY <1>4, <3>1
      <3>2. CASE n = Len(events')
        BY <2>2, <3>2 DEF Newest
      <3>3. QED
        BY <1>1, <3>1, <3>2
    <2>5. Headed'
      BY <2>4 DEF Headed
    <2>6. QED
      BY <1>3, <1>5, <2>1, <2>3, <2>5
  <1>6. CASE type # "ACCESSED"
    <2>1. /\ Len(events) + 1 \in 1..Len(events')
          /\ events'[Len(events) + 1].type # "ACCESSED"
          /\ \A i \in 1..Len(events') : events'[i].type # "ACCESSED" => i <= Len(events) + 1
      BY <1>1, <1>6
    <2>2. CustodyVersion(events') = Len(events) + 1
      BY <1>1, <2>1, VersionIsNewest
    <2>3. Headed'
      BY <1>1, <1>4, <2>1 DEF Headed, Newest
    <2>4. QED
      BY <1>2, <1>3, <1>6, <2>2, <2>3
  <1>7. QED
    BY <1>5, <1>6

\* Before an event that is not the first there is a newest change.
LEMMA PrefixVersion ==
    ASSUME EvidenceInv, NEW i \in 2..Len(events)
    PROVE  CustodyVersion(SubSeq(events, 1, i - 1)) \in 1..i - 1
  <1>1. events \in Seq(Events) /\ Len(events) \in Nat
    BY DEF EvidenceInv, EvidenceTypeOK
  <1>2. PICK h \in 1..i - 1 : Newest(h, i - 1)
    BY <1>1 DEF EvidenceInv, Headed
  <1>3. /\ 1 \in Int /\ i - 1 \in Int /\ \A j \in 1..i - 1 : events[j] \in Events
    BY <1>1
  <1>4. /\ SubSeq(events, 1, i - 1) \in Seq(Events)
        /\ Len(SubSeq(events, 1, i - 1)) = IF 1 <= i - 1 THEN i - 1 - 1 + 1 ELSE 0
        /\ \A j \in 1..i - 1 - 1 + 1 : SubSeq(events, 1, i - 1)[j] = events[1 + j - 1]
    BY <1>3, SubSeqProperties
  <1>5. /\ Len(SubSeq(events, 1, i - 1)) = i - 1
        /\ \A j \in 1..i - 1 : SubSeq(events, 1, i - 1)[j] = events[j]
    BY <1>4
  <1>6. CustodyVersion(SubSeq(events, 1, i - 1)) = h
    BY <1>2, <1>4, <1>5, VersionIsNewest DEF Newest
  <1>7. QED
    BY <1>6

\* The chain stays unbroken if the new event is linked and the item follows.
LEMMA ChainExtended ==
    ASSUME EvidenceInv, NEW p \in Request, NEW type \in EventTypes,
           NEW to \in Officers \cup {None}, NewEvent(p, type, to),
           item'.status # "NONE",
           \/ /\ type = "REGISTERED" /\ events = <<>>
              /\ item'.status = "IN_CUSTODY" /\ item'.custodian = to
           \/ /\ type = "ACCESSED" /\ events # <<>>
              /\ to = item.custodian /\ item' = item
           \/ /\ type \in Changes /\ events # <<>>
              /\ request[p].seen = CustodyVersion(events)
              /\ item.status \in Transition[type].from
              /\ item'.status = Transition[type].to /\ item'.custodian = to
    PROVE  ChainUnbroken'
  <1> DEFINE n == Len(events) + 1
  <1>1. /\ events' \in Seq(Events) /\ events' # <<>>
        /\ Len(events') = n /\ Len(events) \in Nat
        /\ \A i \in 1..Len(events) :
             events'[i] = events[i] /\ SubSeq(events', 1, i - 1) = SubSeq(events, 1, i - 1)
        /\ SubSeq(events', 1, n - 1) = events
        /\ events'[n].type = type /\ events'[n].from = item.custodian
        /\ events'[n].to = to /\ events'[n].seen = request[p].seen
    BY EventAppended DEF EvidenceInv, EvidenceTypeOK
  <1>2. /\ CustodyVersion(events') =
             IF type = "ACCESSED" THEN CustodyVersion(events) ELSE Len(events) + 1
        /\ events # <<>> => CustodyVersion(events) \in 1..Len(events)
    BY HeadMoves
  <1>3. type \in Changes => type \notin {"ACCESSED", "REGISTERED"} /\ StatusAfter(type) = Transition[type].to
    BY TransitionFacts
  <1>4. events # <<>> =>
            /\ item.custodian = events[CustodyVersion(events)].to
            /\ item.status = StatusAfter(events[CustodyVersion(events)].type)
    BY DEF EvidenceInv, ChainUnbroken
  <1>5. events = <<>> => item.custodian = None
    BY DEF EvidenceInv, ChainUnbroken, Counting
  <1>6. events = <<>> <=> n = 1
    BY <1>1 DEF EvidenceInv, EvidenceTypeOK
  <1>7. ASSUME NEW i \in 1..n
        PROVE  LET e == events'[i]
                   h == CustodyVersion(SubSeq(events', 1, i - 1))
               IN  IF i = 1
                     THEN e.type = "REGISTERED" /\ e.from = None
                     ELSE /\ e.type # "REGISTERED"
                          /\ e.from = events'[h].to
                          /\ e.type = "ACCESSED" => e.to = e.from
                          /\ e.type # "ACCESSED" =>
                               /\ e.seen = h
                               /\ StatusAfter(events'[h].type) \in Transition[e.type].from
    <2>1. CASE i = n
      BY <1>1, <1>2, <1>3, <1>4, <1>5, <1>6, <2>1
    <2>2. CASE i # n
      <3>1. i \in 1..Len(events) /\ events'[i] = events[i]
            /\ SubSeq(events', 1, i - 1) = SubSeq(events, 1, i - 1)
        BY <1>1, <2>2
      <3>2. i # 1 => CustodyVersion(SubSeq(events, 1, i - 1)) \in 1..Len(events)
        BY <1>1, <2>2, PrefixVersion
      <3>3. LET e == events[i]
                h == CustodyVersion(SubSeq(events, 1, i - 1))
            IN  IF i = 1
                  THEN e.type = "REGISTERED" /\ e.from = None
                  ELSE /\ e.type # "REGISTERED"
                       /\ e.from = events[h].to
                       /\ e.type = "ACCESSED" => e.to = e.from
                       /\ e.type # "ACCESSED" =>
                            /\ e.seen = h
                            /\ StatusAfter(events[h].type) \in Transition[e.type].from
        BY <3>1 DEF EvidenceInv, ChainUnbroken
      <3>4. CASE i = 1
        BY <3>1, <3>3, <3>4
      <3>5. CASE i # 1
        <4>1. events'[CustodyVersion(SubSeq(events', 1, i - 1))]
                = events[CustodyVersion(SubSeq(events, 1, i - 1))]
          BY <1>1, <3>1, <3>2, <3>5
        <4>2. QED
          BY <3>1, <3>3, <3>5, <4>1
      <3>6. QED
        BY <3>4, <3>5
    <2>3. QED
      BY <2>1, <2>2
  <1>8. /\ item'.custodian = events'[CustodyVersion(events')].to
        /\ item'.status = StatusAfter(events'[CustodyVersion(events')].type)
    BY <1>1, <1>2, <1>3, <1>4 DEF StatusAfter
  <1>9. QED
    BY <1>1, <1>7, <1>8 DEF ChainUnbroken

-----------------------------------------------------------------------------
(***************************************************************************)
(* Every action keeps the invariant.                                       *)
(***************************************************************************)
RequestTable ==
    [Request -> [op : Operations \cup {"idle"},
        at : {"idle", "scope", "target", "save", "commit"},
        actor : Officers \cup {None}, type : Changes \cup {"NONE"},
        target : Officer \cup {None}, seen : 0..MaxEvents,
        key : Key \cup {None}, version : Nat]]

LEMMA EvidenceInitInv == EvidenceInit => EvidenceInv
  <1> SUFFICES ASSUME EvidenceInit PROVE EvidenceInv
    OBVIOUS
  <1>1. EvidenceTypeOK
    BY EvidenceAssumption DEF EvidenceInit, EvidenceTypeOK, Idle, DocketPhases, ItemStatuses, Operations
  <1>2. OneWriter /\ Admitted /\ Asked
    BY TransitionFacts DEF EvidenceInit, Idle, OneWriter, Admitted, Asked, Inside
  <1>3. Saved /\ Headed
    BY DEF EvidenceInit, Idle, Saved, Headed
  <1>4. Counting
    BY FS_EmptySet, EvidenceAssumption DEF EvidenceInit, Counting
  <1>5. ChainUnbroken
    BY DEF EvidenceInit, ChainUnbroken
  <1>6. FilesAgree
    BY FS_EmptySet DEF EvidenceInit, FilesAgree
  <1>7. QED
    BY <1>1, <1>2, <1>3, <1>4, <1>5, <1>6 DEF EvidenceInv

\* A request at a step of its own is the only one past its scope.
LEMMA Alone ==
    ASSUME EvidenceInv, NEW p \in Request, NEW q \in Request, Inside(p), Inside(q)
    PROVE  p = q
  BY DEF EvidenceInv, OneWriter

\* The end of a request.
LEMMA Finished ==
    ASSUME EvidenceInv, NEW p \in Request, Finish(p)
    PROVE  /\ request' \in RequestTable
           /\ docketLock' \in Request \cup {None}
           /\ request'[p] = Idle
           /\ ~Inside(p)'
           /\ \A q \in Request \ {p} : request'[q] = request[q]
           /\ \A q \in Request \ {p} : docketLock = q => docketLock' = q
  <1>1. request \in RequestTable
    BY DEF EvidenceInv, EvidenceTypeOK, RequestTable
  <1>2. Idle \in [op : Operations \cup {"idle"},
        at : {"idle", "scope", "target", "save", "commit"},
        actor : Officers \cup {None}, type : Changes \cup {"NONE"},
        target : Officer \cup {None}, seen : 0..MaxEvents,
        key : Key \cup {None}, version : Nat]
    BY EvidenceAssumption DEF Idle
  <1>3. request' = [request EXCEPT ![p] = Idle]
    BY DEF Finish
  <1>4. request' \in RequestTable
    BY <1>1, <1>2, <1>3 DEF RequestTable
  <1>5. request'[p] = Idle /\ \A q \in Request \ {p} : request'[q] = request[q]
    BY <1>1, <1>3 DEF RequestTable
  <1>6. ~Inside(p)'
    BY <1>5 DEF Inside, Idle
  <1>7. docketLock' \in Request \cup {None} /\ \A q \in Request \ {p} : docketLock = q => docketLock' = q
    BY DEF Finish, EvidenceInv, EvidenceTypeOK
  <1>8. QED
    BY <1>4, <1>5, <1>6, <1>7

LEMMA NoneNoChange == "NONE" \notin Changes
  BY TransitionFacts

\* When the request that holds the docket ends, nobody is past its scope: it
\* may have changed any row.
LEMMA LastOut ==
    ASSUME EvidenceInv, NEW p \in Request, Inside(p), Finish(p)
    PROVE  OneWriter' /\ Admitted' /\ Asked' /\ Saved'
  <1>1. /\ request'[p] = Idle
        /\ \A q \in Request \ {p} : request'[q] = request[q]
    BY Finished
  <1>2. \A q \in Request : ~Inside(q)'
    BY <1>1, Alone, Finished DEF Inside
  <1>3. OneWriter' /\ Admitted'
    BY <1>2 DEF OneWriter, Admitted
  <1>4. Asked'
    BY <1>1, NoneNoChange DEF EvidenceInv, Asked, Idle
  <1>5. ASSUME NEW q \in Request
        PROVE  request'[q].key = None /\ request'[q].at # "commit"
    <2>1. CASE q = p
      BY <1>1, <2>1 DEF Idle
    <2>2. CASE q # p
      <3>1. ~Inside(q)
        BY <2>2, Alone
      <3>2. QED
        BY <1>1, <2>2, <3>1 DEF EvidenceInv, Saved, Inside
    <2>3. QED
      BY <2>1, <2>2
  <1>6. Saved'
    BY <1>5 DEF Saved
  <1>7. QED
    BY <1>3, <1>4, <1>6

\* A request that ends before its scope leaves the others as they are.
LEMMA TurnedAway ==
    ASSUME EvidenceInv, NEW p \in Request, Finish(p),
           UNCHANGED <<caseVars, custodyVars, stored>>
    PROVE  OneWriter' /\ Admitted' /\ Asked' /\ Saved'
  <1>1. UNCHANGED <<onDuty, docket, assignee, item, events, files, stored>>
    BY DEF caseVars, custodyVars
  <1>2. /\ request'[p] = Idle /\ ~Inside(p)'
        /\ \A q \in Request \ {p} : request'[q] = request[q]
        /\ \A q \in Request \ {p} : docketLock = q => docketLock' = q
    BY Finished
  <1>3. OneWriter'
    BY <1>2 DEF EvidenceInv, OneWriter, Inside
  <1>4. ASSUME NEW q \in Request, Inside(q)'
        PROVE  InScope(q)' /\ (request'[q].op = "custody" => Current(q)')
    <2>1. q # p /\ request'[q] = request[q] /\ Inside(q)
      BY <1>2, <1>4 DEF Inside
    <2>2. InScope(q) /\ (request[q].op = "custody" => Current(q))
      BY <2>1 DEF EvidenceInv, Admitted
    <2>3. QED
      BY <1>1, <2>1, <2>2 DEF InScope, Current
  <1>5. Admitted'
    BY <1>4 DEF Admitted
  <1>6. Asked'
    BY <1>2, NoneNoChange DEF EvidenceInv, Asked, Idle
  <1>7. Saved'
    BY <1>1, <1>2 DEF EvidenceInv, Saved, Idle
  <1>8. QED
    BY <1>3, <1>5, <1>6, <1>7

\* The docket around the item changes only while nobody holds it, but for the
\* staff, whom no request past its scope reads again.
LEMMA CaseInv ==
    ASSUME EvidenceInv,
           \/ Approve \/ Close
           \/ \E o \in Officer : Assign(o) \/ ChangeDuty(o)
    PROVE  EvidenceInv'
  <1>1. UNCHANGED <<item, events, files, stored, request, docketLock, strays>>
    BY DEF Approve, Close, Assign, ChangeDuty, custodyVars
  <1>2. docketLock = None \/ UNCHANGED <<docket, assignee>>
    BY DEF Approve, Close, Assign, ChangeDuty
  <1>3. EvidenceTypeOK'
    <2>1. /\ onDuty' \in [Officer -> BOOLEAN]
          /\ docket' \in DocketPhases
          /\ assignee' \in Officer \cup {None}
      BY DEF Approve, Close, Assign, ChangeDuty, EvidenceInv, EvidenceTypeOK, DocketPhases
    <2>2. QED
      BY <1>1, <2>1 DEF EvidenceInv, EvidenceTypeOK
  <1>4. OneWriter' /\ Asked' /\ Saved' /\ Counting' /\ Headed'
    BY <1>1 DEF EvidenceInv, OneWriter, Asked, Saved, Counting, Headed, Newest, Inside
  <1>5. Admitted'
    <2>1. ASSUME NEW p \in Request, Inside(p)' PROVE UNCHANGED <<docket, assignee>>
      BY <1>1, <1>2, <2>1, EvidenceAssumption DEF EvidenceInv, OneWriter, Inside
    <2>2. QED
      BY <1>1, <2>1 DEF EvidenceInv, Admitted, InScope, Current, Inside
  <1>6. ChainUnbroken' /\ FilesAgree'
    BY <1>1 DEF EvidenceInv, ChainUnbroken, FilesAgree
  <1>7. QED
    BY <1>3, <1>4, <1>5, <1>6 DEF EvidenceInv

\* A step of p that changes only requests and the lock.
LEMMA RequestInv ==
    ASSUME EvidenceInv, NEW p \in Request,
           UNCHANGED <<caseVars, custodyVars, stored, strays>>,
           request' \in RequestTable, docketLock' \in Request \cup {None},
           OneWriter', Admitted', Asked', Saved',
           \A q \in Request : request[q].key # None => request'[q].key = request[q].key
    PROVE  EvidenceInv'
  <1>1. UNCHANGED <<onDuty, docket, assignee, item, events, files, stored, strays>>
    BY DEF caseVars, custodyVars
  <1>2. EvidenceTypeOK'
    BY <1>1 DEF EvidenceInv, EvidenceTypeOK, RequestTable
  <1>3. Counting' /\ Headed' /\ ChainUnbroken'
    BY <1>1 DEF EvidenceInv, Counting, Headed, Newest, ChainUnbroken
  <1>4. FilesAgree'
    <2>1. \A k \in stored \ ({f.key : f \in files} \cup strays) : \E q \in Request : request'[q].key = k
      BY EvidenceAssumption DEF EvidenceInv, FilesAgree, EvidenceTypeOK
    <2>2. QED
      BY <1>1, <2>1 DEF EvidenceInv, FilesAgree
  <1>5. QED
    BY <1>2, <1>3, <1>4 DEF EvidenceInv

LEMMA BeginInv ==
    ASSUME EvidenceInv, NEW p \in Request, Begin(p)
    PROVE  EvidenceInv'
  <1> DEFINE Call(op, o, type, target, seen) ==
                [op |-> op, at |-> "scope", actor |-> o, type |-> type,
                 target |-> target, seen |-> seen, key |-> None, version |-> 0]
  <1>1. PICK op \in Operations, o \in Officers, type \in Changes \cup {"NONE"},
             target \in Officer \cup {None}, seen \in 0..Len(events) :
          /\ op = "custody" <=> type \in Changes
          /\ target # None <=> type = "TRANSFERRED"
          /\ request' = [request EXCEPT ![p] = Call(op, o, type, target, seen)]
    <2>1. PICK op \in Operations, o \in Officers :
            \E type \in (IF op = "custody" THEN Changes ELSE {"NONE"}),
               target \in Officer \cup {None},
               seen \in (IF op = "custody" THEN {i \in 1..Len(events) : events[i].type # "ACCESSED"} ELSE {0}) :
              /\ target # None <=> type = "TRANSFERRED"
              /\ request' = [request EXCEPT ![p] = Call(op, o, type, target, seen)]
      BY DEF Begin
    <2>2. Len(events) \in Nat
      BY DEF EvidenceInv, EvidenceTypeOK
    <2>3. PICK type \in (IF op = "custody" THEN Changes ELSE {"NONE"}),
               target \in Officer \cup {None},
               seen \in (IF op = "custody" THEN {i \in 1..Len(events) : events[i].type # "ACCESSED"} ELSE {0}) :
              /\ target # None <=> type = "TRANSFERRED"
              /\ request' = [request EXCEPT ![p] = Call(op, o, type, target, seen)]
      BY <2>1
    <2>4. type \in Changes \cup {"NONE"} /\ seen \in 0..Len(events) /\ (op = "custody" <=> type \in Changes)
      BY <2>2, <2>3, NoneNoChange
    <2> HIDE DEF Call
    <2>5. QED
      BY <2>3, <2>4
  <1> DEFINE r == Call(op, o, type, target, seen)
  <1>2. r \in [op : Operations \cup {"idle"},
        at : {"idle", "scope", "target", "save", "commit"},
        actor : Officers \cup {None}, type : Changes \cup {"NONE"},
        target : Officer \cup {None}, seen : 0..Len(events),
        key : Key \cup {None}, version : Nat]
    OBVIOUS
  <1>3. request \in RequestTable /\ request[p] = Idle
    BY DEF Begin, EvidenceInv, EvidenceTypeOK, RequestTable
  <1>4. seen \in 0..MaxEvents
    BY EvidenceAssumption DEF EvidenceInv, Counting, EvidenceTypeOK
  <1>5. request' \in RequestTable
    BY <1>1, <1>2, <1>3, <1>4 DEF RequestTable
  <1>6. request'[p] = r /\ \A q \in Request \ {p} : request'[q] = request[q]
    BY <1>1, <1>2, <1>3 DEF RequestTable
  <1>7. UNCHANGED <<onDuty, docket, assignee, item, events, files, stored, docketLock, strays>>
    BY DEF Begin, caseVars, custodyVars
  <1>8. ~Inside(p)' /\ \A q \in Request \ {p} : Inside(q)' => Inside(q)
    BY <1>6 DEF Inside
  <1>9. OneWriter'
    BY <1>7, <1>8 DEF EvidenceInv, OneWriter
  <1>10. Admitted'
    <2>1. ASSUME NEW q \in Request, Inside(q)'
          PROVE  InScope(q)' /\ (request'[q].op = "custody" => Current(q)')
      <3>1. q # p /\ request'[q] = request[q] /\ Inside(q)
        BY <1>6, <1>8, <2>1
      <3>2. InScope(q) /\ (request[q].op = "custody" => Current(q))
        BY <3>1 DEF EvidenceInv, Admitted
      <3>3. QED
        BY <1>7, <3>1, <3>2 DEF InScope, Current
    <2>2. QED
      BY <2>1 DEF Admitted
  <1>11. Asked'
    BY <1>1, <1>6 DEF EvidenceInv, Asked
  <1>12. Saved'
    BY <1>6, <1>7 DEF EvidenceInv, Saved
  <1>13. \A q \in Request : request[q].key # None => request'[q].key = request[q].key
    BY <1>3, <1>6 DEF Idle
  <1>14. QED
    BY <1>5, <1>7, <1>9, <1>10, <1>11, <1>12, <1>13, RequestInv
       DEF EvidenceInv, EvidenceTypeOK, caseVars, custodyVars

\* p goes to another step and keeps what it is.
LEMMA Moved ==
    ASSUME EvidenceInv, NEW p \in Request,
           NEW step \in {"target", "save", "commit"},
           request' = [request EXCEPT ![p].at = step]
    PROVE  /\ request' \in RequestTable
           /\ request'[p] = [request[p] EXCEPT !.at = step]
           /\ \A q \in Request \ {p} : request'[q] = request[q]
  <1>1. request \in RequestTable
    BY DEF EvidenceInv, EvidenceTypeOK, RequestTable
  <1>2. [request[p] EXCEPT !.at = step] \in
            [op : Operations \cup {"idle"},
             at : {"idle", "scope", "target", "save", "commit"},
             actor : Officers \cup {None}, type : Changes \cup {"NONE"},
             target : Officer \cup {None}, seen : 0..MaxEvents,
             key : Key \cup {None}, version : Nat]
    BY <1>1 DEF RequestTable
  <1>3. QED
    BY <1>1, <1>2 DEF RequestTable

LEMMA AdmitInv ==
    ASSUME EvidenceInv, NEW p \in Request, NEW step \in {"target", "save", "commit"},
           request[p].at \in {"scope", "target"}, docketLock' = p,
           docketLock \in {None, p},
           request' = [request EXCEPT ![p].at = step],
           InScope(p), request[p].op = "custody" => Current(p),
           step = "target" => request[p].op = "custody",
           step = "save" <=> request[p].op = "upload",
           UNCHANGED <<caseVars, custodyVars, stored, strays>>
    PROVE  EvidenceInv'
  <1>1. /\ request' \in RequestTable
        /\ request'[p] = [request[p] EXCEPT !.at = step]
        /\ \A q \in Request \ {p} : request'[q] = request[q]
    BY Moved
  <1>2. /\ request'[p].at = step
        /\ request'[p].op = request[p].op /\ request'[p].type = request[p].type
        /\ request'[p].actor = request[p].actor /\ request'[p].target = request[p].target
        /\ request'[p].seen = request[p].seen /\ request'[p].key = request[p].key
        /\ request'[p].version = request[p].version
    BY <1>1 DEF EvidenceInv, EvidenceTypeOK
  <1>3. UNCHANGED <<onDuty, docket, assignee, item, events, files, stored, strays>>
    BY DEF caseVars, custodyVars
  <1>4. \A q \in Request \ {p} : ~Inside(q) /\ ~Inside(q)'
    BY <1>1, EvidenceAssumption DEF EvidenceInv, OneWriter, Inside
  <1>5. OneWriter'
    BY <1>4 DEF OneWriter
  <1>6. Admitted'
    <2>1. InScope(p)' /\ (request'[p].op = "custody" => Current(p)')
      BY <1>2, <1>3 DEF InScope, Current
    <2>2. QED
      BY <1>4, <2>1 DEF Admitted
  <1>7. Asked'
    BY <1>1, <1>2 DEF EvidenceInv, Asked
  <1>8. request[p].key = None
    BY DEF EvidenceInv, Saved
  <1>9. Saved'
    BY <1>1, <1>2, <1>3, <1>8 DEF EvidenceInv, Saved
  <1>10. \A q \in Request : request[q].key # None => request'[q].key = request[q].key
    BY <1>1, <1>2
  <1>11. QED
    BY <1>1, <1>5, <1>6, <1>7, <1>9, <1>10, RequestInv

\* A request that ends before its scope keeps the invariant.
LEMMA TurnedAwayInv ==
    ASSUME EvidenceInv, NEW p \in Request, Finish(p), request[p].key = None,
           UNCHANGED <<caseVars, custodyVars, stored, strays>>
    PROVE  EvidenceInv'
  <1>1. OneWriter' /\ Admitted' /\ Asked' /\ Saved'
    BY TurnedAway
  <1>2. /\ request' \in RequestTable /\ docketLock' \in Request \cup {None}
        /\ \A q \in Request : request[q].key # None => request'[q].key = request[q].key
    BY Finished
  <1>3. QED
    BY <1>1, <1>2, RequestInv

LEMMA LockScopeInv ==
    ASSUME EvidenceInv, NEW p \in Request, LockScope(p)
    PROVE  EvidenceInv'
  <1>1. /\ request[p].at = "scope" /\ docketLock = None
        /\ UNCHANGED <<caseVars, custodyVars, stored, strays>>
    BY DEF LockScope
  <1>2. CASE InScope(p) /\ (request[p].op = "custody" => Current(p))
    <2>1. docketLock' = p /\ request' = [request EXCEPT ![p].at = NextStep(p)]
      BY <1>2 DEF LockScope
    <2>2. /\ NextStep(p) \in {"target", "save", "commit"}
          /\ NextStep(p) = "target" => request[p].op = "custody"
          /\ NextStep(p) = "save" <=> request[p].op = "upload"
      <3>1. request[p].type = "TRANSFERRED" => request[p].op = "custody"
        <4>1. "TRANSFERRED" \in Changes
          BY DEF Changes, Transition
        <4>2. QED
          BY <4>1 DEF EvidenceInv, Asked
      <3>2. QED
        BY <3>1 DEF NextStep
    <2>3. QED
      BY <1>1, <1>2, <2>1, <2>2, AdmitInv
  <1>3. CASE ~(InScope(p) /\ (request[p].op = "custody" => Current(p)))
    <2>1. Finish(p)
      BY <1>3 DEF LockScope
    <2>2. request[p].key = None
      BY <1>1 DEF EvidenceInv, Saved
    <2>3. QED
      BY <1>1, <2>1, <2>2, TurnedAwayInv
  <1>4. QED
    BY <1>2, <1>3

LEMMA ReadTargetInv ==
    ASSUME EvidenceInv, NEW p \in Request, ReadTarget(p)
    PROVE  EvidenceInv'
  <1>1. /\ request[p].at = "target" /\ request[p].op = "custody"
        /\ UNCHANGED <<caseVars, custodyVars, stored, strays>>
    BY DEF ReadTarget, At
  <1>2. /\ docketLock = p /\ InScope(p) /\ Current(p) /\ request[p].key = None
    BY <1>1 DEF EvidenceInv, OneWriter, Admitted, Saved, Inside
  <1>3. CASE Go(p, "commit")
    <2>1. docketLock' = p /\ request' = [request EXCEPT ![p].at = "commit"]
      BY <1>2, <1>3 DEF Go
    <2>2. QED
      BY <1>1, <1>2, <2>1, AdmitInv
  <1>4. CASE Finish(p)
    BY <1>1, <1>2, <1>4, TurnedAwayInv
  <1>5. QED
    BY <1>3, <1>4 DEF ReadTarget

\* The bytes of p are stored under a key of their own, with the next version.
LEMMA SaveFileInv ==
    ASSUME EvidenceInv, NEW p \in Request, SaveFile(p)
    PROVE  EvidenceInv'
  <1> DEFINE versions == {f.version : f \in files}
  <1> DEFINE next == IF versions = {} THEN 1 ELSE Max(versions) + 1
  <1>1. PICK key \in Key \ (stored \cup {f.key : f \in files}) :
          /\ stored' = stored \cup {key}
          /\ request' = [request EXCEPT ![p].at = "commit", ![p].key = key, ![p].version = next]
    BY DEF SaveFile
  <1>2. /\ request[p].at = "save" /\ request[p].op = "upload"
        /\ UNCHANGED <<onDuty, docket, assignee, item, events, files, docketLock, strays>>
    BY DEF SaveFile, At, caseVars, custodyVars
  <1>3. next = Cardinality(files) + 1
    <2>1. versions = 1..Cardinality(files) /\ Cardinality(files) \in Nat
      BY FS_CardinalityType DEF EvidenceInv, FilesAgree, Counting
    <2>2. CASE Cardinality(files) = 0
      BY <2>1, <2>2
    <2>3. CASE Cardinality(files) # 0
      <3>1. Cardinality(files) \in versions /\ \A v \in versions : Cardinality(files) >= v
        BY <2>1, <2>3
      <3>2. \A m \in versions : (\A v \in versions : m >= v) => m = Cardinality(files)
        BY <2>1, <3>1
      <3>3. Max(versions) = Cardinality(files)
        BY <3>1, <3>2 DEF Max
      <3>4. QED
        BY <3>1, <3>3
    <2>4. QED
      BY <2>2, <2>3
  <1> HIDE DEF next
  <1>4. next \in Nat
    <2>1. Cardinality(files) \in Nat
      BY FS_CardinalityType DEF EvidenceInv, Counting
    <2>2. QED
      BY <1>3, <2>1
  <1>5. request \in RequestTable
    BY DEF EvidenceInv, EvidenceTypeOK, RequestTable
  <1>6. [request[p] EXCEPT !.at = "commit", !.key = key, !.version = next] \in
            [op : Operations \cup {"idle"},
             at : {"idle", "scope", "target", "save", "commit"},
             actor : Officers \cup {None}, type : Changes \cup {"NONE"},
             target : Officer \cup {None}, seen : 0..MaxEvents,
             key : Key \cup {None}, version : Nat]
    BY <1>4, <1>5 DEF RequestTable
  <1>7. /\ request'[p] = [request[p] EXCEPT !.at = "commit", !.key = key, !.version = next]
        /\ \A q \in Request \ {p} : request'[q] = request[q]
    BY <1>1, <1>5 DEF RequestTable
  <1>8. request' \in RequestTable
    BY <1>1, <1>5, <1>6 DEF RequestTable
  <1>9. /\ request'[p].at = "commit" /\ request'[p].key = key /\ request'[p].version = next
        /\ request'[p].op = "upload" /\ request'[p].type = request[p].type
        /\ request'[p].actor = request[p].actor /\ request'[p].target = request[p].target
        /\ request'[p].seen = request[p].seen
    BY <1>2, <1>5, <1>7 DEF RequestTable
  <1>10. /\ docketLock = p /\ InScope(p)
         /\ \A q \in Request \ {p} : ~Inside(q) /\ ~Inside(q)'
    <2>1. Inside(p)
      BY <1>2 DEF Inside
    <2>2. QED
      BY <1>7, <2>1 DEF EvidenceInv, OneWriter, Admitted, Inside
  <1>11. EvidenceTypeOK'
    BY <1>1, <1>2, <1>8 DEF EvidenceInv, EvidenceTypeOK, RequestTable
  <1>12. OneWriter' /\ Admitted'
    <2>1. InScope(p)'
      BY <1>2, <1>9, <1>10 DEF InScope
    <2>2. QED
      BY <1>2, <1>9, <1>10, <2>1 DEF OneWriter, Admitted
  <1>13. Asked'
    <2>1. \A q \in Request :
             /\ request'[q].op = request[q].op /\ request'[q].type = request[q].type
             /\ request'[q].target = request[q].target
             /\ request'[q].at \in {"target", "save"} => request'[q].at = request[q].at
      BY <1>2, <1>7, <1>9
    <2>2. QED
      BY <2>1 DEF EvidenceInv, Asked
  <1>14. Saved'
    <2>1. \A q \in Request \ {p} : request'[q].key = None /\ request'[q].at # "commit"
      BY <1>7, <1>10 DEF EvidenceInv, Saved, Inside
    <2>2. key \in stored' /\ \A f \in files : f.key # key
      BY <1>1
    <2>3. QED
      BY <1>2, <1>3, <1>9, <2>1, <2>2 DEF Saved
  <1>15. Counting' /\ Headed' /\ ChainUnbroken'
    BY <1>2 DEF EvidenceInv, Counting, Headed, Newest, ChainUnbroken
  <1>16. FilesAgree'
    <2>1. ASSUME NEW k \in stored' \ ({f.key : f \in files'} \cup strays')
          PROVE  \E q \in Request : request'[q].key = k
      <3>1. CASE k = key
        BY <1>9, <3>1
      <3>2. CASE k # key
        <4>1. PICK q \in Request : request[q].key = k
          BY <1>1, <1>2, <2>1, <3>2 DEF EvidenceInv, FilesAgree
        <4>2. k # None
          BY <1>1, <2>1, <3>2, EvidenceAssumption DEF EvidenceInv, EvidenceTypeOK
        <4>3. q # p
          BY <1>2, <4>1, <4>2 DEF EvidenceInv, Saved
        <4>4. QED
          BY <1>7, <4>1, <4>3
      <3>3. QED
        BY <3>1, <3>2
    <2>2. QED
      BY <1>1, <1>2, <2>1 DEF EvidenceInv, FilesAgree
  <1>17. QED
    BY <1>11, <1>12, <1>13, <1>14, <1>15, <1>16 DEF EvidenceInv

\* The commit of a request that has no file.
LEMMA CustodyCommitInv ==
    ASSUME EvidenceInv, NEW p \in Request, Inside(p), request[p].op # "upload",
           Finish(p), UNCHANGED <<caseVars, files, stored, strays>>,
           item' \in [status : ItemStatuses, custodian : Officers \cup {None}],
           item'.status # "NONE", events' \in Seq(Events), Len(events') <= MaxEvents,
           Headed', ChainUnbroken'
    PROVE  EvidenceInv'
  <1>1. UNCHANGED <<onDuty, docket, assignee, files, stored, strays>>
    BY DEF caseVars
  <1>2. EvidenceTypeOK'
    BY <1>1, Finished DEF EvidenceInv, EvidenceTypeOK, RequestTable
  <1>3. OneWriter' /\ Admitted' /\ Asked' /\ Saved'
    BY LastOut
  <1>4. Counting'
    BY <1>1 DEF EvidenceInv, Counting
  <1>5. FilesAgree'
    <2>1. ASSUME NEW k \in stored \ ({f.key : f \in files} \cup strays)
          PROVE  \E q \in Request : request'[q].key = k
      <3>1. PICK q \in Request : request[q].key = k
        BY DEF EvidenceInv, FilesAgree
      <3>2. k # None
        BY EvidenceAssumption DEF EvidenceInv, EvidenceTypeOK
      <3>3. q # p
        BY <3>1, <3>2 DEF EvidenceInv, Saved
      <3>4. QED
        BY <3>1, <3>3, Finished
    <2>2. QED
      BY <1>1, <2>1 DEF EvidenceInv, FilesAgree
  <1>6. QED
    BY <1>2, <1>3, <1>4, <1>5 DEF EvidenceInv

LEMMA CommitRegisterInv ==
    ASSUME EvidenceInv, NEW p \in Request, CommitRegister(p)
    PROVE  EvidenceInv'
  <1> DEFINE to == request[p].actor
  <1>1. /\ request[p].op \in {"register", "initial"} /\ Inside(p)
        /\ Finish(p) /\ UNCHANGED <<caseVars, files, stored, strays>>
        /\ NewEvent(p, "REGISTERED", to)
        /\ item' = [status |-> "IN_CUSTODY", custodian |-> to]
    BY DEF CommitRegister, Inside
  <1>2. item.status = "NONE" /\ events = <<>>
    BY <1>1 DEF EvidenceInv, Admitted, InScope, ChainUnbroken
  <1>3. to \in Officers \cup {None} /\ "REGISTERED" \in EventTypes
    BY DEF EvidenceInv, EvidenceTypeOK, EventTypes
  <1>4. /\ item' \in [status : ItemStatuses, custodian : Officers \cup {None}]
        /\ item'.status = "IN_CUSTODY" /\ item'.custodian = to
    BY <1>1, <1>3 DEF ItemStatuses
  <1> HIDE DEF to
  <1>5. events' \in Seq(Events) /\ Len(events') <= MaxEvents
    BY <1>1, <1>3, EventAppended
  <1>6. Headed'
    BY <1>1, <1>3, HeadMoves
  <1>7. ChainUnbroken'
    BY <1>1, <1>2, <1>3, <1>4, ChainExtended
  <1>8. QED
    BY <1>1, <1>4, <1>5, <1>6, <1>7, CustodyCommitInv

LEMMA CommitCustodyInv ==
    ASSUME EvidenceInv, NEW p \in Request, CommitCustody(p)
    PROVE  EvidenceInv'
  <1> DEFINE type == request[p].type
  <1> DEFINE to == CASE type = "TRANSFERRED" -> request[p].target
                     [] type \in Ended -> None
                     [] OTHER -> item.custodian
  <1>1. /\ request[p].op = "custody" /\ Inside(p)
        /\ Finish(p) /\ UNCHANGED <<caseVars, files, stored, strays>>
        /\ NewEvent(p, type, to)
        /\ item' = [status |-> Transition[type].to, custodian |-> to]
    BY DEF CommitCustody, Inside, At
  <1>2. /\ item.status # "NONE" /\ events # <<>>
        /\ type \in Changes
        /\ request[p].seen = CustodyVersion(events)
        /\ item.status \in Transition[type].from
    BY <1>1 DEF EvidenceInv, Admitted, Asked, InScope, Current, ChainUnbroken
  <1>3. to \in Officers \cup {None}
    BY DEF EvidenceInv, EvidenceTypeOK, Officers
  <1>4. /\ type \in EventTypes /\ type # "ACCESSED"
        /\ Transition[type].to \in ItemStatuses \ {"NONE"}
    BY <1>2, TransitionFacts
  <1>5. /\ item' \in [status : ItemStatuses, custodian : Officers \cup {None}]
        /\ item'.status = Transition[type].to /\ item'.custodian = to
    BY <1>1, <1>3, <1>4
  <1> HIDE DEF to, type
  <1>6. events' \in Seq(Events) /\ Len(events') <= MaxEvents
    BY <1>1, <1>3, <1>4, EventAppended
  <1>7. Headed'
    BY <1>1, <1>2, <1>3, <1>4, HeadMoves
  <1>8. ChainUnbroken'
    BY <1>1, <1>2, <1>3, <1>4, <1>5, ChainExtended
  <1>9. QED
    BY <1>1, <1>4, <1>5, <1>6, <1>7, <1>8, CustodyCommitInv

LEMMA CommitDownloadInv ==
    ASSUME EvidenceInv, NEW p \in Request, CommitDownload(p)
    PROVE  EvidenceInv'
  <1>1. /\ request[p].op = "download" /\ Inside(p)
        /\ Finish(p) /\ UNCHANGED <<caseVars, item, files, stored, strays>>
        /\ NewEvent(p, "ACCESSED", item.custodian)
    BY DEF CommitDownload, Inside, At
  <1>2. item.status # "NONE" /\ events # <<>>
    BY <1>1 DEF EvidenceInv, Admitted, InScope, ChainUnbroken
  <1>3. /\ item.custodian \in Officers \cup {None} /\ "ACCESSED" \in EventTypes
        /\ item' \in [status : ItemStatuses, custodian : Officers \cup {None}]
    BY <1>1 DEF EvidenceInv, EvidenceTypeOK, EventTypes
  <1>4. events' \in Seq(Events) /\ Len(events') <= MaxEvents
    BY <1>1, <1>3, EventAppended
  <1>5. Headed'
    BY <1>1, <1>2, <1>3, HeadMoves
  <1>6. ChainUnbroken'
    BY <1>1, <1>2, <1>3, ChainExtended
  <1>7. QED
    BY <1>1, <1>2, <1>3, <1>4, <1>5, <1>6, CustodyCommitInv

\* The row of an upload: one file more, under the next version.
LEMMA CommitUploadInv ==
    ASSUME EvidenceInv, NEW p \in Request, CommitUpload(p)
    PROVE  EvidenceInv'
  <1> DEFINE f == [key |-> request[p].key, version |-> request[p].version]
  <1>1. /\ request[p].op = "upload" /\ request[p].at = "commit" /\ Inside(p) /\ Finish(p)
        /\ files' = files \cup {f}
        /\ UNCHANGED <<onDuty, docket, assignee, item, events, stored, strays>>
    BY DEF CommitUpload, At, Inside, caseVars
  <1>2. /\ request[p].key \in stored
        /\ \A g \in files : g.key # request[p].key
        /\ request[p].version = Cardinality(files) + 1
        /\ IsFiniteSet(files)
    BY <1>1 DEF EvidenceInv, Saved, Counting
  <1>3. f \in [key : Key, version : Nat]
    BY <1>2 DEF EvidenceInv, EvidenceTypeOK
  <1>4. f \notin files
    BY <1>2
  <1>5. /\ IsFiniteSet(files') /\ Cardinality(files') = Cardinality(files) + 1
        /\ Cardinality(files) \in Nat
    BY <1>1, <1>2, <1>4, FS_AddElement, FS_CardinalityType
  <1>6. EvidenceTypeOK'
    <2>1. /\ request' \in RequestTable /\ docketLock' \in Request \cup {None}
          /\ files' \subseteq [key : Key, version : Nat]
      BY <1>1, <1>3, Finished DEF EvidenceInv, EvidenceTypeOK
    <2>2. QED
      BY <1>1, <2>1 DEF EvidenceInv, EvidenceTypeOK, RequestTable
  <1>7. OneWriter' /\ Admitted' /\ Asked' /\ Saved'
    BY <1>1, LastOut
  <1>8. Counting' /\ Headed' /\ ChainUnbroken'
    BY <1>1, <1>5 DEF EvidenceInv, Counting, Headed, Newest, ChainUnbroken
  <1>9. FilesAgree'
    <2>0. files' = files \cup {f} /\ f.key = request[p].key /\ f.version = request[p].version
      BY <1>1
    <2> HIDE DEF f
    <2>1. {g.key : g \in files'} = {g.key : g \in files} \cup {request[p].key}
      BY <2>0
    <2>2. {g.version : g \in files'} = {g.version : g \in files} \cup {request[p].version}
      BY <2>0
    <2>3. {g.version : g \in files'} = 1..Cardinality(files')
      BY <1>2, <1>5, <2>2 DEF EvidenceInv, FilesAgree
    <2>4. {g.key : g \in files'} \subseteq stored'
      BY <1>1, <1>2, <2>1 DEF EvidenceInv, FilesAgree
    <2>5. ASSUME NEW k \in stored' \ ({g.key : g \in files'} \cup strays')
          PROVE  \E q \in Request : request'[q].key = k
      <3>1. k # request[p].key /\ k \in stored \ ({g.key : g \in files} \cup strays)
        BY <1>1, <2>1
      <3>2. PICK q \in Request : request[q].key = k
        BY <3>1 DEF EvidenceInv, FilesAgree
      <3>3. QED
        BY <1>1, <3>1, <3>2, Finished
    <2>6. QED
      BY <2>3, <2>4, <2>5 DEF FilesAgree
  <1>10. QED
    BY <1>6, <1>7, <1>8, <1>9 DEF EvidenceInv

\* An abandoned request: its rows are gone, its object is gone or a stray.
LEMMA AbandonedInv ==
    ASSUME EvidenceInv, NEW p \in Request, Finish(p),
           UNCHANGED <<caseVars, custodyVars>>,
           \/ stored' = stored \ {request[p].key} /\ UNCHANGED strays
           \/ stored' = stored /\ strays' = strays \cup ({request[p].key} \cap stored)
    PROVE  EvidenceInv'
  <1>1. UNCHANGED <<onDuty, docket, assignee, item, events, files>>
    BY DEF caseVars, custodyVars
  <1>2. /\ request' \in RequestTable /\ docketLock' \in Request \cup {None}
        /\ request'[p] = Idle
        /\ \A q \in Request \ {p} : request'[q] = request[q]
    BY Finished
  <1>3. EvidenceTypeOK'
    BY <1>1, <1>2 DEF EvidenceInv, EvidenceTypeOK, RequestTable
  <1>4. OneWriter' /\ Admitted' /\ Asked' /\ Saved'
    <2>1. CASE Inside(p)
      BY <2>1, LastOut
    <2>2. CASE ~Inside(p)
      <3>1. request[p].key = None
        BY <2>2 DEF EvidenceInv, Saved, Inside
      <3>2. None \notin stored
        BY EvidenceAssumption DEF EvidenceInv, EvidenceTypeOK
      <3>3. stored' = stored
        BY <3>1, <3>2
      <3>4. QED
        BY <3>3, TurnedAway
    <2>3. QED
      BY <2>1, <2>2
  <1>5. Counting' /\ Headed' /\ ChainUnbroken'
    BY <1>1 DEF EvidenceInv, Counting, Headed, Newest, ChainUnbroken
  <1>6. FilesAgree'
    <2>1. request[p].key # None => \A f \in files : f.key # request[p].key
      BY DEF EvidenceInv, Saved
    <2>2. {f.key : f \in files'} \subseteq stored'
      BY <1>1, <2>1, EvidenceAssumption DEF EvidenceInv, FilesAgree, EvidenceTypeOK
    <2>3. ASSUME NEW k \in stored' \ ({f.key : f \in files'} \cup strays')
          PROVE  \E q \in Request : request'[q].key = k
      <3>1. k \in stored \ ({f.key : f \in files} \cup strays) /\ k # request[p].key
        BY <1>1
      <3>2. PICK q \in Request : request[q].key = k
        BY <3>1 DEF EvidenceInv, FilesAgree
      <3>3. QED
        BY <1>2, <3>1, <3>2
    <2>4. QED
      BY <1>1, <2>2, <2>3 DEF EvidenceInv, FilesAgree
  <1>7. QED
    BY <1>3, <1>4, <1>5, <1>6 DEF EvidenceInv

LEMMA FailureInv ==
    ASSUME EvidenceInv, NEW p \in Request, Fail(p) \/ Crash(p) \/ Uncertain(p)
    PROVE  EvidenceInv'
  <1>1. Finish(p) /\ UNCHANGED <<caseVars, custodyVars>>
    BY DEF Fail, Crash, Uncertain
  <1>2. \/ stored' = stored \ {request[p].key} /\ UNCHANGED strays
        \/ stored' = stored /\ strays' = strays \cup ({request[p].key} \cap stored)
    <2>1. Uncertain(p) => request[p].key \in stored
      BY DEF Uncertain, At, EvidenceInv, Saved
    <2>2. QED
      BY <2>1 DEF Fail, Crash, Uncertain
  <1>3. QED
    BY <1>1, <1>2, AbandonedInv

LEMMA EvidenceNextInv == EvidenceInv /\ [EvidenceNext]_evidenceVars => EvidenceInv'
  <1> SUFFICES ASSUME EvidenceInv, [EvidenceNext]_evidenceVars
               PROVE  EvidenceInv'
    OBVIOUS
  <1>1. CASE Approve \/ Close \/ \E o \in Officer : Assign(o) \/ ChangeDuty(o)
    BY <1>1, CaseInv
  <1>2. ASSUME NEW p \in Request, Step(p) PROVE EvidenceInv'
    BY <1>2, BeginInv, LockScopeInv, ReadTargetInv, SaveFileInv, CommitRegisterInv,
       CommitCustodyInv, CommitDownloadInv, CommitUploadInv, FailureInv DEF Step
  <1>3. CASE UNCHANGED evidenceVars
    <2>1. UNCHANGED <<onDuty, docket, assignee, item, events, files, stored, request, docketLock, strays>>
      BY <1>3 DEF evidenceVars, caseVars, custodyVars
    <2>2. EvidenceTypeOK' /\ OneWriter' /\ Asked' /\ Saved' /\ Counting' /\ Headed'
      BY <2>1 DEF EvidenceInv, EvidenceTypeOK, OneWriter, Asked, Saved, Counting, Headed, Newest, Inside
    <2>3. Admitted' /\ ChainUnbroken' /\ FilesAgree'
      BY <2>1 DEF EvidenceInv, Admitted, InScope, Current, Inside, ChainUnbroken, FilesAgree
    <2>4. QED
      BY <2>2, <2>3 DEF EvidenceInv
  <1>4. QED
    BY <1>1, <1>2, <1>3 DEF EvidenceNext

\* The invariant holds in every reachable state.
LEMMA EvidenceInvariant == EvidenceSpec => []EvidenceInv
  BY EvidenceInitInv, EvidenceNextInv, PTL DEF EvidenceSpec

-----------------------------------------------------------------------------
(***************************************************************************)
(* The theorems.                                                           *)
(***************************************************************************)
\* Custody, files and requests are well typed: an item has a status of the
\* table and a custodian of the station (evidence/service.py:51-195).
THEOREM EvidenceTyped == EvidenceSpec => []EvidenceTypeOK
  <1>1. EvidenceInv => EvidenceTypeOK
    BY DEF EvidenceInv
  <1>2. QED
    BY <1>1, EvidenceInvariant, PTL

\* However many officers, clients and failures: the chain of custody has no gap
\* and no fork, and the item says what it says (evidence/service.py:88-124).
THEOREM ChainOfCustody == EvidenceSpec => []ChainUnbroken
  <1>1. EvidenceInv => ChainUnbroken
    BY DEF EvidenceInv
  <1>2. QED
    BY <1>1, EvidenceInvariant, PTL

\* However many uploads fail: every row has its bytes, the versions have no gap,
\* and an object without a row is accounted for (evidence/service.py:135-170).
THEOREM FilesKept == EvidenceSpec => []FilesAgree
  <1>1. EvidenceInv => FilesAgree
    BY DEF EvidenceInv
  <1>2. QED
    BY <1>1, EvidenceInvariant, PTL

\* A commit that touches the item is of a request past its scope.
LEMMA ChargeStep ==
    ASSUME EvidenceInv, EvidenceNext, custodyVars' # custodyVars
    PROVE  \E p \in Request :
             /\ request[p] # Idle /\ request'[p] = Idle
             /\ IF request[p].op = "initial"
                  THEN docket = "PENDING_APPROVAL"
                  ELSE /\ assignee = request[p].actor
                       /\ request[p].op # "download" => docket = "WRITABLE"
             /\ files' # files => item.status \notin Ended
  <1>1. ~(Approve \/ Close \/ \E o \in Officer : Assign(o) \/ ChangeDuty(o))
    BY DEF Approve, Close, Assign, ChangeDuty
  <1>2. PICK p \in Request : Step(p)
    BY <1>1 DEF EvidenceNext
  <1>3. CommitRegister(p) \/ CommitCustody(p) \/ CommitDownload(p) \/ CommitUpload(p)
    BY <1>2 DEF Step, Begin, LockScope, ReadTarget, SaveFile, Uncertain, Fail, Crash
  <1>4. request[p].at = "commit" /\ Finish(p)
    BY <1>3 DEF CommitRegister, CommitCustody, CommitDownload, CommitUpload, At
  <1>5. request[p] # Idle
    BY <1>4 DEF Idle
  <1>6. request'[p] = Idle
    BY <1>4, Finished
  <1>7. InScope(p)
    BY <1>4 DEF EvidenceInv, Admitted, Inside
  <1>8. /\ request[p].op \in {"register", "initial", "custody", "download", "upload"}
        /\ files' # files => request[p].op = "upload"
    BY <1>3 DEF CommitRegister, CommitCustody, CommitDownload, CommitUpload, At
  <1>9. QED
    BY <1>5, <1>6, <1>7, <1>8 DEF InScope

\* Whoever writes to the item is in charge of the docket when it commits
\* (InvestigationService.scope, EvidenceService.item_scope).
THEOREM WritersInCharge == EvidenceSpec => WrittenInCharge
  <1> DEFINE Charged ==
        custodyVars' # custodyVars =>
          \E p \in Request :
             /\ request[p] # Idle /\ request'[p] = Idle
             /\ IF request[p].op = "initial"
                  THEN docket = "PENDING_APPROVAL"
                  ELSE /\ assignee = request[p].actor
                       /\ request[p].op # "download" => docket = "WRITABLE"
             /\ files' # files => item.status \notin Ended
  <1>1. EvidenceInv /\ [EvidenceNext]_evidenceVars => [Charged]_evidenceVars
    BY ChargeStep
  <1>2. QED
    BY <1>1, EvidenceInvariant, PTL DEF EvidenceSpec, WrittenInCharge
=============================================================================
