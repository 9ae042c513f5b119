---------------------------- MODULE RecordProofs ----------------------------
(***************************************************************************)
(* RecordRequests for any number of transactions, files and clients:       *)
(* corrections never fork, a document is issued once, an episode is        *)
(* reported once.  What a handler has seen under a lock is still so when   *)
(* it commits; the invariant says of each step which locks are held and    *)
(* what they keep true.                                                    *)
(***************************************************************************)
EXTENDS RecordRequests, SequenceTheorems, FiniteSetTheorems, TLAPS

-----------------------------------------------------------------------------
(***************************************************************************)
(* Types.                                                                  *)
(***************************************************************************)
Statuses == {"OPEN", "ACKNOWLEDGED", "RESOLVED", "DISMISSED"}

\* How far the calls can be.
Starts ==
    {<<"statement", "complaint">>, <<"document", "complaint">>, <<"feedback", "docket">>,
     <<"invite", "docket">>, <<"evaluate", "station">>, <<"transition", "alert">>,
     <<"consent", "officer">>, <<"upload", "user">>, <<"register", "code">>,
     <<"register", "owner">>, <<"register", "number">>}

Steps ==
    Starts \cup
    {<<"idle", "idle">>, <<"statement", "commit">>, <<"document", "counter">>,
     <<"document", "save">>, <<"document", "commit">>, <<"feedback", "commit">>,
     <<"invite", "invitation">>, <<"invite", "commit">>, <<"evaluate", "commit">>,
     <<"transition", "commit">>, <<"consent", "recipient">>, <<"consent", "rows">>,
     <<"consent", "commit">>, <<"register", "denied">>, <<"register", "profile">>,
     <<"register", "files">>, <<"register", "commit">>, <<"upload", "case">>,
     <<"upload", "save">>, <<"upload", "commit">>}

Ops == {"idle", "statement", "document", "feedback", "invite", "evaluate", "transition",
        "consent", "register", "upload"}

Ats == {"idle", "complaint", "docket", "station", "alert", "officer", "user", "code", "owner",
        "number", "commit", "counter", "save", "invitation", "recipient", "rows", "denied",
        "profile", "files", "case"}

People == Users \cup Manager \cup {None}

Whats == Kinds \cup Contents \cup Statuses \cup Address \cup {None}

Refs == Statuses \cup Invitation \cup {None}

Calls ==
    [op : Ops, at : Ats, by : People, row : Nat, what : Whats, ref : Refs,
     files : SUBSET Nat, seen : SUBSET (Episode \cup Nat), key : Key \cup {None},
     number : Nat]

StatementRow == [version : Nat, current : BOOLEAN]

FeedbackRow == [corrects : Nat, id : Invitation \cup {None}, content : Contents \cup {"UPDATE"}]

DocumentRow == [kind : Kinds, number : Nat, key : Key]

AlertRow == [episode : Episode, status : Statuses, assigned : Manager \cup {None}]

ConsentRow ==
    [by : DeskOfficer, address : Address, attempts : Nat, used : BOOLEAN,
     person : Complainant \cup {None}, age : Nat]

UploadRow == [by : Users, complaint : Nat, key : Key, fresh : BOOLEAN]

ComplaintRow ==
    [by : Users, owner : Complainant \cup {None}, number : Nat, consent : Nat,
     files : SUBSET Nat, open : BOOLEAN]

CallsOK ==
    /\ request \in [Request -> Calls]
    /\ \A p \in Request : <<request[p].op, request[p].at>> \in Steps
    /\ DOMAIN held = Request
    /\ counter \in [NumberTypes -> Nat]
    /\ stored \subseteq Key

RowsOK ==
    /\ phase \in Phases
    /\ statements \in Seq(StatementRow)
    /\ feedback \in Seq(FeedbackRow)
    /\ documents \subseteq DocumentRow
    /\ due \subseteq Episode
    /\ alerts \in Seq(AlertRow)
    /\ consents \in Seq(ConsentRow)
    /\ uploads \in Seq(UploadRow)
    /\ complaints \in Seq(ComplaintRow)
    /\ guesses \in Seq(Nat)
    /\ Len(guesses) = Len(consents)

\* What a call asks for fits its operation.
Asked ==
    \A p \in Request :
        /\ request[p].op = "document" => request[p].what \in Kinds
        /\ request[p].op = "invite" => request[p].ref \in Invitation /\ request[p].what \in Contents
        /\ request[p].op = "transition" =>
             /\ request[p].by \in Manager /\ request[p].row \in 1..Len(alerts)
             /\ <<request[p].ref, request[p].what>> \in AlertMoves
        /\ request[p].op = "consent" => request[p].by \in DeskOfficer /\ request[p].what \in Address
        /\ request[p].op = "register" =>
             /\ request[p].by \in Users
             /\ request[p].row \in 0..Len(consents)
             /\ request[p].at \in {"code", "denied"} => request[p].row # 0
             /\ request[p].at = "owner" => request[p].row = 0
        /\ request[p].op = "upload" => request[p].by \in Users /\ request[p].row \in 0..Len(complaints)

-----------------------------------------------------------------------------
(***************************************************************************)
(* Locks.                                                                  *)
(***************************************************************************)
Exclusive == \A p, q \in Request : p # q => held[p] \cap held[q] = {}

Is(p, op, steps) == request[p].op = op /\ request[p].at \in steps

Holding ==
    \A p \in Request :
        /\ Is(p, "statement", {"commit"}) => <<"complaint">> \in held[p]
        /\ Is(p, "document", {"counter", "save", "commit"}) => <<"complaint">> \in held[p]
        /\ Is(p, "document", {"save", "commit"}) => <<"counter", "DOCUMENT">> \in held[p]
        /\ Is(p, "feedback", {"commit"}) => <<"docket">> \in held[p]
        /\ Is(p, "invite", {"invitation", "commit"}) => <<"docket">> \in held[p]
        /\ Is(p, "invite", {"commit"}) => <<"invitation", request[p].ref>> \in held[p]
        /\ Is(p, "evaluate", {"commit"}) => <<"station">> \in held[p]
        /\ Is(p, "transition", {"commit"}) => <<"alert", request[p].row>> \in held[p]
        /\ Is(p, "consent", {"rows", "commit"}) => <<"intake-recipient", request[p].what>> \in held[p]
        /\ Is(p, "consent", {"commit"}) => \A n \in request[p].seen : <<"consent", n>> \in held[p]
        /\ Is(p, "register", {"denied", "number", "profile", "files", "commit"}) /\ request[p].row # 0 =>
             <<"consent", request[p].row>> \in held[p]
        /\ Is(p, "register", {"profile", "files", "commit"}) => <<"counter", "COMPLAINT">> \in held[p]
        /\ Is(p, "register", {"commit"}) => \A f \in request[p].files : <<"upload", f>> \in held[p]
        /\ Is(p, "upload", {"case", "save", "commit"}) => <<"user", request[p].by>> \in held[p]

\* An object that was saved is in no row yet, and nobody else's.
Saved ==
    \A p \in Request :
        /\ request[p].key # None => At(p, "document", "commit") \/ At(p, "upload", "commit")
        /\ At(p, "document", "commit") \/ At(p, "upload", "commit") =>
             /\ request[p].key \in stored \ UsedKeys
             /\ \A q \in Request : q # p => request[q].key # request[p].key

Kept == UsedKeys \subseteq stored

-----------------------------------------------------------------------------
(***************************************************************************)
(* What is known at each step, by the part of the state it is about.       *)
(***************************************************************************)
StatementsInv ==
    /\ Len(statements) >= 1
    /\ \A i \in 1..Len(statements) :
         statements[i].version = i /\ (statements[i].current <=> i = Len(statements))
    /\ \A p \in Request : At(p, "statement", "commit") => request[p].row = Len(statements)

FeedbackInv ==
    /\ \A i, j \in 1..Len(feedback) :
         i # j => /\ feedback[i].corrects = feedback[j].corrects => feedback[i].corrects = 0
                  /\ feedback[i].id = feedback[j].id => feedback[i].id = None
    /\ \A p \in Request :
         /\ At(p, "feedback", "commit") => request[p].row = 0 \/ ~Superseded(request[p].row)
         /\ At(p, "invite", "commit") =>
              \A i \in 1..Len(feedback) : feedback[i].id # request[p].ref

DocumentsInv ==
    /\ IsFiniteSet(documents)
    /\ \A c, d \in documents : c.kind = d.kind => c = d
    /\ {d.number : d \in documents} = 1..Cardinality(documents)
    /\ counter["DOCUMENT"] = Cardinality(documents)
    /\ \A d \in documents : phase \in IssuedIn(d.kind)
    /\ \A p \in Request :
         /\ Is(p, "document", {"counter", "save", "commit"}) =>
              /\ phase \in IssuedIn(request[p].what)
              /\ \A d \in documents : d.kind # request[p].what
         /\ Is(p, "document", {"save", "commit"}) => request[p].number = counter["DOCUMENT"] + 1

AlertsInv ==
    /\ \A i, j \in 1..Len(alerts) : alerts[i].episode = alerts[j].episode => i = j
    /\ \A p \in Request :
         /\ At(p, "evaluate", "commit") =>
              /\ request[p].seen \subseteq Episode
              /\ \A i \in 1..Len(alerts) : alerts[i].episode \notin request[p].seen
         /\ At(p, "transition", "commit") =>
              /\ alerts[request[p].row].assigned \in {None, request[p].by}
              /\ alerts[request[p].row].status = request[p].ref

\* What the daily limit counts.
FreshIn(rows, u) == {f \in 1..Len(rows) : rows[f].by = u /\ rows[f].fresh}

RecordInv ==
    /\ CallsOK /\ RowsOK /\ Asked /\ Exclusive /\ Holding /\ Saved /\ Kept
    /\ StatementsInv /\ FeedbackInv /\ DocumentsInv /\ AlertsInv

-----------------------------------------------------------------------------
(***************************************************************************)
(* One step of one transaction.                                            *)
(***************************************************************************)
Same(q) == request'[q] = request[q] /\ held'[q] = held[q]

Done(p) == request'[p] = Idle /\ held'[p] = {}

\* p is further; what it was called with stays.
Advance(p, next) ==
    /\ request'[p].op = request[p].op /\ request'[p].at = next
    /\ request'[p].by = request[p].by /\ request'[p].row = request[p].row
    /\ request'[p].what = request[p].what /\ request'[p].ref = request[p].ref
    /\ request'[p].files = request[p].files

\* p has taken the locks L, which nobody else held.
Locks(p, L) ==
    /\ held'[p] = held[p] \cup L
    /\ \A q \in Request \ {p} : L \cap held[q] = {}

\* The shape of the calls is kept.
Shaped == request' \in [Request -> Calls] /\ DOMAIN held' = Request

\* A call as it is made, without a reference or files.
LEMMA NewCall ==
    ASSUME NEW op \in Ops, NEW at \in Ats, NEW by \in People, NEW row \in Nat,
           NEW what \in Whats
    PROVE  New(op, at, by, row, what) \in Calls
  <1>1. ASSUME NEW ref \in Refs, NEW f \in SUBSET Nat, NEW s \in SUBSET (Episode \cup Nat),
               NEW k \in Key \cup {None}, NEW n \in Nat
        PROVE  [op |-> op, at |-> at, by |-> by, row |-> row, what |-> what, ref |-> ref,
                files |-> f, seen |-> s, key |-> k, number |-> n] \in Calls
    BY DEF Calls
  <1>2. None \in Refs /\ {} \in SUBSET Nat /\ {} \in SUBSET (Episode \cup Nat)
        /\ None \in Key \cup {None} /\ 0 \in Nat
    BY DEF Refs
  <1>3. [op |-> op, at |-> at, by |-> by, row |-> row, what |-> what, ref |-> None,
         files |-> {}, seen |-> {}, key |-> None, number |-> 0] \in Calls
    BY <1>1, <1>2, Zenon
  <1>4. QED
    BY <1>3 DEF New

LEMMA IdleShape == Idle \in Calls /\ Idle.op = "idle" /\ Idle.at = "idle" /\ Idle.key = None
  <1>1. None \in People /\ None \in Whats /\ "idle" \in Ops /\ "idle" \in Ats /\ 0 \in Nat
    BY DEF People, Whats, Ops, Ats
  <1>2. Idle \in Calls
    BY <1>1, NewCall, Zenon DEF Idle
  <1>3. Idle.op = "idle" /\ Idle.at = "idle" /\ Idle.key = None
    BY DEF Idle, New
  <1>4. QED
    BY <1>2, <1>3

\* A call with a reference, or with files.
LEMMA RefShape ==
    ASSUME NEW r \in Calls, NEW ref \in Refs
    PROVE  LET new == [r EXCEPT !.ref = ref]
           IN  /\ new \in Calls /\ new.ref = ref
               /\ new.op = r.op /\ new.at = r.at /\ new.by = r.by /\ new.row = r.row
               /\ new.what = r.what /\ new.key = r.key /\ new.number = r.number
  BY DEF Calls

LEMMA FilesShape ==
    ASSUME NEW r \in Calls, NEW fs \in SUBSET Nat
    PROVE  LET new == Attaching(r, fs)
           IN  /\ new \in Calls /\ new.files = fs
               /\ new.op = r.op /\ new.at = r.at /\ new.by = r.by /\ new.row = r.row
               /\ new.what = r.what /\ new.key = r.key /\ new.number = r.number
  BY DEF Calls, Attaching

\* TakeAndSee: locks are added, and what is learnt is kept.
LEMMA TakeAndSeeStep ==
    ASSUME CallsOK, NEW p \in Request, NEW L, NEW next \in Ats,
           NEW seen \in SUBSET (Episode \cup Nat), TakeAndSee(p, L, next, seen)
    PROVE  /\ Shaped /\ \A q \in Request \ {p} : Same(q)
           /\ Advance(p, next) /\ Locks(p, L)
           /\ request'[p].seen = seen /\ request'[p].key = request[p].key
           /\ request'[p].number = request[p].number
           /\ counter' = counter /\ stored' = stored
  <1>1. request[p] \in Calls /\ p \in DOMAIN request /\ p \in DOMAIN held
    BY DEF CallsOK
  <1>2. request' = [request EXCEPT ![p] = [request[p] EXCEPT !.at = next, !.seen = seen]]
    BY DEF TakeAndSee
  <1>3. [request[p] EXCEPT !.at = next, !.seen = seen] \in Calls
    BY <1>1 DEF Calls
  <1>4. Shaped
    BY <1>2, <1>3 DEF CallsOK, Shaped, TakeAndSee
  <1>5. request'[p] = [request[p] EXCEPT !.at = next, !.seen = seen]
    BY <1>1, <1>2
  <1>6. /\ Advance(p, next)
        /\ request'[p].seen = seen /\ request'[p].key = request[p].key
        /\ request'[p].number = request[p].number
    BY <1>1, <1>5 DEF Calls, Advance
  <1>7. Locks(p, L) /\ \A q \in Request \ {p} : Same(q)
    BY <1>1, <1>2 DEF CallsOK, TakeAndSee, Locks, Same
  <1>8. QED
    BY <1>4, <1>6, <1>7 DEF TakeAndSee

\* Take: locks are added.
LEMMA TakeStep ==
    ASSUME CallsOK, NEW p \in Request, NEW L, NEW next \in Ats, Take(p, L, next)
    PROVE  /\ Shaped /\ \A q \in Request \ {p} : Same(q)
           /\ Advance(p, next) /\ Locks(p, L)
           /\ request'[p].seen = request[p].seen /\ request'[p].key = request[p].key
           /\ request'[p].number = request[p].number
           /\ counter' = counter /\ stored' = stored
  <1>1. request[p].seen \in SUBSET (Episode \cup Nat)
    BY SMT DEF CallsOK, Calls
  <1>2. TakeAndSee(p, L, next, request[p].seen)
    BY DEF Take
  <1>3. QED
    BY <1>1, <1>2, TakeAndSeeStep

\* A transaction ends and has no lock.
LEMMA FinishStep ==
    ASSUME CallsOK, NEW p \in Request, Finish(p)
    PROVE  Shaped /\ Done(p) /\ \A q \in Request \ {p} : Same(q)
  BY IdleShape, SMT DEF CallsOK, Finish, Shaped, Same, Done

\* Check: what the locks protect is as it should be, or nothing happens.
LEMMA CheckStep ==
    ASSUME CallsOK, NEW p \in Request, NEW L, NEW ok \in BOOLEAN, NEW next \in Ats,
           Check(p, L, ok, next)
    PROVE  /\ Shaped /\ \A q \in Request \ {p} : Same(q)
           /\ counter' = counter /\ stored' = stored
           /\ \/ Done(p)
              \/ /\ ok /\ Advance(p, next) /\ Locks(p, L)
                 /\ request'[p].seen = request[p].seen /\ request'[p].key = request[p].key
                 /\ request'[p].number = request[p].number
  <1>1. CASE ok
    <2>1. Take(p, L, next)
      BY <1>1 DEF Check
    <2>2. QED
      BY <1>1, <2>1, TakeStep
  <1>2. CASE ~ok
    <2>1. Answer(p)
      BY <1>2 DEF Check
    <2>2. QED
      BY <2>1, FinishStep DEF Answer
  <1>3. QED
    BY <1>1, <1>2

\* A number is taken under the lock of its counter.
LEMMA AllocateStep ==
    ASSUME CallsOK, NEW p \in Request, NEW type \in NumberTypes, NEW next \in Ats,
           Allocate(p, type, next)
    PROVE  /\ Shaped /\ \A q \in Request \ {p} : Same(q)
           /\ Advance(p, next) /\ Locks(p, {<<"counter", type>>})
           /\ request'[p].seen = request[p].seen /\ request'[p].key = request[p].key
           /\ request'[p].number = counter[type] + 1
           /\ counter' = counter /\ stored' = stored
  <1> DEFINE r == [request[p] EXCEPT !.at = next, !.number = counter[type] + 1]
  <1>1. request[p] \in Calls /\ p \in DOMAIN request /\ p \in DOMAIN held
    BY DEF CallsOK
  <1>2. request' = [request EXCEPT ![p] = r]
    BY DEF Allocate
  <1>3. counter[type] + 1 \in Nat
    BY DEF CallsOK
  <1>4. r \in Calls
    BY <1>1, <1>3 DEF Calls
  <1>5. Shaped
    BY <1>2, <1>4 DEF CallsOK, Shaped, Allocate
  <1>6. request'[p] = r
    BY <1>1, <1>2
  <1>7. /\ Advance(p, next)
        /\ request'[p].seen = request[p].seen /\ request'[p].key = request[p].key
        /\ request'[p].number = counter[type] + 1
    BY <1>1, <1>6 DEF Calls, Advance
  <1>8. Locks(p, {<<"counter", type>>}) /\ \A q \in Request \ {p} : Same(q)
    BY <1>1, <1>2 DEF CallsOK, Allocate, Locks, Same
  <1>9. QED
    BY <1>5, <1>7, <1>8 DEF Allocate

\* A call begins.
LEMMA BeginStep ==
    ASSUME CallsOK, NEW p \in Request, NEW r \in Calls, Begin(p, r)
    PROVE  /\ Shaped /\ \A q \in Request \ {p} : Same(q)
           /\ request[p].op = "idle" /\ request'[p] = r /\ held'[p] = held[p]
           /\ counter' = counter /\ stored' = stored
  BY SMT DEF CallsOK, Begin, Shaped, Same

\* A call with a key.
LEMMA KeyShape ==
    ASSUME NEW r \in Calls, NEW next \in Ats, NEW key \in Key
    PROVE  [r EXCEPT !.at = next, !.key = key] \in Calls
  BY DEF Calls

\* The new key is in no row and in no other transaction.
LEMMA SaveStep ==
    ASSUME CallsOK, NEW p \in Request, NEW used, Save(p, used)
    PROVE  /\ Shaped /\ \A q \in Request \ {p} : Same(q)
           /\ Advance(p, "commit") /\ held'[p] = held[p]
           /\ request'[p].seen = request[p].seen /\ request'[p].number = request[p].number
           /\ counter' = counter
           /\ request'[p].key \in Key \ (stored \cup used)
           /\ stored' = stored \cup {request'[p].key}
  <1>1. request[p] \in Calls /\ p \in DOMAIN request
    BY DEF CallsOK
  <1>2. PICK key \in Key \ (stored \cup used) :
            /\ stored' = stored \cup {key}
            /\ request' = [request EXCEPT ![p] = [request[p] EXCEPT !.at = "commit", !.key = key]]
    BY DEF Save
  <1>3. [request[p] EXCEPT !.at = "commit", !.key = key] \in Calls
    <2>1. "commit" \in Ats
      BY DEF Ats
    <2>2. QED
      BY <1>1, <2>1, KeyShape, Zenon
  <1>4. Shaped
    BY <1>2, <1>3 DEF CallsOK, Shaped, Save
  <1>5. request'[p] = [request[p] EXCEPT !.at = "commit", !.key = key]
    BY <1>1, <1>2
  <1>6. /\ Advance(p, "commit") /\ request'[p].key = key
        /\ request'[p].seen = request[p].seen /\ request'[p].number = request[p].number
    BY <1>1, <1>5 DEF Calls, Advance
  <1>7. held'[p] = held[p] /\ \A q \in Request \ {p} : Same(q)
    BY <1>2 DEF CallsOK, Save, Same
  <1>8. QED
    BY <1>2, <1>4, <1>6, <1>7 DEF Save

-----------------------------------------------------------------------------
(***************************************************************************)
(* What the handlers do to the calls and the locks.                        *)
(***************************************************************************)
\* p goes from one step to the next under the additional locks L.
Goes(p, op, from, to, L) == At(p, op, from) /\ Advance(p, to) /\ Locks(p, L)

Keeps(p) ==
    /\ request'[p].seen = request[p].seen /\ request'[p].key = request[p].key
    /\ request'[p].number = request[p].number

Learns(p, seen) ==
    /\ request'[p].seen = seen /\ request'[p].key = request[p].key
    /\ request'[p].number = request[p].number

Numbers(p, type) ==
    /\ request'[p].number = counter[type] + 1
    /\ request'[p].seen = request[p].seen /\ request'[p].key = request[p].key

Begun(p) ==
    /\ request[p].op = "idle" /\ held'[p] = held[p]
    /\ <<request'[p].op, request'[p].at>> \in Starts
    /\ request'[p].key = None /\ request'[p].number = 0

RecordGoes(p) ==
    \/ /\ Goes(p, "statement", "complaint", "commit", {<<"complaint">>, <<"docket">>})
       /\ Keeps(p) /\ request[p].row = Latest
    \/ /\ Goes(p, "document", "complaint", "counter", {<<"complaint">>})
       /\ Keeps(p) /\ phase \in IssuedIn(request[p].what)
       /\ request[p].what \notin {d.kind : d \in documents}
    \/ /\ Goes(p, "document", "counter", "save", {<<"counter", "DOCUMENT">>})
       /\ Numbers(p, "DOCUMENT")
    \/ /\ Goes(p, "feedback", "docket", "commit", {<<"docket">>})
       /\ Keeps(p) /\ (request[p].row = 0 \/ ~Superseded(request[p].row))
    \/ /\ Goes(p, "invite", "docket", "invitation", {<<"docket">>}) /\ Keeps(p)
    \/ /\ Goes(p, "invite", "invitation", "commit", {<<"invitation", request[p].ref>>})
       /\ Keeps(p) /\ \A i \in 1..Len(feedback) : feedback[i].id # request[p].ref
    \/ /\ Goes(p, "evaluate", "station", "commit", {<<"station">>})
       /\ Learns(p, due \ {alerts[i].episode : i \in 1..Len(alerts)})
    \/ /\ Goes(p, "transition", "alert", "commit", {<<"alert", request[p].row>>})
       /\ Keeps(p)
       /\ alerts[request[p].row].assigned \in {None, request[p].by}
       /\ alerts[request[p].row].status = request[p].ref

\* The lock and the check of an upload on the complaint it is for.
ScopeLock(p) ==
    IF request[p].row = 0 \/ complaints[request[p].row].owner = request[p].by
      THEN {} ELSE {<<"complaint", request[p].row>>}

ScopeSeen(p) ==
    LET c == request[p].row
    IN  c # 0 => /\ complaints[c].open
                 /\ complaints[c].owner = request[p].by \/ request[p].by \in DeskOfficer

IntakeGoes(p) ==
    \/ /\ Goes(p, "consent", "officer", "recipient", {<<"intake-email", request[p].by>>})
       /\ Keeps(p)
    \/ /\ Goes(p, "consent", "recipient", "rows", {<<"intake-recipient", request[p].what>>})
       /\ Keeps(p)
    \/ /\ Goes(p, "consent", "rows", "commit", {<<"consent", n>> : n \in Replaced(p)})
       /\ Learns(p, Replaced(p))
    \/ /\ Goes(p, "register", "code", "number", {<<"consent", request[p].row>>})
       /\ Keeps(p) /\ Usable(p)
    \/ /\ Goes(p, "register", "code", "denied", {<<"consent", request[p].row>>}) /\ Keeps(p)
    \/ /\ Goes(p, "register", "owner", "number", {<<"complainant", request[p].by>>}) /\ Keeps(p)
    \/ \E next \in {"profile", "files"} :
         /\ Goes(p, "register", "number", next, {<<"counter", "COMPLAINT">>})
         /\ Numbers(p, "COMPLAINT")
    \/ /\ Goes(p, "register", "profile", "files",
               {<<"complainant", consents[request[p].row].person>>})
       /\ Keeps(p)
    \/ /\ Goes(p, "register", "files", "commit", {<<"upload", f>> : f \in request[p].files})
       /\ Keeps(p)
       /\ \A f \in request[p].files : uploads[f].complaint = 0 /\ uploads[f].by = request[p].by
    \/ /\ Goes(p, "upload", "user", "case", {<<"user", request[p].by>>}) /\ Keeps(p)
    \/ /\ Goes(p, "upload", "case", "save", ScopeLock(p))
       /\ Keeps(p) /\ ScopeSeen(p)
       /\ Cardinality(FreshIn(uploads, request[p].by)) < MaxUploads

SaveGoes(p) ==
    /\ At(p, "document", "save") \/ At(p, "upload", "save")
    /\ Advance(p, "commit") /\ held'[p] = held[p]
    /\ request'[p].seen = request[p].seen /\ request'[p].number = request[p].number
    /\ request'[p].key \in Key \ (stored \cup UsedKeys)
    /\ stored' = stored \cup {request'[p].key}

Alone(p) == Shaped /\ \A q \in Request \ {p} : Same(q)

\* The handlers of the case.
LEMMA RecordLocks ==
    ASSUME CallsOK, RowsOK, NEW p \in Request,
           \/ StatementLock(p) \/ DocumentLock(p) \/ DocumentNumber(p) \/ FeedbackLock(p)
           \/ InviteDocket(p) \/ InviteLock(p) \/ EvaluateLock(p) \/ TransitionLock(p)
    PROVE  Alone(p) /\ (Done(p) \/ RecordGoes(p)) /\ counter' = counter /\ stored' = stored
  <1> USE DEF Alone
  <1>a. "commit" \in Ats /\ "counter" \in Ats /\ "save" \in Ats /\ "invitation" \in Ats
    BY DEF Ats
  <1>1. CASE StatementLock(p)
    BY <1>1, <1>a, CheckStep DEF StatementLock, RecordGoes, Goes, Keeps
  <1>2. CASE DocumentLock(p)
    BY <1>2, <1>a, CheckStep DEF DocumentLock, RecordGoes, Goes, Keeps
  <1>3. CASE DocumentNumber(p)
    <2>1. "DOCUMENT" \in NumberTypes
      BY DEF NumberTypes
    <2>2. QED
      BY <1>3, <1>a, <2>1, AllocateStep DEF DocumentNumber, RecordGoes, Goes, Numbers
  <1>4. CASE FeedbackLock(p)
    BY <1>4, <1>a, CheckStep DEF FeedbackLock, RecordGoes, Goes, Keeps
  <1>5. CASE InviteDocket(p)
    BY <1>5, <1>a, CheckStep DEF InviteDocket, RecordGoes, Goes, Keeps
  <1>6. CASE InviteLock(p)
    BY <1>6, <1>a, CheckStep DEF InviteLock, RecordGoes, Goes, Keeps
  <1>7. CASE EvaluateLock(p)
    <2>1. due \ {alerts[i].episode : i \in 1..Len(alerts)} \in SUBSET (Episode \cup Nat)
      BY DEF RowsOK
    <2>2. QED
      BY <1>7, <1>a, <2>1, TakeAndSeeStep DEF EvaluateLock, RecordGoes, Goes, Learns
  <1>8. CASE TransitionLock(p)
    BY <1>8, <1>a, CheckStep DEF TransitionLock, RecordGoes, Goes, Keeps
  <1>9. QED
    BY <1>1, <1>2, <1>3, <1>4, <1>5, <1>6, <1>7, <1>8

\* The handlers of the intake.
LEMMA IntakeLocks ==
    ASSUME CallsOK, RowsOK, NEW p \in Request,
           \/ ConsentOfficer(p) \/ ConsentRecipient(p) \/ ConsentRows(p)
           \/ CodeRight(p) \/ CodeWrong(p) \/ OwnerLock(p)
           \/ RegisterNumber(p) \/ ProfileLock(p) \/ Attach(p)
           \/ UploadUser(p) \/ UploadScope(p)
    PROVE  Alone(p) /\ (Done(p) \/ IntakeGoes(p)) /\ counter' = counter /\ stored' = stored
  <1> USE DEF Alone
  <1>a. /\ "commit" \in Ats /\ "recipient" \in Ats /\ "rows" \in Ats /\ "number" \in Ats
        /\ "denied" \in Ats /\ "profile" \in Ats /\ "files" \in Ats /\ "case" \in Ats
        /\ "save" \in Ats
    BY DEF Ats
  <1>1. CASE ConsentOfficer(p)
    BY <1>1, <1>a, TakeStep DEF ConsentOfficer, IntakeGoes, Goes, Keeps
  <1>2. CASE ConsentRecipient(p)
    BY <1>2, <1>a, CheckStep DEF ConsentRecipient, IntakeGoes, Goes, Keeps
  <1>3. CASE ConsentRows(p)
    <2>1. Replaced(p) \in SUBSET (Episode \cup Nat)
      BY DEF RowsOK, Replaced, Consents
    <2>2. QED
      BY <1>3, <1>a, <2>1, TakeAndSeeStep DEF ConsentRows, IntakeGoes, Goes, Learns
  <1>4. CASE CodeRight(p)
    BY <1>4, <1>a, CheckStep DEF CodeRight, IntakeGoes, Goes, Keeps
  <1>5. CASE CodeWrong(p)
    BY <1>5, <1>a, CheckStep DEF CodeWrong, IntakeGoes, Goes, Keeps
  <1>6. CASE OwnerLock(p)
    BY <1>6, <1>a, TakeStep DEF OwnerLock, IntakeGoes, Goes, Keeps
  <1>7. CASE RegisterNumber(p)
    <2>1. "COMPLAINT" \in NumberTypes
      BY DEF NumberTypes
    <2>2. QED
      BY <1>7, <1>a, <2>1, AllocateStep DEF RegisterNumber, IntakeGoes, Goes, Numbers
  <1>8. CASE Attach(p)
    BY <1>8, <1>a, CheckStep DEF Attach, IntakeGoes, Goes, Keeps
  <1>9. CASE UploadUser(p)
    BY <1>9, <1>a, TakeStep DEF UploadUser, IntakeGoes, Goes, Keeps
  <1>10. CASE UploadScope(p)
    BY <1>10, <1>a, CheckStep DEF UploadScope, IntakeGoes, Goes, Keeps, FreshIn, Uploads,
       Owned, ScopeLock, ScopeSeen
  <1>11. CASE ProfileLock(p)
    BY <1>11, <1>a, TakeStep DEF ProfileLock, IntakeGoes, Goes, Keeps
  <1>12. QED
    BY <1>1, <1>2, <1>3, <1>4, <1>5, <1>6, <1>7, <1>8, <1>9, <1>10, <1>11

\* What a new call asks for.
Asking(p) ==
    LET r == request'[p]
    IN  /\ r.op = "document" => r.what \in Kinds
        /\ r.op = "invite" => r.ref \in Invitation /\ r.what \in Contents
        /\ r.op = "transition" =>
             r.by \in Manager /\ r.row \in 1..Len(alerts) /\ <<r.ref, r.what>> \in AlertMoves
        /\ r.op = "consent" => r.by \in DeskOfficer /\ r.what \in Address
        /\ r.op = "register" =>
             /\ r.by \in Users /\ r.row \in 0..Len(consents) /\ r.files \subseteq Uploads
             /\ r.at = "code" <=> r.row # 0
        /\ r.op = "upload" => r.by \in Users /\ r.row \in 0..Len(complaints)

\* A call without a reference or files.
LEMMA Called ==
    ASSUME CallsOK, NEW p \in Request, NEW op \in Ops, NEW at \in Ats, NEW by \in People,
           NEW row \in Nat, NEW what \in Whats, Begin(p, New(op, at, by, row, what)),
           <<op, at>> \in Starts
    PROVE  /\ Alone(p) /\ Begun(p) /\ counter' = counter /\ stored' = stored
           /\ request'[p] = New(op, at, by, row, what)
  <1> DEFINE r == New(op, at, by, row, what)
  <1>1. /\ r \in Calls /\ r.op = op /\ r.at = at /\ r.by = by /\ r.row = row
        /\ r.what = what /\ r.key = None /\ r.number = 0
    <2>1. r \in Calls
      BY NewCall, Zenon
    <2>2. QED
      BY <2>1 DEF New
  <1> HIDE DEF r
  <1>2. Begin(p, r)
    BY DEF r
  <1>3. /\ Alone(p) /\ Begun(p) /\ counter' = counter /\ stored' = stored
        /\ request'[p] = r
    BY <1>1, <1>2, BeginStep DEF Alone, Begun
  <1>4. QED
    BY <1>3 DEF r

LEMMA RecordBegins ==
    ASSUME CallsOK, RowsOK, NEW p \in Request, RecordBegin(p)
    PROVE  Alone(p) /\ Begun(p) /\ Asking(p) /\ counter' = counter /\ stored' = stored
  <1> USE DEF Alone, Begun
  <1>0. /\ None \in People /\ None \in Whats /\ 0 \in Nat
        /\ Kinds \subseteq Whats /\ Contents \subseteq Whats /\ Manager \subseteq People
        /\ Len(feedback) \in Nat /\ Len(alerts) \in Nat
    BY DEF People, Whats, RowsOK
  <1>1. ASSUME NEW expected \in 1..Latest,
               Begin(p, New("statement", "complaint", None, expected, None))
        PROVE  Alone(p) /\ Begun(p) /\ Asking(p) /\ counter' = counter /\ stored' = stored
    <2>1. /\ expected \in Nat /\ "statement" \in Ops /\ "complaint" \in Ats
          /\ <<"statement", "complaint">> \in Starts
      BY DEF Ops, Ats, Starts
    <2>2. None \in People /\ None \in Whats
      BY <1>0
    <2>3. /\ Alone(p) /\ Begun(p) /\ counter' = counter /\ stored' = stored
          /\ request'[p] = New("statement", "complaint", None, expected, None)
      BY <1>1, <2>1, <2>2, Called, Zenon
    <2>4. QED
      BY <1>0, <2>3 DEF New, Asking
  <1>2. ASSUME NEW kind \in Kinds, Begin(p, New("document", "complaint", None, 0, kind))
        PROVE  Alone(p) /\ Begun(p) /\ Asking(p) /\ counter' = counter /\ stored' = stored
    <2>1. "document" \in Ops /\ "complaint" \in Ats /\ <<"document", "complaint">> \in Starts
      BY DEF Ops, Ats, Starts
    <2>2. None \in People /\ 0 \in Nat /\ kind \in Whats
      BY <1>0
    <2>3. /\ Alone(p) /\ Begun(p) /\ counter' = counter /\ stored' = stored
          /\ request'[p] = New("document", "complaint", None, 0, kind)
      BY <1>2, <2>1, <2>2, Called, Zenon
    <2>4. QED
      BY <1>0, <2>3 DEF New, Asking
  <1>3. ASSUME NEW f \in 0..Len(feedback), Begin(p, New("feedback", "docket", None, f, None))
        PROVE  Alone(p) /\ Begun(p) /\ Asking(p) /\ counter' = counter /\ stored' = stored
    <2>1. f \in Nat /\ "feedback" \in Ops /\ "docket" \in Ats /\ <<"feedback", "docket">> \in Starts
      BY <1>0 DEF Ops, Ats, Starts
    <2>2. None \in People /\ None \in Whats
      BY <1>0
    <2>3. /\ Alone(p) /\ Begun(p) /\ counter' = counter /\ stored' = stored
          /\ request'[p] = New("feedback", "docket", None, f, None)
      BY <1>3, <2>1, <2>2, Called, Zenon
    <2>4. QED
      BY <1>0, <2>3 DEF New, Asking
  <1>4. ASSUME NEW id \in Invitation, NEW content \in Contents,
               Begin(p, [New("invite", "docket", None, 0, content) EXCEPT !.ref = id])
        PROVE  Alone(p) /\ Begun(p) /\ Asking(p) /\ counter' = counter /\ stored' = stored
    <2>1. "invite" \in Ops /\ "docket" \in Ats /\ id \in Refs
      BY DEF Ops, Ats, Refs
    <2> DEFINE old == New("invite", "docket", None, 0, content)
               new == [old EXCEPT !.ref = id]
    <2>2. /\ old \in Calls /\ old.op = "invite" /\ old.at = "docket" /\ old.what = content
          /\ old.key = None /\ old.number = 0
      <3>1. content \in Whats /\ None \in People /\ 0 \in Nat
        BY <1>0
      <3>2. old \in Calls
        BY <2>1, <3>1, NewCall, Zenon
      <3>3. QED
        BY <3>2 DEF New
    <2>3. /\ new \in Calls /\ new.op = "invite" /\ new.at = "docket" /\ new.what = content
          /\ new.key = None /\ new.number = 0 /\ new.ref = id
      BY <2>1, <2>2, RefShape
    <2> HIDE DEF old
    <2> HIDE DEF new
    <2>4. Begin(p, new)
      BY <1>4 DEF new, old
    <2>5. QED
      BY <2>3, <2>4, BeginStep DEF Starts, Asking
  <1>5. ASSUME Begin(p, New("evaluate", "station", None, 0, None))
        PROVE  Alone(p) /\ Begun(p) /\ Asking(p) /\ counter' = counter /\ stored' = stored
    <2>1. "evaluate" \in Ops /\ "station" \in Ats /\ <<"evaluate", "station">> \in Starts
      BY DEF Ops, Ats, Starts
    <2>2. None \in People /\ None \in Whats /\ 0 \in Nat
      BY <1>0
    <2>3. /\ Alone(p) /\ Begun(p) /\ counter' = counter /\ stored' = stored
          /\ request'[p] = New("evaluate", "station", None, 0, None)
      BY <1>5, <2>1, <2>2, Called, Zenon
    <2>4. QED
      BY <1>0, <2>3 DEF New, Asking
  <1>6. ASSUME NEW i \in 1..Len(alerts), NEW m \in Manager, NEW move \in AlertMoves,
               Begin(p, [New("transition", "alert", m, i, move[2]) EXCEPT !.ref = move[1]])
        PROVE  Alone(p) /\ Begun(p) /\ Asking(p) /\ counter' = counter /\ stored' = stored
    <2>1. /\ "transition" \in Ops /\ "alert" \in Ats /\ i \in Nat
          /\ move = <<move[1], move[2]>> /\ move[1] \in Refs /\ move[2] \in Whats
      BY <1>0 DEF Ops, Ats, AlertMoves, Refs, Whats, Statuses
    <2> DEFINE old == New("transition", "alert", m, i, move[2])
               new == [old EXCEPT !.ref = move[1]]
    <2>2. /\ old \in Calls /\ old.op = "transition" /\ old.at = "alert" /\ old.by = m
          /\ old.row = i /\ old.what = move[2] /\ old.key = None /\ old.number = 0
      <3>1. m \in People
        BY <1>0
      <3>2. old \in Calls
        BY <2>1, <3>1, NewCall, Zenon
      <3>3. QED
        BY <3>2 DEF New
    <2>3. /\ new \in Calls /\ new.op = "transition" /\ new.at = "alert" /\ new.by = m
          /\ new.row = i /\ new.what = move[2] /\ new.key = None /\ new.number = 0
          /\ new.ref = move[1]
      BY <2>1, <2>2, RefShape
    <2> HIDE DEF old
    <2> HIDE DEF new
    <2>4. Begin(p, new)
      BY <1>6 DEF new, old
    <2>5. QED
      BY <2>1, <2>3, <2>4, BeginStep DEF Starts, Asking
  <1>7. QED
    BY <1>1, <1>2, <1>3, <1>4, <1>5, <1>6 DEF RecordBegin

LEMMA IntakeBegins ==
    ASSUME CallsOK, RowsOK, NEW p \in Request, IntakeBegin(p)
    PROVE  Alone(p) /\ Begun(p) /\ Asking(p) /\ counter' = counter /\ stored' = stored
  <1> USE DEF Alone, Begun
  <1>0. /\ None \in People /\ None \in Whats /\ 0 \in Nat
        /\ Address \subseteq Whats /\ Users \subseteq People
        /\ DeskOfficer \subseteq Users /\ Complainant \subseteq Users
        /\ Uploads \subseteq Nat /\ {} \subseteq Uploads
        /\ Len(consents) \in Nat /\ Len(complaints) \in Nat
    BY DEF People, Whats, Users, RowsOK, Uploads
  <1>1. ASSUME NEW o \in DeskOfficer, NEW a \in Address,
               Begin(p, New("consent", "officer", o, 0, a))
        PROVE  Alone(p) /\ Begun(p) /\ Asking(p) /\ counter' = counter /\ stored' = stored
    <2>1. "consent" \in Ops /\ "officer" \in Ats /\ <<"consent", "officer">> \in Starts
      BY DEF Ops, Ats, Starts
    <2>2. o \in People /\ a \in Whats /\ 0 \in Nat
      BY <1>0
    <2>3. /\ Alone(p) /\ Begun(p) /\ counter' = counter /\ stored' = stored
          /\ request'[p] = New("consent", "officer", o, 0, a)
      BY <1>1, <2>1, <2>2, Called, Zenon
    <2>4. QED
      BY <1>0, <2>3 DEF New, Asking
  <1>2. ASSUME NEW u \in Users, NEW c \in 0..Len(complaints),
               Begin(p, New("upload", "user", u, c, None))
        PROVE  Alone(p) /\ Begun(p) /\ Asking(p) /\ counter' = counter /\ stored' = stored
    <2>1. "upload" \in Ops /\ "user" \in Ats /\ c \in Nat /\ <<"upload", "user">> \in Starts
      BY <1>0 DEF Ops, Ats, Starts
    <2>2. u \in People /\ None \in Whats
      BY <1>0
    <2>3. /\ Alone(p) /\ Begun(p) /\ counter' = counter /\ stored' = stored
          /\ request'[p] = New("upload", "user", u, c, None)
      BY <1>2, <2>1, <2>2, Called, Zenon
    <2>4. QED
      BY <1>0, <2>3 DEF New, Asking
  <1>3. ASSUME NEW o \in DeskOfficer, NEW n \in 0..Len(consents), NEW fs \in SUBSET Uploads,
               Begin(p, Attaching(New("register", IF n = 0 THEN "number" ELSE "code", o, n, None), fs))
        PROVE  Alone(p) /\ Begun(p) /\ Asking(p) /\ counter' = counter /\ stored' = stored
    <2>1. "register" \in Ops /\ "number" \in Ats /\ "code" \in Ats /\ n \in Nat /\ fs \in SUBSET Nat
      BY <1>0 DEF Ops, Ats
    <2> DEFINE at == IF n = 0 THEN "number" ELSE "code"
               old == New("register", at, o, n, None)
               new == Attaching(old, fs)
    <2>2. at \in Ats /\ (at = "code" <=> n # 0) /\ <<"register", at>> \in Starts
      BY <2>1 DEF Starts
    <2> HIDE DEF at
    <2>3. /\ old \in Calls /\ old.op = "register" /\ old.at = at /\ old.by = o
          /\ old.row = n /\ old.key = None /\ old.number = 0
      <3>1. o \in People /\ None \in Whats
        BY <1>0
      <3>2. old \in Calls
        BY <2>1, <2>2, <3>1, NewCall, Zenon
      <3>3. QED
        BY <3>2 DEF New
    <2>4. /\ new \in Calls /\ new.op = "register" /\ new.at = at /\ new.by = o
          /\ new.row = n /\ new.key = None /\ new.number = 0 /\ new.files = fs
      BY <2>1, <2>3, FilesShape
    <2> HIDE DEF old
    <2> HIDE DEF new
    <2>5. Begin(p, new)
      BY <1>3 DEF new, old, at
    <2>6. QED
      BY <1>0, <2>2, <2>4, <2>5, BeginStep DEF Asking
  <1>4. ASSUME NEW u \in Complainant, NEW fs \in SUBSET Uploads,
               Begin(p, Attaching(New("register", "owner", u, 0, None), fs))
        PROVE  Alone(p) /\ Begun(p) /\ Asking(p) /\ counter' = counter /\ stored' = stored
    <2>1. /\ "register" \in Ops /\ "owner" \in Ats /\ fs \in SUBSET Nat
          /\ u \in Users /\ u \in People /\ 0 \in 0..Len(consents)
      BY <1>0 DEF Ops, Ats
    <2> DEFINE old == New("register", "owner", u, 0, None)
               new == Attaching(old, fs)
    <2>2. /\ old \in Calls /\ old.op = "register" /\ old.at = "owner" /\ old.by = u
          /\ old.row = 0 /\ old.key = None /\ old.number = 0
      <3>1. 0 \in Nat /\ None \in Whats
        BY <1>0
      <3>2. old \in Calls
        BY <2>1, <3>1, NewCall, Zenon
      <3>3. QED
        BY <3>2 DEF New
    <2>3. /\ new \in Calls /\ new.op = "register" /\ new.at = "owner" /\ new.by = u
          /\ new.row = 0 /\ new.key = None /\ new.number = 0 /\ new.files = fs
      BY <2>1, <2>2, FilesShape
    <2> HIDE DEF old
    <2> HIDE DEF new
    <2>4. Begin(p, new)
      BY <1>4 DEF new, old
    <2>5. <<"register", "owner">> \in Starts
      BY DEF Starts
    <2>6. QED
      BY <2>1, <2>3, <2>4, <2>5, BeginStep DEF Asking
  <1>5. QED
    BY <1>1, <1>2, <1>3, <1>4 DEF IntakeBegin

\* The last step of a transaction.
Ends(p) ==
    \/ StatementCommit(p) \/ DocumentCommit(p) \/ FeedbackCommit(p) \/ InviteCommit(p)
    \/ EvaluateCommit(p) \/ TransitionCommit(p)
    \/ ConsentCommit(p) \/ CodeDenied(p) \/ RegisterCommit(p) \/ UploadCommit(p)
    \/ Fail(p) \/ Crash(p)

LEMMA EndStep ==
    ASSUME CallsOK, NEW p \in Request, Ends(p)
    PROVE  Alone(p) /\ Done(p)
  <1>1. Finish(p)
    BY Zenon DEF Ends, StatementCommit, DocumentCommit, FeedbackCommit, InviteCommit, EvaluateCommit,
       TransitionCommit, ConsentCommit, CodeDenied, RegisterCommit, UploadCommit, Fail, Crash,
       Commit, CommitNumber
  <1>2. QED
    BY <1>1, FinishStep DEF Alone

LEMMA SaveMoves ==
    ASSUME CallsOK, NEW p \in Request, Save(p, UsedKeys)
    PROVE  Alone(p) /\ SaveGoes(p) /\ counter' = counter
  <1>1. At(p, "document", "save") \/ At(p, "upload", "save")
    <2>1. request[p].at = "save" /\ <<request[p].op, request[p].at>> \in Steps
      BY DEF Save, CallsOK
    <2>2. QED
      BY <2>1 DEF Steps, Starts, At
  <1>2. QED
    BY <1>1, SaveStep DEF Alone, SaveGoes

\* What can happen to a call.
Moves(p) ==
    \/ Done(p)
    \/ Begun(p) /\ Asking(p)
    \/ RecordGoes(p) \/ IntakeGoes(p) \/ SaveGoes(p)

LEMMA StepMoves ==
    ASSUME CallsOK, RowsOK, NEW p \in Request,
           RecordStep(p) \/ IntakeStep(p) \/ Save(p, UsedKeys) \/ Fail(p) \/ Crash(p)
    PROVE  Alone(p) /\ Moves(p)
  <1>1. CASE Ends(p)
    BY <1>1, EndStep, Zenon DEF Moves
  <1>2. CASE RecordBegin(p) \/ IntakeBegin(p)
    BY <1>2, RecordBegins, IntakeBegins DEF Moves
  <1>3. CASE Save(p, UsedKeys)
    BY <1>3, SaveMoves DEF Moves
  <1>4. CASE \/ StatementLock(p) \/ DocumentLock(p) \/ DocumentNumber(p) \/ FeedbackLock(p)
             \/ InviteDocket(p) \/ InviteLock(p) \/ EvaluateLock(p) \/ TransitionLock(p)
    BY <1>4, RecordLocks, Zenon DEF Moves
  <1>5. CASE \/ ConsentOfficer(p) \/ ConsentRecipient(p) \/ ConsentRows(p)
             \/ CodeRight(p) \/ CodeWrong(p) \/ OwnerLock(p)
             \/ RegisterNumber(p) \/ ProfileLock(p) \/ Attach(p)
             \/ UploadUser(p) \/ UploadScope(p)
    BY <1>5, IntakeLocks, Zenon DEF Moves
  <1>6. QED
    BY <1>1, <1>2, <1>3, <1>4, <1>5, Zenon DEF RecordStep, IntakeStep, Ends

Environment ==
    \/ Quiet
    \/ (CaseProceeds \/ DeadlinesChange) /\ UNCHANGED intakeVars
    \/ (ConsentsAge \/ UploadsAge \/ Refuse) /\ UNCHANGED recordVars

LEMMA EnvironmentMoves ==
    ASSUME Environment \/ UNCHANGED allVars
    PROVE  UNCHANGED <<request, held, counter, stored>>
  BY DEF Environment, Quiet, CaseProceeds, DeadlinesChange, ConsentsAge, UploadsAge, Refuse,
     transactionVars, allVars

\* A step moves one call, or none.
LEMMA NextMoves ==
    ASSUME CallsOK, RowsOK, [RecordsNext]_allVars
    PROVE  /\ Shaped
           /\ \A q \in Request : Same(q) \/ Moves(q)
           /\ \A p, q \in Request : Same(p) \/ p = q \/ Same(q)
  <1>1. CASE \E p \in Request :
                RecordStep(p) \/ IntakeStep(p) \/ Save(p, UsedKeys) \/ Fail(p) \/ Crash(p)
    BY <1>1, StepMoves DEF Alone
  <1>2. CASE Environment \/ UNCHANGED allVars
    BY <1>2, EnvironmentMoves DEF Shaped, Same, CallsOK
  <1>3. QED
    BY <1>1, <1>2, Zenon DEF RecordsNext, Environment

-----------------------------------------------------------------------------
(***************************************************************************)
(* Who changes what.                                                       *)
(***************************************************************************)
LEMMA RecordWriters ==
    ASSUME [RecordsNext]_allVars
    PROVE  /\ statements' # statements => \E p \in Request : StatementCommit(p)
           /\ feedback' # feedback => \E p \in Request : FeedbackCommit(p) \/ InviteCommit(p)
           /\ documents' # documents => \E p \in Request : DocumentCommit(p)
           /\ alerts' # alerts => \E p \in Request : EvaluateCommit(p) \/ TransitionCommit(p)
           /\ phase' # phase => CaseProceeds
           /\ due' # due => DeadlinesChange
  <1>1. ASSUME NEW p \in Request, RecordStep(p)
        PROVE  /\ statements' # statements => StatementCommit(p)
               /\ feedback' # feedback => FeedbackCommit(p) \/ InviteCommit(p)
               /\ documents' # documents => DocumentCommit(p)
               /\ alerts' # alerts => EvaluateCommit(p) \/ TransitionCommit(p)
               /\ phase' = phase /\ due' = due
    <2> USE DEF recordVars
    <2>1. CASE \/ RecordBegin(p) /\ UNCHANGED recordVars
               \/ StatementLock(p) \/ DocumentLock(p) \/ DocumentNumber(p) \/ FeedbackLock(p)
               \/ InviteDocket(p) \/ InviteLock(p) \/ EvaluateLock(p) \/ TransitionLock(p)
      BY <2>1 DEF StatementLock, DocumentLock, DocumentNumber, FeedbackLock, InviteDocket,
         InviteLock, EvaluateLock, TransitionLock
    <2>2. CASE StatementCommit(p)
      BY <2>2 DEF StatementCommit
    <2>3. CASE DocumentCommit(p)
      BY <2>3 DEF DocumentCommit
    <2>4. CASE FeedbackCommit(p)
      BY <2>4 DEF FeedbackCommit
    <2>5. CASE InviteCommit(p)
      BY <2>5 DEF InviteCommit
    <2>6. CASE EvaluateCommit(p)
      BY <2>6 DEF EvaluateCommit
    <2>7. CASE TransitionCommit(p)
      BY <2>7 DEF TransitionCommit
    <2>8. QED
      BY <1>1, <2>1, <2>2, <2>3, <2>4, <2>5, <2>6, <2>7 DEF RecordStep
  <1>2. CASE UNCHANGED recordVars
    BY <1>2 DEF recordVars
  <1>3. CASE CaseProceeds
    BY <1>3 DEF CaseProceeds
  <1>4. CASE DeadlinesChange
    BY <1>4 DEF DeadlinesChange
  <1>5. QED
    BY <1>1, <1>2, <1>3, <1>4 DEF RecordsNext, Quiet, allVars

LEMMA IntakeWriters ==
    ASSUME [RecordsNext]_allVars
    PROVE  /\ consents' # consents =>
                \/ ConsentsAge
                \/ \E p \in Request : ConsentCommit(p) \/ CodeDenied(p) \/ RegisterCommit(p)
           /\ guesses' # guesses => \E p \in Request : ConsentCommit(p) \/ CodeDenied(p)
           /\ uploads' # uploads =>
                UploadsAge \/ \E p \in Request : RegisterCommit(p) \/ UploadCommit(p)
           /\ complaints' # complaints => Refuse \/ \E p \in Request : RegisterCommit(p)
  <1>1. ASSUME NEW p \in Request, IntakeStep(p)
        PROVE  /\ consents' # consents => ConsentCommit(p) \/ CodeDenied(p) \/ RegisterCommit(p)
               /\ guesses' # guesses => ConsentCommit(p) \/ CodeDenied(p)
               /\ uploads' # uploads => RegisterCommit(p) \/ UploadCommit(p)
               /\ complaints' # complaints => RegisterCommit(p)
    <2> USE DEF intakeVars
    <2>1. CASE \/ IntakeBegin(p) /\ UNCHANGED intakeVars
               \/ ConsentOfficer(p) \/ ConsentRecipient(p) \/ ConsentRows(p)
               \/ CodeRight(p) \/ CodeWrong(p) \/ OwnerLock(p)
               \/ RegisterNumber(p) \/ ProfileLock(p) \/ Attach(p)
               \/ UploadUser(p) \/ UploadScope(p)
      BY <2>1 DEF ConsentOfficer, ConsentRecipient, ConsentRows, CodeRight, CodeWrong, OwnerLock,
         RegisterNumber, ProfileLock, Attach, UploadUser, UploadScope
    <2>2. CASE ConsentCommit(p)
      BY <2>2 DEF ConsentCommit
    <2>3. CASE CodeDenied(p)
      BY <2>3 DEF CodeDenied
    <2>4. CASE RegisterCommit(p)
      BY <2>4 DEF RegisterCommit
    <2>5. CASE UploadCommit(p)
      BY <2>5 DEF UploadCommit
    <2>6. QED
      BY <1>1, <2>1, <2>2, <2>3, <2>4, <2>5 DEF IntakeStep
  <1>2. CASE UNCHANGED intakeVars
    BY <1>2 DEF intakeVars
  <1>3. CASE ConsentsAge
    BY <1>3 DEF ConsentsAge
  <1>4. CASE UploadsAge
    BY <1>4 DEF UploadsAge
  <1>5. CASE Refuse
    BY <1>5 DEF Refuse
  <1>6. QED
    BY <1>1, <1>2, <1>3, <1>4, <1>5 DEF RecordsNext, Quiet, allVars

LEMMA StoreWriters ==
    ASSUME CallsOK, RowsOK, [RecordsNext]_allVars
    PROVE  /\ counter' # counter => \E p \in Request : DocumentCommit(p) \/ RegisterCommit(p)
           /\ stored' # stored => \E p \in Request : Save(p, UsedKeys) \/ Fail(p)
  <1>1. ASSUME NEW p \in Request,
               RecordStep(p) \/ IntakeStep(p) \/ Save(p, UsedKeys) \/ Fail(p) \/ Crash(p)
        PROVE  /\ counter' # counter => DocumentCommit(p) \/ RegisterCommit(p)
               /\ stored' # stored => Save(p, UsedKeys) \/ Fail(p)
    <2>1. CASE DocumentCommit(p) \/ RegisterCommit(p)
      BY <2>1 DEF DocumentCommit, RegisterCommit, CommitNumber
    <2>2. CASE \/ StatementCommit(p) \/ FeedbackCommit(p) \/ InviteCommit(p) \/ EvaluateCommit(p)
               \/ TransitionCommit(p) \/ ConsentCommit(p) \/ CodeDenied(p) \/ UploadCommit(p)
               \/ Crash(p)
      BY <2>2 DEF StatementCommit, FeedbackCommit, InviteCommit, EvaluateCommit, TransitionCommit,
         ConsentCommit, CodeDenied, UploadCommit, Crash, Commit
    <2>3. CASE Save(p, UsedKeys) \/ Fail(p)
      BY <2>3 DEF Save, Fail
    <2>4. CASE RecordBegin(p) \/ IntakeBegin(p)
      BY <2>4, RecordBegins, IntakeBegins
    <2>5. CASE \/ StatementLock(p) \/ DocumentLock(p) \/ DocumentNumber(p) \/ FeedbackLock(p)
               \/ InviteDocket(p) \/ InviteLock(p) \/ EvaluateLock(p) \/ TransitionLock(p)
      BY <2>5, RecordLocks
    <2>6. CASE \/ ConsentOfficer(p) \/ ConsentRecipient(p) \/ ConsentRows(p)
               \/ CodeRight(p) \/ CodeWrong(p) \/ OwnerLock(p)
               \/ RegisterNumber(p) \/ ProfileLock(p) \/ Attach(p)
               \/ UploadUser(p) \/ UploadScope(p)
      BY <2>6, IntakeLocks
    <2>7. QED
      BY <1>1, <2>1, <2>2, <2>3, <2>4, <2>5, <2>6, Zenon DEF RecordStep, IntakeStep
  <1>2. CASE Environment \/ UNCHANGED allVars
    BY <1>2, EnvironmentMoves
  <1>3. QED
    BY <1>1, <1>2, Zenon DEF RecordsNext, Environment

-----------------------------------------------------------------------------
(***************************************************************************)
(* Types and locks are kept.                                               *)
(***************************************************************************)
LEMMA CallsKept ==
    ASSUME CallsOK, RowsOK, [RecordsNext]_allVars
    PROVE  CallsOK'
  <1>1. Shaped /\ \A q \in Request : Same(q) \/ Moves(q)
    BY NextMoves
  <1>2. ASSUME NEW q \in Request
        PROVE  <<request'[q].op, request'[q].at>> \in Steps
    <2>1. CASE Same(q)
      BY <2>1 DEF Same, CallsOK
    <2>2. CASE Done(q)
      BY <2>2, IdleShape DEF Done, Steps
    <2>3. CASE Begun(q)
      BY <2>3 DEF Begun, Steps
    <2> DEFINE now == <<request'[q].op, request'[q].at>>
    <2>a. ASSUME NEW op, NEW from, NEW to, NEW L, Goes(q, op, from, to, L)
          PROVE  now = <<op, to>>
      BY <2>a DEF Goes, At, Advance
    <2>4. CASE RecordGoes(q)
      <3>1. \/ now = <<"statement", "commit">> \/ now = <<"document", "counter">>
            \/ now = <<"document", "save">> \/ now = <<"feedback", "commit">>
            \/ now = <<"invite", "invitation">> \/ now = <<"invite", "commit">>
            \/ now = <<"evaluate", "commit">> \/ now = <<"transition", "commit">>
        BY <2>4, <2>a, Zenon DEF RecordGoes
      <3> HIDE DEF now
      <3>2. now \in Steps
        BY <3>1 DEF Steps
      <3>3. QED
        BY <3>2 DEF now
    <2>5. CASE IntakeGoes(q)
      <3>1. \/ now = <<"consent", "recipient">> \/ now = <<"consent", "rows">>
            \/ now = <<"consent", "commit">> \/ now = <<"register", "number">>
            \/ now = <<"register", "denied">> \/ now = <<"register", "files">>
            \/ now = <<"register", "profile">> \/ now = <<"register", "commit">>
            \/ now = <<"upload", "case">>
            \/ now = <<"upload", "save">>
        BY <2>5, <2>a, Zenon DEF IntakeGoes
      <3> HIDE DEF now
      <3>2. now \in Steps
        BY <3>1 DEF Steps, Starts
      <3>3. QED
        BY <3>2 DEF now
    <2>6. CASE SaveGoes(q)
      BY <2>6 DEF SaveGoes, At, Advance, Steps
    <2>7. QED
      BY <1>1, <2>1, <2>2, <2>3, <2>4, <2>5, <2>6 DEF Moves
  <1>3. counter' \in [NumberTypes -> Nat]
    <2>1. ASSUME NEW p \in Request, NEW type \in NumberTypes, CommitNumber(p, type)
          PROVE  counter' \in [NumberTypes -> Nat]
      <3>1. request[p].number \in Nat
        BY DEF CallsOK, Calls
      <3>2. QED
        BY <2>1, <3>1 DEF CallsOK, CommitNumber
    <2>2. "DOCUMENT" \in NumberTypes /\ "COMPLAINT" \in NumberTypes
      BY DEF NumberTypes
    <2>3. CASE counter' = counter
      BY <2>3 DEF CallsOK
    <2>4. CASE counter' # counter
      BY <2>1, <2>2, <2>4, StoreWriters DEF DocumentCommit, RegisterCommit
    <2>5. QED
      BY <2>3, <2>4
  <1>4. stored' \subseteq Key
    BY StoreWriters DEF CallsOK, Save, Fail
  <1>5. QED
    BY <1>1, <1>2, <1>3, <1>4 DEF CallsOK, Shaped

\* The locks of two transactions stay apart.
LEMMA ExclusiveKept ==
    ASSUME CallsOK, RowsOK, Exclusive, [RecordsNext]_allVars
    PROVE  Exclusive'
  <1>1. ASSUME NEW p \in Request, Moves(p)
        PROVE  \E L : held'[p] \subseteq held[p] \cup L /\ \A q \in Request \ {p} : L \cap held[q] = {}
    <2>1. CASE Done(p) \/ Begun(p) \/ SaveGoes(p)
      <3>1. held'[p] \subseteq held[p] \cup {}
        BY <2>1 DEF Done, Begun, SaveGoes
      <3>2. \A q \in Request \ {p} : {} \cap held[q] = {}
        OBVIOUS
      <3>3. QED
        BY <3>1, <3>2, Zenon
    <2>2. CASE RecordGoes(p) \/ IntakeGoes(p)
      <3>1. \E L : Locks(p, L)
        <4>1. CASE RecordGoes(p)
          BY <4>1, Zenon DEF RecordGoes, Goes
        <4>2. CASE IntakeGoes(p)
          BY <4>2, Zenon DEF IntakeGoes, Goes
        <4>3. QED
          BY <2>2, <4>1, <4>2
      <3>2. PICK L : Locks(p, L)
        BY <3>1
      <3>3. QED
        BY <3>2, Zenon DEF Locks
    <2>3. QED
      BY <1>1, <2>1, <2>2 DEF Moves
  <1>2. ASSUME NEW p \in Request, NEW q \in Request, p # q, Same(q)
        PROVE  held'[p] \cap held'[q] = {}
    <2>1. CASE Same(p)
      BY <1>2, <2>1 DEF Same, Exclusive
    <2>2. CASE Moves(p)
      <3>1. PICK L : held'[p] \subseteq held[p] \cup L /\ L \cap held[q] = {}
        BY <1>1, <1>2, <2>2
      <3>2. held[p] \cap held[q] = {} /\ held'[q] = held[q]
        BY <1>2 DEF Exclusive, Same
      <3>3. QED
        BY <3>1, <3>2
    <2>3. QED
      BY <2>1, <2>2, NextMoves
  <1>3. SUFFICES ASSUME NEW p \in Request, NEW q \in Request, p # q
                 PROVE  held'[p] \cap held'[q] = {}
    BY DEF Exclusive
  <1>4. Same(p) \/ Same(q)
    BY <1>3, NextMoves
  <1>5. QED
    BY <1>2, <1>3, <1>4

\* Each step has its locks.
LEMMA HoldingKept ==
    ASSUME CallsOK, RowsOK, Asked, Holding, [RecordsNext]_allVars
    PROVE  Holding'
  <1> DEFINE Has(p) ==
        /\ Is(p, "statement", {"commit"}) => <<"complaint">> \in held[p]
        /\ Is(p, "document", {"counter", "save", "commit"}) => <<"complaint">> \in held[p]
        /\ Is(p, "document", {"save", "commit"}) => <<"counter", "DOCUMENT">> \in held[p]
        /\ Is(p, "feedback", {"commit"}) => <<"docket">> \in held[p]
        /\ Is(p, "invite", {"invitation", "commit"}) => <<"docket">> \in held[p]
        /\ Is(p, "invite", {"commit"}) => <<"invitation", request[p].ref>> \in held[p]
        /\ Is(p, "evaluate", {"commit"}) => <<"station">> \in held[p]
        /\ Is(p, "transition", {"commit"}) => <<"alert", request[p].row>> \in held[p]
        /\ Is(p, "consent", {"rows", "commit"}) => <<"intake-recipient", request[p].what>> \in held[p]
        /\ Is(p, "consent", {"commit"}) => \A n \in request[p].seen : <<"consent", n>> \in held[p]
        /\ Is(p, "register", {"denied", "number", "profile", "files", "commit"}) /\ request[p].row # 0 =>
             <<"consent", request[p].row>> \in held[p]
        /\ Is(p, "register", {"profile", "files", "commit"}) => <<"counter", "COMPLAINT">> \in held[p]
        /\ Is(p, "register", {"commit"}) => \A f \in request[p].files : <<"upload", f>> \in held[p]
        /\ Is(p, "upload", {"case", "save", "commit"}) => <<"user", request[p].by>> \in held[p]
  <1>1. SUFFICES ASSUME NEW p \in Request
                 PROVE  Has(p)'
    BY DEF Holding
  <1>2. Has(p)
    BY DEF Holding
  <1>3. CASE Same(p)
    BY <1>2, <1>3 DEF Same, Is
  <1>4. CASE Done(p)
    BY <1>4, IdleShape DEF Done, Is
  <1>5. CASE Begun(p) /\ Asking(p)
    BY <1>5 DEF Begun, Asking, Starts, Is
  <1>6. CASE RecordGoes(p)
    BY <1>2, <1>6 DEF RecordGoes, Goes, Advance, Locks, Keeps, Learns, Numbers, At, Is
  <1>7. CASE IntakeGoes(p)
    <2>1. request[p].at = "owner" /\ request[p].op = "register" => request[p].row = 0
      BY DEF Asked
    <2>2. QED
      BY <1>2, <1>7, <2>1 DEF IntakeGoes, Goes, Advance, Locks, Keeps, Learns, Numbers, At, Is
  <1>8. CASE SaveGoes(p)
    BY <1>2, <1>8 DEF SaveGoes, Advance, At, Is
  <1>9. QED
    BY <1>3, <1>4, <1>5, <1>6, <1>7, <1>8, NextMoves DEF Moves

-----------------------------------------------------------------------------
(***************************************************************************)
(* What the commits leave in the tables.                                   *)
(***************************************************************************)
LEMMA FunctionIsSequence ==
    ASSUME NEW S, NEW n \in Nat, NEW f \in [1..n -> S]
    PROVE  f \in Seq(S) /\ Len(f) = n
  OBVIOUS

LEMMA SetToSeqOnce ==
    ASSUME NEW S, IsFiniteSet(S)
    PROVE  LET f == SetToSeq(S)
           IN  f \in Seq(S) /\ \A i, j \in 1..Len(f) : f[i] = f[j] => i = j
  <1>1. Cardinality(S) \in Nat /\ ExistsBijection(1..Cardinality(S), S)
    BY FS_CardinalityType
  <1>2. PICK g : g \in Bijection(1..Cardinality(S), S)
    BY <1>1 DEF ExistsBijection
  <1>3. g \in [1..Cardinality(S) -> S] /\ IsInjective(g)
    BY <1>2 DEF Bijection, Injection, IsInjective
  <1>4. SetToSeq(S) \in [1..Cardinality(S) -> S] /\ IsInjective(SetToSeq(S))
    BY <1>3, Zenon DEF SetToSeq
  <1>5. QED
    BY <1>1, <1>4, FunctionIsSequence DEF IsInjective

\* StatementCommit: a new version, and the one it replaces is not current.
LEMMA StatementWritten ==
    ASSUME CallsOK, RowsOK, NEW p \in Request, StatementCommit(p)
    PROVE  /\ statements' \in Seq(StatementRow) /\ Len(statements') = Len(statements) + 1
           /\ statements'[Len(statements) + 1] = NewStatement(request[p].row + 1)
           /\ \A i \in 1..Len(statements) :
                /\ statements'[i].version = statements[i].version
                /\ statements'[i].current <=>
                     statements[i].current /\ statements[i].version # request[p].row
  <1> DEFINE new(i) == IF statements[i].version = request[p].row
                         THEN [statements[i] EXCEPT !.current = FALSE] ELSE statements[i]
             old == [i \in 1..Len(statements) |-> new(i)]
  <1>1. Len(statements) \in Nat /\ \A i \in 1..Len(statements) : statements[i] \in StatementRow
    BY DEF RowsOK
  <1>2. ASSUME NEW i \in 1..Len(statements)
        PROVE  /\ new(i) \in StatementRow
               /\ new(i).version = statements[i].version
               /\ new(i).current <=> statements[i].current /\ statements[i].version # request[p].row
    <2>1. statements[i] \in StatementRow
      BY <1>1
    <2>2. QED
      BY <2>1 DEF StatementRow
  <1>3. old \in [1..Len(statements) -> StatementRow]
    BY <1>2
  <1>4. old \in Seq(StatementRow) /\ Len(old) = Len(statements)
    BY <1>1, <1>3, FunctionIsSequence
  <1>5. NewStatement(request[p].row + 1) \in StatementRow
    BY DEF CallsOK, Calls, NewStatement, StatementRow
  <1>6. statements' = Append(old, NewStatement(request[p].row + 1))
    BY DEF StatementCommit
  <1>7. \A i \in 1..Len(statements) : old[i] = new(i)
    OBVIOUS
  <1> HIDE DEF old
  <1> HIDE DEF new
  <1>8. /\ statements' \in Seq(StatementRow) /\ Len(statements') = Len(statements) + 1
        /\ statements'[Len(statements) + 1] = NewStatement(request[p].row + 1)
        /\ \A i \in 1..Len(statements) : statements'[i] = new(i)
    BY <1>1, <1>4, <1>5, <1>6, <1>7, AppendProperties
  <1>9. QED
    BY <1>2, <1>8

\* FeedbackCommit and InviteCommit: one row more.
LEMMA FeedbackWritten ==
    ASSUME CallsOK, RowsOK, Asked, NEW p \in Request, FeedbackCommit(p) \/ InviteCommit(p)
    PROVE  \E row \in FeedbackRow :
             /\ row = IF FeedbackCommit(p) THEN NewFeedback(request[p].row, None, "UPDATE")
                                           ELSE NewFeedback(0, request[p].ref, request[p].what)
             /\ feedback' = Append(feedback, row)
             /\ feedback' \in Seq(FeedbackRow) /\ Len(feedback') = Len(feedback) + 1
             /\ \A i \in 1..Len(feedback) : feedback'[i] = feedback[i]
             /\ feedback'[Len(feedback) + 1] = row
  <1> DEFINE row == IF FeedbackCommit(p) THEN NewFeedback(request[p].row, None, "UPDATE")
                                         ELSE NewFeedback(0, request[p].ref, request[p].what)
  <1>1. feedback' = Append(feedback, row)
    BY DEF FeedbackCommit, InviteCommit
  <1>2. row \in FeedbackRow
    <2>1. request[p].row \in Nat /\ 0 \in Nat
      BY DEF CallsOK, Calls
    <2>2. CASE FeedbackCommit(p)
      BY <2>1, <2>2 DEF NewFeedback, FeedbackRow
    <2>3. CASE ~FeedbackCommit(p)
      <3>1. request[p].ref \in Invitation /\ request[p].what \in Contents
        BY <2>3 DEF InviteCommit, At, Asked
      <3>2. QED
        BY <2>1, <2>3, <3>1 DEF NewFeedback, FeedbackRow
    <2>4. QED
      BY <2>2, <2>3
  <1> HIDE DEF row
  <1>3. /\ feedback' \in Seq(FeedbackRow) /\ Len(feedback') = Len(feedback) + 1
        /\ \A i \in 1..Len(feedback) : feedback'[i] = feedback[i]
        /\ feedback'[Len(feedback) + 1] = row
    BY <1>1, <1>2, AppendProperties DEF RowsOK
  <1>4. QED
    BY <1>1, <1>2, <1>3 DEF row

\* EvaluateCommit: a row for each of the episodes it has seen.
LEMMA AlertsRaised ==
    ASSUME CallsOK, RowsOK, NEW p \in Request, EvaluateCommit(p), request[p].seen \subseteq Episode
    PROVE  /\ alerts' \in Seq(AlertRow) /\ Len(alerts') >= Len(alerts)
           /\ \A i \in 1..Len(alerts) : alerts'[i] = alerts[i]
           /\ \A i \in 1..Len(alerts') : i > Len(alerts) => alerts'[i].episode \in request[p].seen
           /\ \A i, j \in 1..Len(alerts') :
                i > Len(alerts) /\ j > Len(alerts) /\ alerts'[i].episode = alerts'[j].episode => i = j
  <1> DEFINE new == SetToSeq(request[p].seen)
             rows == [i \in 1..Len(new) |-> NewAlert(new[i])]
  <1>1. IsFiniteSet(request[p].seen)
    BY RecordsAssumption, FS_Subset
  <1>2. new \in Seq(request[p].seen) /\ \A i, j \in 1..Len(new) : new[i] = new[j] => i = j
    BY <1>1, SetToSeqOnce
  <1>3. alerts' = alerts \o rows
    BY DEF EvaluateCommit
  <1> HIDE DEF new
  <1>4. Len(new) \in Nat /\ \A i \in 1..Len(new) : new[i] \in request[p].seen
    BY <1>2
  <1>5. ASSUME NEW i \in 1..Len(new)
        PROVE  NewAlert(new[i]) \in AlertRow /\ NewAlert(new[i]).episode = new[i]
    <2>1. new[i] \in Episode /\ None \in Manager \cup {None} /\ "OPEN" \in Statuses
      BY <1>4 DEF Statuses
    <2>2. QED
      BY <2>1 DEF NewAlert, AlertRow
  <1>6. rows \in [1..Len(new) -> AlertRow]
    BY <1>5
  <1>7. /\ rows \in Seq(AlertRow) /\ Len(rows) = Len(new)
        /\ \A i \in 1..Len(new) : rows[i].episode = new[i]
    BY <1>4, <1>5, <1>6, FunctionIsSequence
  <1> HIDE DEF rows
  <1>8. alerts \in Seq(AlertRow) /\ Len(alerts) \in Nat
    BY DEF RowsOK
  <1>9. /\ alerts' \in Seq(AlertRow) /\ Len(alerts') = Len(alerts) + Len(new)
        /\ \A i \in 1..Len(alerts) + Len(new) :
             alerts'[i] = IF i <= Len(alerts) THEN alerts[i] ELSE rows[i - Len(alerts)]
    <2>1. /\ alerts \o rows \in Seq(AlertRow) /\ Len(alerts \o rows) = Len(alerts) + Len(rows)
          /\ \A i \in 1..Len(alerts) + Len(rows) :
               (alerts \o rows)[i] = IF i <= Len(alerts) THEN alerts[i] ELSE rows[i - Len(alerts)]
      BY <1>7, <1>8, ConcatProperties, ZenonT(40)
    <2>2. QED
      BY <1>3, <1>7, <2>1, Zenon
  <1>10. ASSUME NEW i \in 1..Len(alerts'), i > Len(alerts)
         PROVE  i - Len(alerts) \in 1..Len(new) /\ alerts'[i].episode = new[i - Len(alerts)]
    <2>1. i \in 1..Len(alerts) + Len(new) /\ i - Len(alerts) \in 1..Len(new) /\ ~(i <= Len(alerts))
      BY <1>4, <1>8, <1>9, <1>10
    <2>2. alerts'[i] = rows[i - Len(alerts)]
      BY <1>9, <2>1
    <2>3. QED
      BY <1>7, <2>1, <2>2
  <1>11. \A i \in 1..Len(alerts') : i > Len(alerts) => alerts'[i].episode \in request[p].seen
    BY <1>4, <1>10
  <1>12. ASSUME NEW i \in 1..Len(alerts'), NEW j \in 1..Len(alerts'), i > Len(alerts),
                j > Len(alerts), alerts'[i].episode = alerts'[j].episode
         PROVE  i = j
    <2>1. i - Len(alerts) = j - Len(alerts)
      BY <1>2, <1>10, <1>12
    <2>2. QED
      BY <1>8, <1>9, <2>1
  <1>13. Len(alerts') >= Len(alerts) /\ \A i \in 1..Len(alerts) : alerts'[i] = alerts[i]
    BY <1>4, <1>8, <1>9
  <1>14. QED
    BY <1>9, <1>11, <1>12, <1>13

\* TransitionCommit: one alert moves on.
LEMMA AlertMoved ==
    ASSUME CallsOK, RowsOK, Asked, NEW p \in Request, TransitionCommit(p)
    PROVE  /\ alerts' \in Seq(AlertRow) /\ Len(alerts') = Len(alerts)
           /\ \A i \in 1..Len(alerts) :
                /\ alerts'[i].episode = alerts[i].episode
                /\ i # request[p].row => alerts'[i] = alerts[i]
           /\ alerts'[request[p].row].status = request[p].what
           /\ alerts'[request[p].row].assigned = request[p].by
  <1> DEFINE k == request[p].row
             row == [alerts[k] EXCEPT !.status = request[p].what, !.assigned = request[p].by]
  <1>1. /\ k \in 1..Len(alerts) /\ request[p].by \in Manager
        /\ <<request[p].ref, request[p].what>> \in AlertMoves
    BY DEF Asked, TransitionCommit, At
  <1>2. request[p].what \in Statuses
    BY <1>1 DEF AlertMoves, Statuses
  <1>3. alerts \in Seq(AlertRow) /\ alerts[k] \in AlertRow
    BY <1>1 DEF RowsOK
  <1>4. /\ row \in AlertRow /\ row.episode = alerts[k].episode
        /\ row.status = request[p].what /\ row.assigned = request[p].by
    <2>1. request[p].by \in Manager \cup {None}
      BY <1>1
    <2>2. ASSUME NEW st \in Statuses, NEW m \in Manager
          PROVE  LET r == [alerts[k] EXCEPT !.status = st, !.assigned = m]
                 IN  /\ r \in AlertRow /\ r.episode = alerts[k].episode
                     /\ r.status = st /\ r.assigned = m
      BY <1>3 DEF AlertRow
    <2>3. QED
      BY <1>1, <1>2, <2>2
  <1>5. alerts' = [alerts EXCEPT ![k] = row]
    <2>1. k \in DOMAIN alerts
      BY <1>1, <1>3
    <2>2. alerts' = [alerts EXCEPT ![k].status = request[p].what, ![k].assigned = request[p].by]
      BY DEF TransitionCommit
    <2>3. QED
      BY <2>1, <2>2
  <1> HIDE DEF row
  <1>6. /\ alerts' \in Seq(AlertRow) /\ Len(alerts') = Len(alerts)
        /\ \A i \in 1..Len(alerts) : alerts'[i] = IF i = k THEN row ELSE alerts[i]
    BY <1>1, <1>3, <1>4, <1>5, ExceptSeq
  <1>7. QED
    BY <1>1, <1>4, <1>6

\* DocumentCommit: one row more.
LEMMA DocumentWritten ==
    ASSUME CallsOK, RowsOK, Asked, Saved, NEW p \in Request, DocumentCommit(p)
    PROVE  \E d \in DocumentRow :
             /\ d = NewDocument(request[p].what, request[p].number, request[p].key)
             /\ d.kind = request[p].what /\ d.number = request[p].number /\ d.key = request[p].key
             /\ documents' = documents \cup {d}
             /\ counter' = [counter EXCEPT !["DOCUMENT"] = request[p].number]
  <1> DEFINE d == NewDocument(request[p].what, request[p].number, request[p].key)
  <1>1. request[p].what \in Kinds /\ request[p].number \in Nat /\ request[p].key \in Key
    BY DEF DocumentCommit, At, Asked, CallsOK, Calls, Saved
  <1>2. /\ d \in DocumentRow
        /\ d.kind = request[p].what /\ d.number = request[p].number /\ d.key = request[p].key
    BY <1>1 DEF NewDocument, DocumentRow
  <1>3. documents' = documents \cup {d} /\ counter' = [counter EXCEPT !["DOCUMENT"] = request[p].number]
    BY DEF DocumentCommit, CommitNumber
  <1>4. QED
    BY <1>2, <1>3

\* The rows of a table are changed one by one, and one may be added.
LEMMA AppendMapped ==
    ASSUME NEW S, NEW rows \in Seq(S), NEW f, DOMAIN f = 1..Len(rows),
           f = [i \in 1..Len(rows) |-> f[i]],
           \A i \in 1..Len(rows) : f[i] \in S, NEW new \in S
    PROVE  /\ f \in Seq(S) /\ Len(f) = Len(rows)
           /\ Append(f, new) \in Seq(S) /\ Len(Append(f, new)) = Len(rows) + 1
           /\ \A i \in 1..Len(rows) : Append(f, new)[i] = f[i]
           /\ Append(f, new)[Len(rows) + 1] = new
  <1>1. Len(rows) \in Nat
    OBVIOUS
  <1>2. f \in [1..Len(rows) -> S]
    OBVIOUS
  <1>3. f \in Seq(S) /\ Len(f) = Len(rows)
    BY <1>1, <1>2, FunctionIsSequence
  <1>4. QED
    BY <1>3, AppendProperties

\* ConsentCommit: the consents it has seen are used up, and there is a new one.
LEMMA ConsentWritten ==
    ASSUME CallsOK, RowsOK, Asked, NEW p \in Request, ConsentCommit(p)
    PROVE  /\ consents' \in Seq(ConsentRow) /\ Len(consents') = Len(consents) + 1
           /\ guesses' \in Seq(Nat) /\ Len(guesses') = Len(guesses) + 1
           /\ \A n \in 1..Len(guesses) : guesses'[n] = guesses[n]
           /\ guesses'[Len(guesses) + 1] = 0
           /\ \A n \in Consents :
                /\ consents'[n].address = consents[n].address /\ consents'[n].age = consents[n].age
                /\ consents'[n].attempts = consents[n].attempts
                /\ consents'[n].used <=> consents[n].used \/ n \in request[p].seen
           /\ LET new == consents'[Len(consents) + 1]
              IN  /\ new.address = request[p].what /\ ~new.used
                  /\ new.age = 0 /\ new.attempts = 0
  <1> DEFINE row(n) == IF n \in request[p].seen
                         THEN [consents[n] EXCEPT !.used = TRUE] ELSE consents[n]
             f == [n \in 1..Len(consents) |-> row(n)]
  <1>1. PICK person \in Complainant \cup {None} :
            consents' = Append(f, NewConsent(request[p].by, request[p].what, person))
    BY DEF ConsentCommit, Consents
  <1> DEFINE new == NewConsent(request[p].by, request[p].what, person)
  <1>2. request[p].by \in DeskOfficer /\ request[p].what \in Address
    BY DEF Asked, ConsentCommit, At
  <1>3. new \in ConsentRow /\ new.address = request[p].what /\ ~new.used /\ new.age = 0 /\ new.attempts = 0
    <2>1. ASSUME NEW o \in DeskOfficer, NEW a \in Address,
                 NEW b \in Complainant \cup {None}
          PROVE  LET r == NewConsent(o, a, b)
                 IN  r \in ConsentRow /\ r.address = a /\ ~r.used /\ r.age = 0 /\ r.attempts = 0
      BY DEF NewConsent, ConsentRow
    <2>2. QED
      BY <1>2, <2>1
  <1>4. consents \in Seq(ConsentRow) /\ guesses \in Seq(Nat)
    BY DEF RowsOK
  <1>5. ASSUME NEW n \in 1..Len(consents)
        PROVE  /\ row(n) \in ConsentRow
               /\ row(n).address = consents[n].address /\ row(n).age = consents[n].age
               /\ row(n).attempts = consents[n].attempts
               /\ row(n).used <=> consents[n].used \/ n \in request[p].seen
    <2>1. consents[n] \in ConsentRow
      BY <1>4
    <2>2. QED
      BY <2>1 DEF ConsentRow
  <1>6. DOMAIN f = 1..Len(consents) /\ \A n \in 1..Len(consents) : f[n] = row(n)
    OBVIOUS
  <1>7. f = [n \in 1..Len(consents) |-> f[n]]
    BY <1>6
  <1> HIDE DEF f
  <1> HIDE DEF row
  <1> HIDE DEF new
  <1>8. /\ Append(f, new) \in Seq(ConsentRow) /\ Len(Append(f, new)) = Len(consents) + 1
        /\ \A n \in 1..Len(consents) : Append(f, new)[n] = f[n]
        /\ Append(f, new)[Len(consents) + 1] = new
    BY <1>3, <1>4, <1>5, <1>6, <1>7, AppendMapped
  <1>9. consents' = Append(f, new)
    BY <1>1 DEF new
  <1>10. guesses' = Append(guesses, 0)
    BY DEF ConsentCommit
  <1>11. /\ guesses' \in Seq(Nat) /\ Len(guesses') = Len(guesses) + 1
         /\ \A n \in 1..Len(guesses) : guesses'[n] = guesses[n]
         /\ guesses'[Len(guesses) + 1] = 0
    BY <1>4, <1>10, AppendProperties
  <1>12. \A n \in 1..Len(consents) : consents'[n] = row(n)
    BY <1>6, <1>8, <1>9
  <1>13. QED
    BY <1>3, <1>5, <1>8, <1>9, <1>11, <1>12 DEF Consents

\* CodeDenied: an attempt is counted if the consent is the officer's.
LEMMA DenialWritten ==
    ASSUME CallsOK, RowsOK, Asked, NEW p \in Request, CodeDenied(p)
    PROVE  LET k == request[p].row
           IN  /\ k \in Consents
               /\ consents' \in Seq(ConsentRow) /\ Len(consents') = Len(consents)
               /\ guesses' \in Seq(Nat) /\ Len(guesses') = Len(guesses)
               /\ \A n \in Consents :
                    /\ consents'[n].address = consents[n].address
                    /\ consents'[n].age = consents[n].age /\ consents'[n].used = consents[n].used
                    /\ n # k => consents'[n] = consents[n] /\ guesses'[n] = guesses[n]
               /\ consents'[k].attempts >= consents[k].attempts
               /\ IF Usable(p)
                    THEN guesses'[k] = guesses[k] + 1 /\ consents'[k].attempts = consents[k].attempts + 1
                    ELSE guesses'[k] = guesses[k]
  <1> DEFINE k == request[p].row
             more == [consents[k] EXCEPT !.attempts = @ + 1]
  <1>1. k \in 1..Len(consents) /\ k \in 1..Len(guesses) /\ k \in Consents
    <2>1. k \in 0..Len(consents) /\ k # 0
      BY DEF CodeDenied, At, Asked
    <2>2. Len(consents) \in Nat /\ Len(guesses) = Len(consents)
      BY DEF RowsOK
    <2>3. QED
      BY <2>1, <2>2 DEF Consents
  <1>2. /\ consents \in Seq(ConsentRow) /\ guesses \in Seq(Nat) /\ consents[k] \in ConsentRow
        /\ Len(guesses) = Len(consents)
    BY <1>1 DEF RowsOK
  <1>3. /\ more \in ConsentRow /\ more.attempts = consents[k].attempts + 1
        /\ more.address = consents[k].address /\ more.age = consents[k].age
        /\ more.used = consents[k].used /\ consents[k].attempts \in Nat
    <2>1. ASSUME NEW a \in Nat
          PROVE  LET r == [consents[k] EXCEPT !.attempts = a]
                 IN  /\ r \in ConsentRow /\ r.attempts = a /\ r.address = consents[k].address
                     /\ r.age = consents[k].age /\ r.used = consents[k].used
      BY <1>2 DEF ConsentRow
    <2>2. \A r \in ConsentRow : r.attempts \in Nat
      BY DEF ConsentRow
    <2>3. consents[k].attempts \in Nat /\ consents[k].attempts + 1 \in Nat
      BY <1>2, <2>2
    <2>4. QED
      BY <2>1, <2>3
  <1>4. consents' = IF consents[k].by = request[p].by THEN [consents EXCEPT ![k] = more] ELSE consents
    <2>1. k \in DOMAIN consents
      BY <1>1, <1>2
    <2>2. QED
      BY <2>1 DEF CodeDenied
  <1>5. guesses' = [guesses EXCEPT ![k] = IF Usable(p) THEN @ + 1 ELSE @]
    BY DEF CodeDenied
  <1>6. Usable(p) => consents[k].by = request[p].by
    BY DEF Usable
  <1> HIDE DEF more
  <1> HIDE DEF k
  <1>7. /\ guesses' \in Seq(Nat) /\ Len(guesses') = Len(guesses)
        /\ \A n \in 1..Len(guesses) : n # k => guesses'[n] = guesses[n]
        /\ guesses'[k] = IF Usable(p) THEN guesses[k] + 1 ELSE guesses[k]
    <2> DEFINE g == IF Usable(p) THEN guesses[k] + 1 ELSE guesses[k]
    <2>2. g \in Nat
      BY <1>1, <1>2
    <2>3. guesses' = [guesses EXCEPT ![k] = g]
      BY <1>1, <1>2, <1>5
    <2> HIDE DEF g
    <2>4. /\ guesses' \in Seq(Nat) /\ Len(guesses') = Len(guesses)
          /\ \A n \in 1..Len(guesses) : guesses'[n] = IF n = k THEN g ELSE guesses[n]
      BY <1>1, <1>2, <2>2, <2>3, ExceptSeq
    <2>5. QED
      BY <1>1, <2>4 DEF g
  <1>8. CASE consents[k].by = request[p].by
    <2>1. /\ consents' \in Seq(ConsentRow) /\ Len(consents') = Len(consents)
          /\ \A n \in 1..Len(consents) : consents'[n] = IF n = k THEN more ELSE consents[n]
      BY <1>1, <1>2, <1>3, <1>4, <1>8, ExceptSeq
    <2>2. QED
      BY <1>1, <1>2, <1>3, <1>7, <2>1, SMTT(30) DEF Consents, k
  <1>9. CASE consents[k].by # request[p].by
    <2>1. consents' = consents /\ ~Usable(p)
      BY <1>4, <1>6, <1>9
    <2>2. QED
      BY <1>1, <1>2, <1>3, <1>7, <2>1 DEF Consents, k
  <1>10. QED
    BY <1>8, <1>9, Zenon

LEMMA ConsentNumbers ==
    ASSUME RowsOK
    PROVE  /\ consents \in Seq(ConsentRow) /\ Len(consents) \in Nat
           /\ \A n \in 1..Len(consents) :
                /\ consents[n] \in ConsentRow
                /\ consents[n].attempts \in Nat /\ consents[n].age \in Nat
  <1>1. consents \in Seq(ConsentRow)
    BY DEF RowsOK
  <1>2. \A n \in 1..Len(consents) : consents[n] \in ConsentRow
    BY <1>1
  <1>3. \A r \in ConsentRow : r.attempts \in Nat /\ r.age \in Nat
    BY DEF ConsentRow
  <1>4. QED
    BY <1>1, <1>2, <1>3

\* RegisterCommit: a complaint, its files and the consent it uses up.
LEMMA ComplaintWritten ==
    ASSUME CallsOK, RowsOK, Asked, NEW p \in Request, RegisterCommit(p)
    PROVE  /\ complaints' \in Seq(ComplaintRow) /\ Len(complaints') = Len(complaints) + 1
           /\ \A c \in 1..Len(complaints) : complaints'[c] = complaints[c]
           /\ LET new == complaints'[Len(complaints) + 1]
              IN  /\ new.number = request[p].number /\ new.consent = request[p].row
                  /\ new.files = request[p].files /\ new.by = request[p].by
                  /\ new.owner = Owner(request[p])
           /\ counter' = [counter EXCEPT !["COMPLAINT"] = request[p].number]
  <1> DEFINE new == NewComplaint(request[p].by, Owner(request[p]), request[p].number,
                                 request[p].row, request[p].files)
  <1>1. request[p].by \in Users /\ Owner(request[p]) \in Complainant \cup {None}
    <2>1. request[p].by \in Users /\ request[p].row \in 0..Len(consents)
      BY DEF RegisterCommit, At, Asked
    <2>2. \A n \in 1..Len(consents) : consents[n].person \in Complainant \cup {None}
      <3>1. \A n \in 1..Len(consents) : consents[n] \in ConsentRow
        BY DEF RowsOK
      <3>2. QED
        BY <3>1 DEF ConsentRow
    <2>3. Len(consents) \in Nat
      BY DEF RowsOK
    <2>4. request[p].row = 0 \/ request[p].row \in 1..Len(consents)
      BY <2>1, <2>3
    <2>5. QED
      BY <2>1, <2>2, <2>4 DEF Owner
  <1>2. request[p].number \in Nat /\ request[p].row \in Nat /\ request[p].files \in SUBSET Nat
    BY DEF CallsOK, Calls
  <1>3. /\ new \in ComplaintRow
        /\ new.number = request[p].number /\ new.consent = request[p].row
        /\ new.files = request[p].files /\ new.by = request[p].by
        /\ new.owner = Owner(request[p])
    <2>1. ASSUME NEW u \in Users, NEW o \in Complainant \cup {None}, NEW x \in Nat, NEW n \in Nat,
                 NEW fs \in SUBSET Nat
          PROVE  LET r == NewComplaint(u, o, x, n, fs)
                 IN  /\ r \in ComplaintRow /\ r.number = x /\ r.consent = n /\ r.files = fs
                     /\ r.by = u /\ r.owner = o
      BY DEF NewComplaint, ComplaintRow
    <2>2. QED
      BY <1>1, <1>2, <2>1
  <1>4. /\ complaints' = Append(complaints, new)
        /\ counter' = [counter EXCEPT !["COMPLAINT"] = request[p].number]
    BY DEF RegisterCommit, CommitNumber
  <1> HIDE DEF new
  <1>5. QED
    BY <1>3, <1>4, AppendProperties DEF RowsOK

LEMMA FilesAttached ==
    ASSUME CallsOK, RowsOK, Asked, NEW p \in Request, RegisterCommit(p)
    PROVE  /\ uploads' \in Seq(UploadRow) /\ Len(uploads') = Len(uploads)
           /\ \A f \in Uploads :
                /\ uploads'[f].by = uploads[f].by /\ uploads'[f].key = uploads[f].key
                /\ uploads'[f].fresh = uploads[f].fresh
                /\ uploads'[f].complaint = IF f \in request[p].files THEN Len(complaints) + 1
                                                                    ELSE uploads[f].complaint
  <1> DEFINE id == Len(complaints) + 1
             row(f) == IF f \in request[p].files THEN [uploads[f] EXCEPT !.complaint = id]
                                                 ELSE uploads[f]
             t == [f \in 1..Len(uploads) |-> row(f)]
  <1>1. uploads \in Seq(UploadRow) /\ Len(uploads) \in Nat /\ id \in Nat
    BY DEF RowsOK
  <1> HIDE DEF id
  <1>2. ASSUME NEW f \in 1..Len(uploads)
        PROVE  /\ row(f) \in UploadRow
               /\ row(f).by = uploads[f].by /\ row(f).key = uploads[f].key
               /\ row(f).fresh = uploads[f].fresh
               /\ row(f).complaint = IF f \in request[p].files THEN id ELSE uploads[f].complaint
    <2>1. uploads[f] \in UploadRow
      BY <1>1
    <2>2. QED
      BY <1>1, <2>1 DEF UploadRow
  <1>3. t \in [1..Len(uploads) -> UploadRow] /\ \A f \in 1..Len(uploads) : t[f] = row(f)
    BY <1>2
  <1>4. uploads' = t
    BY DEF RegisterCommit, Uploads, id
  <1> HIDE DEF t
  <1> HIDE DEF row
  <1>5. uploads' \in Seq(UploadRow) /\ Len(uploads') = Len(uploads)
    BY <1>1, <1>3, <1>4, FunctionIsSequence
  <1>6. QED
    BY <1>2, <1>3, <1>4, <1>5 DEF Uploads, id

LEMMA ConsentUsed ==
    ASSUME CallsOK, RowsOK, Asked, NEW p \in Request, RegisterCommit(p)
    PROVE  /\ consents' \in Seq(ConsentRow) /\ Len(consents') = Len(consents)
           /\ \A n \in Consents :
                /\ consents'[n].address = consents[n].address /\ consents'[n].age = consents[n].age
                /\ consents'[n].attempts >= consents[n].attempts
                /\ consents'[n].used <=> consents[n].used \/ n = request[p].row
           /\ request[p].row # 0 => request[p].row \in Consents
  <1> DEFINE k == request[p].row
             used == [consents[k] EXCEPT !.attempts = @ + 1, !.used = TRUE]
  <1>0. consents \in Seq(ConsentRow) /\ Len(consents) \in Nat /\ k \in 0..Len(consents)
    <2>1. request[p].op = "register"
      BY DEF RegisterCommit, At
    <2>2. QED
      BY <2>1, ConsentNumbers DEF Asked
  <1>1. CASE k = 0
    <2>1. consents' = consents
      BY <1>1 DEF RegisterCommit
    <2>2. \A n \in Consents : consents[n].attempts \in Nat /\ n # k
      BY <1>1, ConsentNumbers DEF Consents
    <2>3. QED
      BY <1>0, <1>1, <2>1, <2>2
  <1>2. CASE k # 0
    <2>1. k \in 1..Len(consents) /\ consents[k] \in ConsentRow
      BY <1>0, <1>2
    <2>2. /\ used \in ConsentRow /\ used.used /\ used.attempts = consents[k].attempts + 1
          /\ used.address = consents[k].address /\ used.age = consents[k].age
          /\ consents[k].attempts \in Nat
      <3>1. ASSUME NEW a \in Nat
            PROVE  LET r == [consents[k] EXCEPT !.attempts = a, !.used = TRUE]
                   IN  /\ r \in ConsentRow /\ r.attempts = a /\ r.used
                       /\ r.address = consents[k].address /\ r.age = consents[k].age
        BY <2>1 DEF ConsentRow
      <3>2. consents[k].attempts \in Nat /\ consents[k].attempts + 1 \in Nat
        BY <2>1 DEF ConsentRow
      <3>3. QED
        BY <3>1, <3>2
    <2>3. consents' = [consents EXCEPT ![k] = used]
      <3>1. k \in DOMAIN consents
        BY <1>0, <2>1
      <3>2. QED
        BY <1>2, <3>1 DEF RegisterCommit
    <2> HIDE DEF used
    <2> HIDE DEF k
    <2>4. /\ consents' \in Seq(ConsentRow) /\ Len(consents') = Len(consents)
          /\ \A n \in 1..Len(consents) : consents'[n] = IF n = k THEN used ELSE consents[n]
      BY <1>0, <2>1, <2>2, <2>3, ExceptSeq
    <2>5. \A n \in 1..Len(consents) : consents[n].attempts \in Nat
      BY ConsentNumbers
    <2>6. QED
      BY <2>1, <2>2, <2>4, <2>5 DEF Consents, k
  <1>3. QED
    BY <1>1, <1>2, Zenon

\* UploadCommit: one row more.
LEMMA UploadWritten ==
    ASSUME CallsOK, RowsOK, Asked, Saved, NEW p \in Request, UploadCommit(p)
    PROVE  /\ uploads' \in Seq(UploadRow) /\ Len(uploads') = Len(uploads) + 1
           /\ \A f \in Uploads : uploads'[f] = uploads[f]
           /\ LET new == uploads'[Len(uploads) + 1]
              IN  /\ new.by = request[p].by /\ new.key = request[p].key
                  /\ new.complaint = request[p].row
  <1> DEFINE new == NewUpload(request[p].by, request[p].row, request[p].key)
  <1>1. request[p].by \in Users /\ request[p].row \in Nat /\ request[p].key \in Key
    BY DEF UploadCommit, At, Asked, CallsOK, Calls, Saved
  <1>2. /\ new \in UploadRow /\ new.by = request[p].by /\ new.key = request[p].key
        /\ new.complaint = request[p].row
    BY <1>1 DEF NewUpload, UploadRow
  <1>3. uploads' = Append(uploads, new)
    BY DEF UploadCommit
  <1> HIDE DEF new
  <1>4. QED
    BY <1>2, <1>3, AppendProperties DEF RowsOK, Uploads

\* Time only makes consents and uploads older.
LEMMA ConsentsOlder ==
    ASSUME RowsOK, ConsentsAge
    PROVE  /\ consents' \in Seq(ConsentRow) /\ Len(consents') = Len(consents)
           /\ \A n \in Consents :
                /\ consents'[n].address = consents[n].address /\ consents'[n].used = consents[n].used
                /\ consents'[n].attempts = consents[n].attempts /\ consents'[n].age >= consents[n].age
  <1>1. PICK k \in Consents :
            consents[k].age + 1 \in Ages /\ consents' = [consents EXCEPT ![k].age = @ + 1]
    BY DEF ConsentsAge
  <1> DEFINE older == [consents[k] EXCEPT !.age = consents[k].age + 1]
  <1>2. /\ consents \in Seq(ConsentRow) /\ k \in 1..Len(consents) /\ k \in DOMAIN consents
        /\ consents[k] \in ConsentRow /\ \A n \in 1..Len(consents) : consents[n].age \in Nat
    BY ConsentNumbers DEF Consents
  <1>3. /\ older \in ConsentRow /\ older.age = consents[k].age + 1
        /\ older.address = consents[k].address /\ older.used = consents[k].used
        /\ older.attempts = consents[k].attempts
    <2>1. ASSUME NEW a \in Nat
          PROVE  LET r == [consents[k] EXCEPT !.age = a]
                 IN  /\ r \in ConsentRow /\ r.age = a /\ r.address = consents[k].address
                     /\ r.used = consents[k].used /\ r.attempts = consents[k].attempts
      BY <1>2 DEF ConsentRow
    <2>2. consents[k].age + 1 \in Nat
      BY <1>2
    <2>3. QED
      BY <2>1, <2>2
  <1>4. consents' = [consents EXCEPT ![k] = older]
    BY <1>1, <1>2
  <1> HIDE DEF older
  <1>5. /\ consents' \in Seq(ConsentRow) /\ Len(consents') = Len(consents)
        /\ \A n \in 1..Len(consents) : consents'[n] = IF n = k THEN older ELSE consents[n]
    BY <1>2, <1>3, <1>4, ExceptSeq
  <1>6. QED
    BY <1>2, <1>3, <1>5 DEF Consents

LEMMA UploadsOlder ==
    ASSUME RowsOK, UploadsAge
    PROVE  /\ uploads' \in Seq(UploadRow) /\ Len(uploads') = Len(uploads)
           /\ \A f \in Uploads :
                /\ uploads'[f].by = uploads[f].by /\ uploads'[f].key = uploads[f].key
                /\ uploads'[f].complaint = uploads[f].complaint
                /\ uploads'[f].fresh => uploads[f].fresh
  <1>1. PICK k \in Uploads : uploads[k].fresh /\ uploads' = [uploads EXCEPT ![k].fresh = FALSE]
    BY Zenon DEF UploadsAge
  <1> DEFINE older == [uploads[k] EXCEPT !.fresh = FALSE]
  <1>2. /\ uploads \in Seq(UploadRow) /\ k \in 1..Len(uploads) /\ k \in DOMAIN uploads
        /\ uploads[k] \in UploadRow
    BY DEF RowsOK, Uploads
  <1>3. /\ older \in UploadRow /\ ~older.fresh
        /\ older.by = uploads[k].by /\ older.key = uploads[k].key
        /\ older.complaint = uploads[k].complaint
    BY <1>2 DEF UploadRow
  <1>4. uploads' = [uploads EXCEPT ![k] = older]
    BY <1>1, <1>2
  <1> HIDE DEF older
  <1>5. /\ uploads' \in Seq(UploadRow) /\ Len(uploads') = Len(uploads)
        /\ \A f \in 1..Len(uploads) : uploads'[f] = IF f = k THEN older ELSE uploads[f]
    BY <1>2, <1>3, <1>4, ExceptSeq
  <1>6. QED
    BY <1>2, <1>3, <1>5 DEF Uploads

\* A refusal closes a complaint and changes nothing else of it.
LEMMA ComplaintRefused ==
    ASSUME RowsOK, Refuse
    PROVE  /\ complaints' \in Seq(ComplaintRow) /\ Len(complaints') = Len(complaints)
           /\ \A c \in 1..Len(complaints) :
                /\ complaints'[c].number = complaints[c].number
                /\ complaints'[c].consent = complaints[c].consent
                /\ complaints'[c].files = complaints[c].files
                /\ complaints'[c].owner = complaints[c].owner
                /\ complaints[c].open /\ (\E q \in Request : <<"complaint", c>> \in held[q])
                   => complaints'[c].open
  <1>1. PICK k \in 1..Len(complaints) :
            /\ complaints' = [complaints EXCEPT ![k].open = FALSE]
            /\ \A q \in Request : <<"complaint", k>> \notin held[q]
    BY DEF Refuse
  <1> DEFINE closed == [complaints[k] EXCEPT !.open = FALSE]
  <1>2. complaints \in Seq(ComplaintRow) /\ k \in DOMAIN complaints /\ complaints[k] \in ComplaintRow
    BY DEF RowsOK
  <1>3. /\ closed \in ComplaintRow /\ closed.number = complaints[k].number
        /\ closed.consent = complaints[k].consent /\ closed.files = complaints[k].files
        /\ closed.owner = complaints[k].owner
    BY <1>2 DEF ComplaintRow
  <1>4. complaints' = [complaints EXCEPT ![k] = closed]
    BY <1>1, <1>2
  <1> HIDE DEF closed
  <1>5. /\ complaints' \in Seq(ComplaintRow) /\ Len(complaints') = Len(complaints)
        /\ \A c \in 1..Len(complaints) : complaints'[c] = IF c = k THEN closed ELSE complaints[c]
    BY <1>2, <1>3, <1>4, ExceptSeq
  <1>6. QED
    BY <1>1, <1>3, <1>5

-----------------------------------------------------------------------------
(***************************************************************************)
(* The rows keep their types, and a call still fits them.                  *)
(***************************************************************************)
LEMMA GuessesLevel ==
    ASSUME CallsOK, RowsOK, Asked, [RecordsNext]_allVars
    PROVE  /\ consents' \in Seq(ConsentRow) /\ guesses' \in Seq(Nat)
           /\ Len(consents') >= Len(consents) /\ Len(guesses') = Len(consents')
  <1>0. /\ Len(consents) \in Nat /\ consents \in Seq(ConsentRow) /\ guesses \in Seq(Nat)
        /\ Len(guesses) = Len(consents)
    BY DEF RowsOK
  <1>1. ASSUME NEW p \in Request, ConsentCommit(p)
        PROVE  /\ consents' \in Seq(ConsentRow) /\ guesses' \in Seq(Nat)
               /\ Len(consents') >= Len(consents) /\ Len(guesses') = Len(consents')
    BY <1>0, <1>1, ConsentWritten
  <1>2. ASSUME NEW p \in Request, CodeDenied(p)
        PROVE  /\ consents' \in Seq(ConsentRow) /\ guesses' \in Seq(Nat)
               /\ Len(consents') >= Len(consents) /\ Len(guesses') = Len(consents')
    BY <1>0, <1>2, DenialWritten
  <1>3. ASSUME NEW p \in Request, RegisterCommit(p)
        PROVE  /\ consents' \in Seq(ConsentRow) /\ guesses' \in Seq(Nat)
               /\ Len(consents') >= Len(consents) /\ Len(guesses') = Len(consents')
    <2>1. guesses' = guesses
      BY <1>3 DEF RegisterCommit
    <2>2. QED
      BY <1>0, <1>3, <2>1, ConsentUsed
  <1>4. CASE ConsentsAge
    <2>1. guesses' = guesses
      BY <1>4 DEF ConsentsAge
    <2>2. QED
      BY <1>0, <1>4, <2>1, ConsentsOlder
  <1>5. CASE consents' = consents /\ guesses' = guesses
    BY <1>0, <1>5
  <1>6. QED
    BY <1>1, <1>2, <1>3, <1>4, <1>5, IntakeWriters

LEMMA RowsKept ==
    ASSUME CallsOK, RowsOK, Asked, Saved, AlertsInv, [RecordsNext]_allVars
    PROVE  /\ RowsOK' /\ Len(alerts') >= Len(alerts) /\ Len(feedback') >= Len(feedback)
           /\ Len(complaints') >= Len(complaints)
  <1>1. phase' \in Phases /\ due' \subseteq Episode
    <2>1. CaseProceeds => phase' \in Phases
      BY DEF CaseProceeds
    <2>2. DeadlinesChange => due' \subseteq Episode
      BY DEF DeadlinesChange, RowsOK
    <2>3. QED
      BY <2>1, <2>2, RecordWriters DEF RowsOK
  <1>2. statements' \in Seq(StatementRow)
    BY RecordWriters, StatementWritten DEF RowsOK
  <1>3. feedback' \in Seq(FeedbackRow) /\ Len(feedback') >= Len(feedback)
    <2>1. Len(feedback) \in Nat /\ feedback \in Seq(FeedbackRow)
      BY DEF RowsOK
    <2>2. QED
      BY <2>1, RecordWriters, FeedbackWritten
  <1>4. documents' \subseteq DocumentRow
    BY RecordWriters, DocumentWritten DEF RowsOK
  <1>5. alerts' \in Seq(AlertRow) /\ Len(alerts') >= Len(alerts)
    <2>1. Len(alerts) \in Nat /\ alerts \in Seq(AlertRow)
      BY DEF RowsOK
    <2>2. ASSUME NEW p \in Request, EvaluateCommit(p)
          PROVE  request[p].seen \subseteq Episode
      BY <2>2 DEF EvaluateCommit, AlertsInv
    <2>3. QED
      BY <2>1, <2>2, RecordWriters, AlertsRaised, AlertMoved
  <1>6. consents' \in Seq(ConsentRow) /\ guesses' \in Seq(Nat) /\ Len(guesses') = Len(consents')
    BY GuessesLevel
  <1>7. uploads' \in Seq(UploadRow)
    BY IntakeWriters, FilesAttached, UploadWritten, UploadsOlder DEF RowsOK
  <1>8. complaints' \in Seq(ComplaintRow) /\ Len(complaints') >= Len(complaints)
    <2>1. Len(complaints) \in Nat /\ complaints \in Seq(ComplaintRow)
      BY DEF RowsOK
    <2>2. QED
      BY <2>1, IntakeWriters, ComplaintWritten, ComplaintRefused
  <1>9. QED
    BY <1>1, <1>2, <1>3, <1>4, <1>5, <1>6, <1>7, <1>8 DEF RowsOK

LEMMA AskedKept ==
    ASSUME CallsOK, RowsOK, Asked, Saved, AlertsInv, [RecordsNext]_allVars
    PROVE  Asked'
  <1> DEFINE Fits(q) ==
        /\ request[q].op = "document" => request[q].what \in Kinds
        /\ request[q].op = "invite" => request[q].ref \in Invitation /\ request[q].what \in Contents
        /\ request[q].op = "transition" =>
             /\ request[q].by \in Manager /\ request[q].row \in 1..Len(alerts)
             /\ <<request[q].ref, request[q].what>> \in AlertMoves
        /\ request[q].op = "consent" => request[q].by \in DeskOfficer /\ request[q].what \in Address
        /\ request[q].op = "register" =>
             /\ request[q].by \in Users
             /\ request[q].row \in 0..Len(consents)
             /\ request[q].at \in {"code", "denied"} => request[q].row # 0
             /\ request[q].at = "owner" => request[q].row = 0
        /\ request[q].op = "upload" => request[q].by \in Users /\ request[q].row \in 0..Len(complaints)
  <1>0. /\ Len(alerts) \in Nat /\ Len(alerts') \in Nat /\ Len(alerts') >= Len(alerts)
        /\ Len(consents) \in Nat /\ Len(consents') \in Nat /\ Len(consents') >= Len(consents)
        /\ Len(complaints) \in Nat /\ Len(complaints') \in Nat
        /\ Len(complaints') >= Len(complaints)
    BY RowsKept, GuessesLevel DEF RowsOK
  <1>1. SUFFICES ASSUME NEW q \in Request
                 PROVE  Fits(q)'
    BY DEF Asked
  <1>2. Fits(q)
    BY DEF Asked
  <1>3. CASE Same(q)
    BY <1>0, <1>2, <1>3 DEF Same
  <1>4. CASE Done(q)
    BY <1>4, IdleShape DEF Done
  <1>5. CASE Begun(q) /\ Asking(q)
    BY <1>0, <1>5 DEF Begun, Asking, Starts
  <1>6. CASE \E op, from, to, L : Goes(q, op, from, to, L) /\ to \notin {"code", "owner"}
                /\ (to = "denied" => from = "code")
    BY <1>0, <1>2, <1>6 DEF Goes, At, Advance
  <1>7. CASE SaveGoes(q)
    BY <1>0, <1>2, <1>7 DEF SaveGoes, Advance
  <1>8. RecordGoes(q) \/ IntakeGoes(q) =>
          \E op, from, to, L : Goes(q, op, from, to, L) /\ to \notin {"code", "owner"}
                /\ (to = "denied" => from = "code")
    <2>1. CASE RecordGoes(q)
      BY <2>1 DEF RecordGoes
    <2>2. CASE IntakeGoes(q)
      BY <2>2 DEF IntakeGoes
    <2>3. QED
      BY <2>1, <2>2
  <1>9. QED
    BY <1>3, <1>4, <1>5, <1>6, <1>7, <1>8, NextMoves DEF Moves

-----------------------------------------------------------------------------
(***************************************************************************)
(* Objects in the store.                                                   *)
(***************************************************************************)
\* Transactions end one at a time, and not while the world changes.
LEMMA OneEnds ==
    ASSUME CallsOK, NEW p \in Request, NEW q \in Request, Ends(p), Ends(q), request[q].op # "idle"
    PROVE  p = q
  BY EndStep, IdleShape DEF Alone, Same, Done

LEMMA WorldStill ==
    ASSUME CallsOK, NEW p \in Request, Ends(p), request[p].op # "idle"
    PROVE  /\ ~CaseProceeds /\ ~DeadlinesChange
           /\ ~ConsentsAge /\ ~UploadsAge /\ ~Refuse
  <1>1. request' # request
    BY EndStep, IdleShape DEF Done
  <1>2. QED
    BY <1>1 DEF CaseProceeds, DeadlinesChange, ConsentsAge, UploadsAge, Refuse, transactionVars

LEMMA UsedKeysStep ==
    ASSUME CallsOK, RowsOK, Asked, Saved, [RecordsNext]_allVars
    PROVE  \/ UsedKeys' = UsedKeys
           \/ \E p \in Request : /\ DocumentCommit(p) \/ UploadCommit(p)
                                 /\ UsedKeys' = UsedKeys \cup {request[p].key}
  <1>1. ASSUME NEW p \in Request, DocumentCommit(p)
        PROVE  UsedKeys' = UsedKeys \cup {request[p].key}
    <2>1. \E d \in DocumentRow : d.key = request[p].key /\ documents' = documents \cup {d}
      BY <1>1, DocumentWritten
    <2>2. Ends(p) /\ request[p].op = "document"
      BY <1>1 DEF Ends, DocumentCommit, At
    <2>3. ASSUME NEW q \in Request
          PROVE  ~RegisterCommit(q) /\ ~UploadCommit(q)
      <3>1. RegisterCommit(q) \/ UploadCommit(q) => Ends(q) /\ request[q].op \in {"register", "upload"}
        BY DEF Ends, RegisterCommit, UploadCommit, At
      <3>2. QED
        BY <2>2, <3>1, OneEnds
    <2>4. uploads' = uploads
      BY <2>2, <2>3, IntakeWriters, WorldStill
    <2>5. QED
      BY <2>1, <2>4 DEF UsedKeys, Uploads
  <1>2. ASSUME NEW p \in Request, UploadCommit(p)
        PROVE  UsedKeys' = UsedKeys \cup {request[p].key}
    <2>1. /\ Len(uploads') = Len(uploads) + 1 /\ Len(uploads) \in Nat
          /\ \A f \in Uploads : uploads'[f] = uploads[f]
          /\ uploads'[Len(uploads) + 1].key = request[p].key
      BY <1>2, UploadWritten DEF RowsOK
    <2>2. Ends(p) /\ request[p].op = "upload"
      BY <1>2 DEF Ends, UploadCommit, At
    <2>3. ASSUME NEW q \in Request
          PROVE  ~DocumentCommit(q)
      <3>1. DocumentCommit(q) => Ends(q) /\ request[q].op = "document"
        BY DEF Ends, DocumentCommit, At
      <3>2. QED
        BY <2>2, <3>1, OneEnds
    <2>4. documents' = documents
      BY <2>3, RecordWriters
    <2>5. Uploads' = Uploads \cup {Len(uploads) + 1}
      BY <2>1 DEF Uploads
    <2>6. {uploads'[f].key : f \in Uploads'} = {uploads[f].key : f \in Uploads} \cup {request[p].key}
      BY <2>1, <2>5
    <2>7. QED
      BY <2>4, <2>6 DEF UsedKeys
  <1>3. ASSUME \A p \in Request : ~DocumentCommit(p) /\ ~UploadCommit(p)
        PROVE  UsedKeys' = UsedKeys
    <2>1. documents' = documents
      BY <1>3, RecordWriters
    <2>2. Uploads' = Uploads /\ \A f \in Uploads : uploads'[f].key = uploads[f].key
      <3>1. CASE uploads' = uploads
        BY <3>1 DEF Uploads
      <3>2. CASE \E p \in Request : RegisterCommit(p)
        BY <3>2, FilesAttached DEF Uploads
      <3>3. CASE UploadsAge
        BY <3>3, UploadsOlder DEF Uploads
      <3>4. QED
        BY <1>3, <3>1, <3>2, <3>3, IntakeWriters
    <2>3. QED
      BY <2>1, <2>2 DEF UsedKeys
  <1>4. QED
    BY <1>1, <1>2, <1>3

\* What p is about to commit is kept, and a failure removes only its own object.
LEMMA StoreKept ==
    ASSUME CallsOK, RowsOK, Asked, Saved, Kept, [RecordsNext]_allVars
    PROVE  Saved' /\ Kept'
  <1> DEFINE Saving(q) == At(q, "document", "commit") \/ At(q, "upload", "commit")
  <1>0. \A q \in Request : request[q].key # None => Saving(q) /\ request[q].key \in stored \ UsedKeys
    BY DEF Saved
  <1>1. ASSUME NEW key \in stored, key \notin stored'
        PROVE  \E p \in Request : Fail(p) /\ request[p].key = key
    BY <1>1, StoreWriters DEF Save, Fail
  <1>2. ASSUME NEW p \in Request, Saving(p)
        PROVE  /\ request[p].key \in stored \ UsedKeys
               /\ \A q \in Request : q # p => request[q].key # request[p].key
    BY <1>2 DEF Saved
  <1>3. ASSUME NEW p \in Request, Fail(p)
        PROVE  request[p].key \notin UsedKeys
    <2>1. CASE request[p].key = None
      BY <2>1, RecordsAssumption DEF Kept, CallsOK
    <2>2. CASE request[p].key # None
      BY <1>0, <2>2
    <2>3. QED
      BY <2>1, <2>2
  <1>4. ASSUME NEW p \in Request, DocumentCommit(p) \/ UploadCommit(p)
        PROVE  Saving(p) /\ Ends(p) /\ request[p].op # "idle"
    BY <1>4 DEF DocumentCommit, UploadCommit, At, Ends
  <1>5. Kept'
    <2>1. ASSUME NEW key \in UsedKeys
          PROVE  key \in stored'
      BY <1>1, <1>3 DEF Kept
    <2>2. ASSUME NEW p \in Request, DocumentCommit(p) \/ UploadCommit(p)
          PROVE  request[p].key \in stored'
      <3>1. stored' = stored
        BY <2>2 DEF DocumentCommit, UploadCommit, Commit, CommitNumber
      <3>2. QED
        BY <1>2, <1>4, <2>2, <3>1
    <2>3. QED
      BY <2>1, <2>2, UsedKeysStep DEF Kept
  <1>6. ASSUME NEW q \in Request, Saving(q), Same(q)
        PROVE  request[q].key \in stored' \ UsedKeys'
    <2>1. ASSUME NEW p \in Request, Ends(p)
          PROVE  p # q
      <3>1. request[q].op # "idle" /\ request'[q].op # "idle"
        BY <1>6 DEF At, Same
      <3>2. QED
        BY <2>1, <3>1, EndStep, IdleShape DEF Done
    <2>2. request[q].key \in stored'
      <3>1. \A p \in Request : Fail(p) => Ends(p)
        BY DEF Ends
      <3>2. QED
        BY <1>1, <1>2, <1>6, <2>1, <3>1
    <2>3. request[q].key \notin UsedKeys'
      BY <1>2, <1>4, <1>6, <2>1, UsedKeysStep
    <2>4. QED
      BY <2>2, <2>3
  <1>7. ASSUME NEW q \in Request, SaveGoes(q)
        PROVE  /\ request'[q].key \in stored' \ UsedKeys'
               /\ request'[q].key \in Key \ stored
               /\ At(q, "document", "commit")' \/ At(q, "upload", "commit")'
    <2>1. ASSUME NEW p \in Request, Ends(p), request[p].op # "idle"
          PROVE  FALSE
      <3>1. request'[q].op = request[q].op /\ request[q].op # "idle" /\ request'[q].at = "commit"
            /\ request[q].at = "save"
        BY <1>7 DEF SaveGoes, Advance, At
      <3>2. ~Same(q) /\ ~Done(q)
        BY <3>1, IdleShape DEF Same, Done
      <3>3. QED
        BY <2>1, <3>2, EndStep DEF Alone
    <2>2. UsedKeys' = UsedKeys
      BY <1>4, <2>1, UsedKeysStep
    <2>3. QED
      BY <1>7, <2>2 DEF SaveGoes, Advance, At
  <1>8. ASSUME NEW q \in Request, request'[q].key # None \/ Saving(q)'
        PROVE  Same(q) \/ SaveGoes(q)
    <2>1. ~Done(q)
      BY <1>8, IdleShape DEF Done, At
    <2>2. ~Begun(q)
      BY <1>8 DEF Begun, Starts, At
    <2>3. ASSUME \E op, from, to, L : Goes(q, op, from, to, L)
                    /\ ~(to = "commit" /\ op \in {"document", "upload"}) /\ from # "commit",
                 request'[q].key = request[q].key
          PROVE  FALSE
      <3>1. request[q].at # "commit" /\ ~Saving(q)'
        BY <2>3 DEF Goes, At, Advance
      <3>2. request[q].key = None
        BY <1>0, <3>1 DEF At
      <3>3. QED
        BY <1>8, <2>3, <3>1, <3>2
    <2>4. ~RecordGoes(q)
      <3>1. SUFFICES ASSUME RecordGoes(q) PROVE FALSE
        OBVIOUS
      <3>2. request'[q].key = request[q].key
        BY <3>1, Zenon DEF RecordGoes, Keeps, Learns, Numbers
      <3>3. \E op, from, to, L : Goes(q, op, from, to, L)
                    /\ ~(to = "commit" /\ op \in {"document", "upload"}) /\ from # "commit"
        BY <3>1 DEF RecordGoes
      <3>4. QED
        BY <2>3, <3>2, <3>3
    <2>5. ~IntakeGoes(q)
      <3>1. SUFFICES ASSUME IntakeGoes(q) PROVE FALSE
        OBVIOUS
      <3>2. request'[q].key = request[q].key
        BY <3>1, Zenon DEF IntakeGoes, Keeps, Learns, Numbers
      <3>3. \E op, from, to, L : Goes(q, op, from, to, L)
                    /\ ~(to = "commit" /\ op \in {"document", "upload"}) /\ from # "commit"
        BY <3>1 DEF IntakeGoes
      <3>4. QED
        BY <2>3, <3>2, <3>3
    <2>6. QED
      BY <2>1, <2>2, <2>4, <2>5, NextMoves DEF Moves
  <1>9. Saved'
    <2>1. ASSUME NEW q \in Request, request'[q].key # None
          PROVE  Saving(q)'
      <3>1. CASE Same(q)
        BY <1>0, <2>1, <3>1 DEF Same, At
      <3>2. CASE SaveGoes(q)
        BY <1>7, <3>2
      <3>3. QED
        BY <1>8, <2>1, <3>1, <3>2
    <2>2. ASSUME NEW q \in Request, Saving(q)'
          PROVE  request'[q].key \in stored' \ UsedKeys'
      <3>1. CASE Same(q)
        BY <1>6, <2>2, <3>1 DEF Same, At
      <3>2. CASE SaveGoes(q)
        BY <1>7, <3>2
      <3>3. QED
        BY <1>8, <2>2, <3>1, <3>2
    <2>3. ASSUME NEW p \in Request, NEW q \in Request, p # q, Saving(p)', request'[p].key = request'[q].key
          PROVE  FALSE
      <3>1. request'[p].key # None
        <4>1. request'[p].key \in stored'
          BY <2>2, <2>3
        <4>2. QED
          BY <4>1, CallsKept, RecordsAssumption DEF CallsOK
      <3>2. Same(p) \/ Same(q)
        BY <2>3, NextMoves
      <3>3. CASE Same(p) /\ Same(q)
        BY <1>2, <2>3, <3>3 DEF Same, At
      <3>4. CASE Same(p) /\ SaveGoes(q)
        <4>1. request[p].key \in stored
          BY <1>2, <2>3, <3>4 DEF Same, At
        <4>2. QED
          BY <1>7, <2>3, <3>4, <4>1 DEF Same
      <3>5. CASE SaveGoes(p) /\ Same(q)
        <4>1. request[q].key \in stored
          BY <1>0, <2>3, <3>1, <3>5 DEF Same
        <4>2. QED
          BY <1>7, <2>3, <3>5, <4>1 DEF Same
      <3>6. QED
        BY <1>8, <2>3, <3>1, <3>2, <3>3, <3>4, <3>5
    <2>4. QED
      BY <2>1, <2>2, <2>3 DEF Saved
  <1>10. QED
    BY <1>5, <1>9

-----------------------------------------------------------------------------
(***************************************************************************)
(* Who commits holds the lock; nobody else is past it.                     *)
(***************************************************************************)
LEMMA LatestIsLast ==
    ASSUME RowsOK, StatementsInv
    PROVE  Latest = Len(statements)
  <1> DEFINE S == {statements[i].version : i \in 1..Len(statements)}
  <1>1. Len(statements) \in Nat /\ Len(statements) >= 1
    BY DEF RowsOK, StatementsInv
  <1>2. S = 1..Len(statements)
    BY DEF StatementsInv
  <1> HIDE DEF S
  <1>3. Len(statements) \in S /\ \A y \in S : Len(statements) >= y
    BY <1>1, <1>2
  <1>4. \A x \in S : (\A y \in S : x >= y) => x = Len(statements)
    BY <1>1, <1>2
  <1>5. QED
    BY <1>3, <1>4 DEF Latest, Max, S

LEMMA StatementsKept ==
    ASSUME CallsOK, RowsOK, Asked, Exclusive, Holding, StatementsInv, [RecordsNext]_allVars
    PROVE  StatementsInv'
  <1>0. Len(statements) \in Nat /\ Len(statements) >= 1
    BY DEF RowsOK, StatementsInv
  <1>1. CASE statements' = statements
    <2>1. ASSUME NEW q \in Request, At(q, "statement", "commit")'
          PROVE  request'[q].row = Len(statements)
      <3>1. CASE Same(q)
        BY <2>1, <3>1 DEF Same, At, StatementsInv
      <3>2. CASE RecordGoes(q)
        <4>1. request[q].row = Latest /\ request'[q].row = request[q].row
          BY <2>1, <3>2 DEF RecordGoes, Goes, Advance, At
        <4>2. QED
          BY <4>1, LatestIsLast
      <3>3. CASE Done(q) \/ Begun(q) \/ IntakeGoes(q) \/ SaveGoes(q)
        <4>1. ~(request'[q].op = "statement" /\ request'[q].at = "commit")
          BY <3>3, IdleShape DEF Done, Begun, Starts, IntakeGoes, SaveGoes, Goes, Advance, At
        <4>2. QED
          BY <2>1, <4>1 DEF At
      <3>4. QED
        BY <3>1, <3>2, <3>3, NextMoves DEF Moves
    <2>2. QED
      BY <1>1, <2>1 DEF StatementsInv, At
  <1>2. ASSUME NEW p \in Request, StatementCommit(p)
        PROVE  StatementsInv'
    <2>1. /\ At(p, "statement", "commit") /\ <<"complaint">> \in held[p]
          /\ request[p].row = Len(statements) /\ Ends(p)
      BY <1>2 DEF StatementCommit, Ends, Holding, Is, At, StatementsInv
    <2>2. ASSUME NEW q \in Request, At(q, "statement", "commit")'
          PROVE  FALSE
      <3>1. p # q
        BY <2>1, <2>2, EndStep, IdleShape DEF Done, At
      <3>2. Same(q)
        BY <2>1, <3>1, EndStep DEF Alone
      <3>3. <<"complaint">> \in held[q]
        BY <2>2, <3>2 DEF Same, Holding, Is, At
      <3>4. QED
        BY <2>1, <3>1, <3>3 DEF Exclusive
    <2>3. /\ Len(statements') = Len(statements) + 1
          /\ statements'[Len(statements) + 1] = [version |-> Len(statements) + 1, current |-> TRUE]
          /\ \A i \in 1..Len(statements) :
               /\ statements'[i].version = statements[i].version
               /\ statements'[i].current <=>
                    statements[i].current /\ statements[i].version # Len(statements)
      BY <1>2, <2>1, StatementWritten DEF NewStatement
    <2>4. ASSUME NEW i \in 1..Len(statements')
          PROVE  statements'[i].version = i /\ (statements'[i].current <=> i = Len(statements'))
      <3>1. CASE i \in 1..Len(statements)
        BY <1>0, <2>3, <3>1 DEF StatementsInv
      <3>2. CASE i = Len(statements) + 1
        BY <2>3, <3>2
      <3>3. QED
        BY <1>0, <2>3, <3>1, <3>2
    <2>5. QED
      BY <1>0, <2>2, <2>3, <2>4 DEF StatementsInv
  <1>3. QED
    BY <1>1, <1>2, RecordWriters

LEMMA FeedbackKept ==
    ASSUME CallsOK, RowsOK, Asked, Exclusive, Holding, FeedbackInv, [RecordsNext]_allVars
    PROVE  FeedbackInv'
  <1>0. Len(feedback) \in Nat
    BY DEF RowsOK
  <1> DEFINE Correcting(q) == At(q, "feedback", "commit")
             Inviting(q) == At(q, "invite", "commit")
  <1>1. CASE feedback' = feedback
    <2>1. ASSUME NEW q \in Request, Correcting(q)'
          PROVE  \/ request'[q].row = 0
                 \/ \A i \in 1..Len(feedback) : feedback[i].corrects # request'[q].row
      <3>1. CASE Same(q)
        BY <2>1, <3>1 DEF Same, At, FeedbackInv, Superseded
      <3>2. CASE RecordGoes(q)
        BY <2>1, <3>2 DEF RecordGoes, Goes, Advance, At, Superseded
      <3>3. CASE Done(q) \/ Begun(q) \/ IntakeGoes(q) \/ SaveGoes(q)
        <4>1. ~(request'[q].op = "feedback" /\ request'[q].at = "commit")
          BY <3>3, IdleShape DEF Done, Begun, Starts, IntakeGoes, SaveGoes, Goes, Advance, At
        <4>2. QED
          BY <2>1, <4>1 DEF At
      <3>4. QED
        BY <3>1, <3>2, <3>3, NextMoves DEF Moves
    <2>2. ASSUME NEW q \in Request, Inviting(q)'
          PROVE  \A i \in 1..Len(feedback) : feedback[i].id # request'[q].ref
      <3>1. CASE Same(q)
        BY <2>2, <3>1 DEF Same, At, FeedbackInv
      <3>2. CASE RecordGoes(q)
        BY <2>2, <3>2 DEF RecordGoes, Goes, Advance, At
      <3>3. CASE Done(q) \/ Begun(q) \/ IntakeGoes(q) \/ SaveGoes(q)
        <4>1. ~(request'[q].op = "invite" /\ request'[q].at = "commit")
          BY <3>3, IdleShape DEF Done, Begun, Starts, IntakeGoes, SaveGoes, Goes, Advance, At
        <4>2. QED
          BY <2>2, <4>1 DEF At
      <3>4. QED
        BY <3>1, <3>2, <3>3, NextMoves DEF Moves
    <2>3. \A i, j \in 1..Len(feedback) :
            i # j => /\ feedback[i].corrects = feedback[j].corrects => feedback[i].corrects = 0
                     /\ feedback[i].id = feedback[j].id => feedback[i].id = None
      BY DEF FeedbackInv
    <2>4. \A q \in Request : Correcting(q)' => (request[q].row = 0 \/ ~Superseded(request[q].row))'
      BY <1>1, <2>1 DEF Superseded
    <2>5. \A q \in Request : Inviting(q)' =>
            (\A i \in 1..Len(feedback) : feedback[i].id # request[q].ref)'
      BY <1>1, <2>2
    <2> HIDE DEF Correcting, Inviting
    <2>6. (\A i, j \in 1..Len(feedback) :
             i # j => /\ feedback[i].corrects = feedback[j].corrects => feedback[i].corrects = 0
                      /\ feedback[i].id = feedback[j].id => feedback[i].id = None)'
      BY <1>1, <2>3
    <2>7. QED
      BY <2>4, <2>5, <2>6, Zenon DEF FeedbackInv, Correcting, Inviting
  <1>2. ASSUME NEW p \in Request, FeedbackCommit(p) \/ InviteCommit(p)
        PROVE  FeedbackInv'
    <2>1. (Correcting(p) \/ Inviting(p)) /\ <<"docket">> \in held[p] /\ Ends(p)
      BY <1>2 DEF FeedbackCommit, InviteCommit, Ends, Holding, Is, At
    <2>2. ASSUME NEW q \in Request, Correcting(q)' \/ Inviting(q)'
          PROVE  FALSE
      <3>1. p # q
        BY <2>1, <2>2, EndStep, IdleShape DEF Done, At
      <3>2. Same(q)
        BY <2>1, <3>1, EndStep DEF Alone
      <3>3. <<"docket">> \in held[q]
        BY <2>2, <3>2 DEF Same, Holding, Is, At
      <3>4. QED
        BY <2>1, <3>1, <3>3 DEF Exclusive
    <2>3. PICK row \in FeedbackRow :
            /\ row = IF FeedbackCommit(p) THEN NewFeedback(request[p].row, None, "UPDATE")
                                          ELSE NewFeedback(0, request[p].ref, request[p].what)
            /\ Len(feedback') = Len(feedback) + 1
            /\ \A i \in 1..Len(feedback) : feedback'[i] = feedback[i]
            /\ feedback'[Len(feedback) + 1] = row
      BY <1>2, FeedbackWritten
    <2>4. ASSUME NEW i \in 1..Len(feedback)
          PROVE  /\ feedback[i].corrects = row.corrects => row.corrects = 0
                 /\ feedback[i].id = row.id => row.id = None
      <3>1. CASE FeedbackCommit(p)
        <4>1. row.corrects = request[p].row /\ row.id = None
          BY <2>3, <3>1 DEF NewFeedback
        <4>2. request[p].row = 0 \/ ~Superseded(request[p].row)
          BY <3>1 DEF FeedbackCommit, FeedbackInv
        <4>3. QED
          BY <4>1, <4>2 DEF Superseded
      <3>2. CASE ~FeedbackCommit(p)
        <4>1. row.corrects = 0 /\ row.id = request[p].ref
          BY <2>3, <3>2 DEF NewFeedback
        <4>2. feedback[i].id # request[p].ref
          BY <1>2, <3>2 DEF InviteCommit, FeedbackInv
        <4>3. QED
          BY <4>1, <4>2
      <3>3. QED
        BY <3>1, <3>2
    <2>5. ASSUME NEW i \in 1..Len(feedback'), NEW j \in 1..Len(feedback'), i # j
          PROVE  /\ feedback'[i].corrects = feedback'[j].corrects => feedback'[i].corrects = 0
                 /\ feedback'[i].id = feedback'[j].id => feedback'[i].id = None
      <3>1. CASE i \in 1..Len(feedback) /\ j \in 1..Len(feedback)
        BY <2>3, <2>5, <3>1 DEF FeedbackInv
      <3>2. CASE i = Len(feedback) + 1 /\ j \in 1..Len(feedback)
        BY <2>3, <2>4, <3>2
      <3>3. CASE i \in 1..Len(feedback) /\ j = Len(feedback) + 1
        BY <2>3, <2>4, <3>3
      <3>4. QED
        BY <1>0, <2>3, <2>5, <3>1, <3>2, <3>3
    <2>6. QED
      BY <2>2, <2>5 DEF FeedbackInv
  <1>3. QED
    BY <1>1, <1>2, RecordWriters

\* What a document confirms stays true when the case goes on.
LEMMA PhaseForward ==
    ASSUME CaseProceeds, NEW kind, phase \in IssuedIn(kind)
    PROVE  phase' \in IssuedIn(kind)
  <1>1. PICK new \in Phases :
            /\ <<phase, new>> \in {<<"SUBMITTED", "REFUSED">>, <<"SUBMITTED", "DOCKET">>,
                                   <<"DOCKET", "CLOSED">>}
            /\ phase' = new
    BY DEF CaseProceeds
  <1>2. CASE kind = "COMPLAINT_REGISTRATION_CONFIRMATION"
    BY <1>1, <1>2 DEF IssuedIn
  <1>3. CASE kind = "REFUSAL_CONFIRMATION"
    BY <1>1, <1>3 DEF IssuedIn
  <1>4. CASE kind = "DOCKET_REGISTRATION_CONFIRMATION"
    BY <1>1, <1>4 DEF IssuedIn
  <1>5. CASE kind \notin {"COMPLAINT_REGISTRATION_CONFIRMATION", "REFUSAL_CONFIRMATION",
                          "DOCKET_REGISTRATION_CONFIRMATION"}
    BY <1>1, <1>5 DEF IssuedIn
  <1>6. QED
    BY <1>2, <1>3, <1>4, <1>5

\* A document on its way.
Issuing(q) == Is(q, "document", {"counter", "save", "commit"})

Numbered(q) == Is(q, "document", {"save", "commit"})

\* What is known of it is what the two locks have shown.
LEMMA IssuingStep ==
    ASSUME CallsOK, RowsOK, DocumentsInv, [RecordsNext]_allVars, NEW q \in Request, Issuing(q)'
    PROVE  /\ phase \in IssuedIn(request'[q].what)
           /\ \A d \in documents : d.kind # request'[q].what
           /\ Numbered(q)' => request'[q].number = counter["DOCUMENT"] + 1
  <1>0. request'[q].op = "document" /\ request'[q].at \in {"counter", "save", "commit"}
    BY DEF Issuing, Is
  <1>1. CASE Same(q)
    BY <1>1 DEF Same, DocumentsInv, Issuing, Numbered, Is
  <1>2. CASE RecordGoes(q)
    <2>1. \/ /\ Goes(q, "document", "complaint", "counter", {<<"complaint">>})
             /\ phase \in IssuedIn(request[q].what)
             /\ request[q].what \notin {d.kind : d \in documents}
          \/ /\ Goes(q, "document", "counter", "save", {<<"counter", "DOCUMENT">>})
             /\ Numbers(q, "DOCUMENT")
      BY <1>0, <1>2 DEF RecordGoes, Goes, Advance, At
    <2>2. QED
      BY <2>1 DEF Goes, Advance, At, Numbers, DocumentsInv, Issuing, Numbered, Is
  <1>3. CASE SaveGoes(q)
    BY <1>0, <1>3 DEF SaveGoes, Advance, At, DocumentsInv, Issuing, Numbered, Is
  <1>4. CASE Done(q) \/ Begun(q) \/ IntakeGoes(q)
    BY <1>0, <1>4, IdleShape DEF Done, Begun, Starts, IntakeGoes, Goes, Advance, At
  <1>5. QED
    BY <1>1, <1>2, <1>3, <1>4, NextMoves DEF Moves

LEMMA DocumentsKept ==
    ASSUME CallsOK, RowsOK, Asked, Exclusive, Holding, Saved, DocumentsInv, [RecordsNext]_allVars
    PROVE  DocumentsInv'
  <1>0. counter["DOCUMENT"] = Cardinality(documents) /\ Cardinality(documents) \in Nat
    BY FS_CardinalityType DEF DocumentsInv
  <1>1. CASE documents' = documents
    <2>1. counter'["DOCUMENT"] = counter["DOCUMENT"]
      <3>1. ASSUME NEW p \in Request, RegisterCommit(p)
            PROVE  counter'["DOCUMENT"] = counter["DOCUMENT"]
        BY <3>1 DEF RegisterCommit, CommitNumber, CallsOK, NumberTypes
      <3>2. ASSUME NEW p \in Request, DocumentCommit(p)
            PROVE  FALSE
        <4>1. \E d \in DocumentRow : d.kind = request[p].what /\ documents' = documents \cup {d}
          BY <3>2, DocumentWritten
        <4>2. \A d \in documents : d.kind # request[p].what
          BY <3>2 DEF DocumentCommit, DocumentsInv, Is, At
        <4>3. QED
          BY <1>1, <4>1, <4>2
      <3>3. QED
        BY <3>1, <3>2, StoreWriters
    <2>2. \A kind : phase \in IssuedIn(kind) => phase' \in IssuedIn(kind)
      BY PhaseForward, RecordWriters
    <2>3. ASSUME NEW q \in Request, Issuing(q)'
          PROVE  /\ phase' \in IssuedIn(request'[q].what)
                 /\ \A d \in documents : d.kind # request'[q].what
                 /\ Numbered(q)' => request'[q].number = counter["DOCUMENT"] + 1
      BY <2>2, <2>3, IssuingStep
    <2>4. \A d \in documents : phase' \in IssuedIn(d.kind)
      BY <2>2 DEF DocumentsInv
    <2>5. /\ IsFiniteSet(documents)
          /\ \A c, d \in documents : c.kind = d.kind => c = d
          /\ {d.number : d \in documents} = 1..Cardinality(documents)
      BY DEF DocumentsInv
    <2>6. (\A q \in Request :
             /\ Issuing(q) => /\ phase \in IssuedIn(request[q].what)
                              /\ \A d \in documents : d.kind # request[q].what
             /\ Numbered(q) => request[q].number = counter["DOCUMENT"] + 1)'
      <3>1. \A q \in Request : Numbered(q)' => Issuing(q)'
        BY DEF Numbered, Issuing, Is
      <3>2. QED
        BY <1>1, <2>1, <2>3, <3>1
    <2>7. QED
      BY <1>0, <1>1, <2>1, <2>4, <2>5, <2>6 DEF DocumentsInv, Issuing, Numbered
  <1>2. ASSUME NEW p \in Request, DocumentCommit(p)
        PROVE  DocumentsInv'
    <2>1. /\ Issuing(p) /\ Numbered(p) /\ <<"complaint">> \in held[p]
          /\ Ends(p) /\ request[p].op # "idle"
      BY <1>2 DEF DocumentCommit, Ends, Holding, Is, At, Issuing, Numbered
    <2>2. ASSUME NEW q \in Request, Issuing(q)'
          PROVE  FALSE
      <3>1. p # q
        BY <2>1, <2>2, EndStep, IdleShape DEF Done, Issuing, Is
      <3>2. Same(q)
        BY <2>1, <3>1, EndStep DEF Alone
      <3>3. <<"complaint">> \in held[q]
        BY <2>2, <3>2 DEF Same, Holding, Is, Issuing
      <3>4. QED
        BY <2>1, <3>1, <3>3 DEF Exclusive
    <2>3. /\ phase \in IssuedIn(request[p].what) /\ \A d \in documents : d.kind # request[p].what
          /\ request[p].number = Cardinality(documents) + 1
      BY <1>0, <2>1 DEF DocumentsInv, Issuing, Numbered
    <2>4. PICK d \in DocumentRow :
            /\ d.kind = request[p].what /\ d.number = request[p].number
            /\ documents' = documents \cup {d}
            /\ counter' = [counter EXCEPT !["DOCUMENT"] = request[p].number]
      BY <1>2, DocumentWritten
    <2>5. d \notin documents
      BY <2>3, <2>4
    <2>6. IsFiniteSet(documents') /\ Cardinality(documents') = Cardinality(documents) + 1
      BY <2>4, <2>5, FS_AddElement DEF DocumentsInv
    <2>7. phase' = phase
      BY <2>1, WorldStill, RecordWriters
    <2>8. counter'["DOCUMENT"] = Cardinality(documents')
      BY <2>3, <2>4, <2>6 DEF CallsOK, NumberTypes
    <2>9. {c.number : c \in documents'} = 1..Cardinality(documents')
      <3>1. {c.number : c \in documents'} = {c.number : c \in documents} \cup {d.number}
        BY <2>4
      <3>2. {c.number : c \in documents} = 1..Cardinality(documents)
        BY DEF DocumentsInv
      <3>3. QED
        BY <1>0, <2>3, <2>4, <2>6, <3>1, <3>2
    <2>10. \A b, c \in documents' : b.kind = c.kind => b = c
      BY <2>3, <2>4 DEF DocumentsInv
    <2>11. \A c \in documents' : phase' \in IssuedIn(c.kind)
      BY <2>3, <2>4, <2>7 DEF DocumentsInv
    <2>12. \A q \in Request : ~Issuing(q)' /\ ~Numbered(q)'
      BY <2>2 DEF Issuing, Numbered, Is
    <2>13. QED
      BY <2>6, <2>8, <2>9, <2>10, <2>11, <2>12 DEF DocumentsInv, Issuing, Numbered
  <1>3. QED
    BY <1>1, <1>2, RecordWriters

-----------------------------------------------------------------------------
(***************************************************************************)
(* Alerts.                                                                 *)
(***************************************************************************)
Reporting(q) == At(q, "evaluate", "commit")

Handling(q) == At(q, "transition", "commit")

LEMMA AlertsStep ==
    ASSUME CallsOK, RowsOK, Asked, AlertsInv, [RecordsNext]_allVars, NEW q \in Request
    PROVE  /\ Reporting(q)' =>
                /\ request'[q].seen \subseteq Episode
                /\ \A i \in 1..Len(alerts) : alerts[i].episode \notin request'[q].seen
           /\ Handling(q)' =>
                /\ alerts[request'[q].row].assigned \in {None, request'[q].by}
                /\ alerts[request'[q].row].status = request'[q].ref
  <1>1. CASE Same(q)
    BY <1>1 DEF Same, AlertsInv, Reporting, Handling, At
  <1>2. CASE RecordGoes(q)
    <2>1. ASSUME Reporting(q)'
          PROVE  request'[q].seen = due \ {alerts[i].episode : i \in 1..Len(alerts)}
      BY <1>2, <2>1 DEF RecordGoes, Goes, Advance, At, Reporting, Learns
    <2>2. ASSUME Handling(q)'
          PROVE  /\ alerts[request'[q].row].assigned \in {None, request'[q].by}
                 /\ alerts[request'[q].row].status = request'[q].ref
      BY <1>2, <2>2 DEF RecordGoes, Goes, Advance, At, Handling
    <2>3. QED
      BY <2>1, <2>2 DEF RowsOK
  <1>3. CASE Done(q) \/ Begun(q) \/ IntakeGoes(q) \/ SaveGoes(q)
    <2>1. ~(request'[q].op \in {"evaluate", "transition"} /\ request'[q].at = "commit")
      BY <1>3, IdleShape DEF Done, Begun, Starts, IntakeGoes, SaveGoes, Goes, Advance, At
    <2>2. QED
      BY <2>1 DEF Reporting, Handling, At
  <1>4. QED
    BY <1>1, <1>2, <1>3, NextMoves DEF Moves

LEMMA AlertsKept ==
    ASSUME CallsOK, RowsOK, Asked, Exclusive, Holding, AlertsInv, [RecordsNext]_allVars
    PROVE  AlertsInv'
  <1>0. Len(alerts) \in Nat
    BY DEF RowsOK
  <1>1. CASE alerts' = alerts
    BY <1>1, AlertsStep DEF AlertsInv, Reporting, Handling
  <1>2. ASSUME NEW p \in Request, EvaluateCommit(p)
        PROVE  AlertsInv'
    <2>1. /\ Reporting(p) /\ <<"station">> \in held[p] /\ Ends(p) /\ request[p].op # "idle"
          /\ request[p].seen \subseteq Episode
          /\ \A i \in 1..Len(alerts) : alerts[i].episode \notin request[p].seen
      BY <1>2 DEF EvaluateCommit, Ends, Holding, Is, At, Reporting, AlertsInv
    <2>2. /\ Len(alerts') \in Nat /\ Len(alerts') >= Len(alerts)
          /\ \A i \in 1..Len(alerts) : alerts'[i] = alerts[i]
          /\ \A i \in 1..Len(alerts') : i > Len(alerts) => alerts'[i].episode \in request[p].seen
          /\ \A i, j \in 1..Len(alerts') :
               i > Len(alerts) /\ j > Len(alerts) /\ alerts'[i].episode = alerts'[j].episode => i = j
      BY <1>2, <2>1, AlertsRaised
    <2>3. \A i, j \in 1..Len(alerts') : alerts'[i].episode = alerts'[j].episode => i = j
      BY <1>0, <2>1, <2>2 DEF AlertsInv
    <2>4. ASSUME NEW q \in Request, Reporting(q)'
          PROVE  FALSE
      <3>1. p # q
        BY <2>1, <2>4, EndStep, IdleShape DEF Done, Reporting, At
      <3>2. Same(q)
        BY <2>1, <3>1, EndStep DEF Alone
      <3>3. <<"station">> \in held[q]
        BY <2>4, <3>2 DEF Same, Holding, Is, At, Reporting
      <3>4. QED
        BY <2>1, <3>1, <3>3 DEF Exclusive
    <2>5. ASSUME NEW q \in Request, Handling(q)'
          PROVE  /\ alerts'[request'[q].row].assigned \in {None, request'[q].by}
                 /\ alerts'[request'[q].row].status = request'[q].ref
      <3>1. p # q
        BY <2>1, <2>5, EndStep, IdleShape DEF Done, Handling, At
      <3>2. Same(q)
        BY <2>1, <3>1, EndStep DEF Alone
      <3>3. request'[q].row \in 1..Len(alerts)
        BY <2>5, <3>2 DEF Same, Asked, Handling, At
      <3>4. QED
        BY <2>2, <2>5, <3>3, AlertsStep
    <2>6. QED
      BY <2>3, <2>4, <2>5 DEF AlertsInv, Reporting, Handling
  <1>3. ASSUME NEW p \in Request, TransitionCommit(p)
        PROVE  AlertsInv'
    <2>1. /\ Handling(p) /\ <<"alert", request[p].row>> \in held[p] /\ Ends(p) /\ request[p].op # "idle"
      BY <1>3 DEF TransitionCommit, Ends, Holding, Is, At, Handling
    <2>2. /\ Len(alerts') = Len(alerts)
          /\ \A i \in 1..Len(alerts) :
               /\ alerts'[i].episode = alerts[i].episode
               /\ i # request[p].row => alerts'[i] = alerts[i]
      BY <1>3, AlertMoved
    <2>3. \A i, j \in 1..Len(alerts') : alerts'[i].episode = alerts'[j].episode => i = j
      BY <2>2 DEF AlertsInv
    <2>4. ASSUME NEW q \in Request, Reporting(q)'
          PROVE  /\ request'[q].seen \subseteq Episode
                 /\ \A i \in 1..Len(alerts') : alerts'[i].episode \notin request'[q].seen
      BY <2>2, <2>4, AlertsStep
    <2>5. ASSUME NEW q \in Request, Handling(q)'
          PROVE  /\ alerts'[request'[q].row].assigned \in {None, request'[q].by}
                 /\ alerts'[request'[q].row].status = request'[q].ref
      <3>1. p # q
        BY <2>1, <2>5, EndStep, IdleShape DEF Done, Handling, At
      <3>2. Same(q)
        BY <2>1, <3>1, EndStep DEF Alone
      <3>3. /\ request'[q].row \in 1..Len(alerts) /\ <<"alert", request[q].row>> \in held[q]
            /\ request'[q].row = request[q].row
        BY <2>5, <3>2 DEF Same, Asked, Handling, At, Holding, Is
      <3>4. request[q].row # request[p].row
        BY <2>1, <3>1, <3>3 DEF Exclusive
      <3>5. QED
        BY <2>2, <2>5, <3>3, <3>4, AlertsStep
    <2>6. QED
      BY <2>3, <2>4, <2>5 DEF AlertsInv, Reporting, Handling
  <1>4. QED
    BY <1>1, <1>2, <1>3, RecordWriters

-----------------------------------------------------------------------------
(***************************************************************************)
(* The theorems.                                                           *)
(***************************************************************************)
LEMMA RecordInitially == RecordsInit => RecordInv
  <1>1. SUFFICES ASSUME RecordsInit
                 PROVE  RecordInv
    OBVIOUS
  <1>2. /\ request = [p \in Request |-> Idle] /\ held = [p \in Request |-> {}]
        /\ counter = [t \in NumberTypes |-> 0] /\ stored = {}
        /\ phase = "SUBMITTED" /\ statements = <<NewStatement(1)>> /\ feedback = <<>>
        /\ documents = {} /\ due = {} /\ alerts = <<>>
        /\ consents = <<>> /\ uploads = <<>> /\ complaints = <<>> /\ guesses = <<>>
    <2>1. TransactionInit /\ RecordInit /\ IntakeInit
      BY <1>1, Zenon DEF RecordsInit
    <2>2. /\ request = [p \in Request |-> Idle] /\ held = [p \in Request |-> {}]
          /\ counter = [t \in NumberTypes |-> 0] /\ stored = {}
      BY <2>1, Zenon DEF TransactionInit
    <2>3. /\ phase = "SUBMITTED" /\ statements = <<NewStatement(1)>> /\ feedback = <<>>
          /\ documents = {} /\ due = {} /\ alerts = <<>>
      BY <2>1, Zenon DEF RecordInit
    <2>4. /\ consents = <<>> /\ uploads = <<>> /\ complaints = <<>> /\ guesses = <<>>
      BY <2>1, Zenon DEF IntakeInit
    <2>5. QED
      BY <2>2, <2>3, <2>4, Zenon
  <1>3. /\ \A p \in Request : request[p] = Idle /\ held[p] = {}
        /\ \A p \in Request : /\ request[p].op = "idle" /\ request[p].at = "idle"
                              /\ request[p].key = None
    BY <1>2, IdleShape
  <1>4. CallsOK
    <2>1. request \in [Request -> Calls] /\ DOMAIN held = Request /\ stored \subseteq Key
      BY <1>2, IdleShape
    <2>2. <<"idle", "idle">> \in Steps
      BY DEF Steps
    <2>3. counter \in [NumberTypes -> Nat]
      BY <1>2
    <2>4. QED
      BY <1>3, <2>1, <2>2, <2>3 DEF CallsOK
  <1>5. NewStatement(1) \in StatementRow /\ NewStatement(1).version = 1 /\ NewStatement(1).current
    BY DEF NewStatement, StatementRow
  <1>6. RowsOK
    <2>1. statements \in Seq(StatementRow)
      BY <1>2, <1>5
    <2>2. "SUBMITTED" \in Phases
      BY DEF Phases
    <2>3. /\ feedback \in Seq(FeedbackRow) /\ alerts \in Seq(AlertRow) /\ consents \in Seq(ConsentRow)
          /\ uploads \in Seq(UploadRow) /\ complaints \in Seq(ComplaintRow) /\ guesses \in Seq(Nat)
          /\ Len(guesses) = Len(consents)
      BY <1>2, EmptySeq
    <2>4. QED
      BY <1>2, <2>1, <2>2, <2>3 DEF RowsOK
  <1>7. Asked
    BY <1>3 DEF Asked
  <1>8. Exclusive /\ Holding
    BY <1>3 DEF Exclusive, Holding, Is
  <1>9. Saved
    BY <1>3 DEF Saved, At
  <1>10. Kept
    BY <1>2 DEF Kept, UsedKeys, Uploads
  <1>11. StatementsInv
    BY <1>2, <1>3, <1>5 DEF StatementsInv, At
  <1>12. FeedbackInv
    BY <1>2, <1>3 DEF FeedbackInv, At
  <1>13. DocumentsInv
    <2>1. IsFiniteSet(documents) /\ Cardinality(documents) = 0
      BY <1>2, FS_EmptySet
    <2>2. counter["DOCUMENT"] = 0
      BY <1>2 DEF NumberTypes
    <2>3. {d.number : d \in documents} = 1..0
      BY <1>2
    <2>4. QED
      BY <1>2, <1>3, <2>1, <2>2, <2>3 DEF DocumentsInv, Is
  <1>14. AlertsInv
    BY <1>2, <1>3 DEF AlertsInv, At
  <1>15. QED
    BY <1>4, <1>6, <1>7, <1>8, <1>9, <1>10, <1>11, <1>12, <1>13, <1>14 DEF RecordInv

LEMMA RecordInvKept == RecordInv /\ [RecordsNext]_allVars => RecordInv'
  <1>1. SUFFICES ASSUME RecordInv, [RecordsNext]_allVars
                 PROVE  RecordInv'
    OBVIOUS
  <1> USE DEF RecordInv
  <1>2. CallsOK'
    BY <1>1, CallsKept
  <1>3. RowsOK' /\ Asked'
    BY <1>1, RowsKept, AskedKept
  <1>4. Exclusive' /\ Holding'
    BY <1>1, ExclusiveKept, HoldingKept
  <1>5. Saved' /\ Kept'
    BY <1>1, StoreKept
  <1>6. StatementsInv' /\ FeedbackInv' /\ DocumentsInv' /\ AlertsInv'
    BY <1>1, StatementsKept, FeedbackKept, DocumentsKept, AlertsKept
  <1>7. QED
    BY <1>2, <1>3, <1>4, <1>5, <1>6

\* The tables keep their types, every call has the locks its step needs, and no
\* lock has two owners.
THEOREM RecordsInvariant == RecordsSpec => []RecordInv
  <1>1. QED
    BY RecordInitially, RecordInvKept, PTL DEF RecordsSpec

\* Corrections never fork (append_statement, publish, invite): with any number
\* of clients a version is written once, a record corrected once and an
\* invitation recorded once.
THEOREM RecordsCorrections == RecordsSpec => []CorrectionsInLine
  <1>1. RecordInv => CorrectionsInLine
    BY DEF RecordInv, StatementsInv, FeedbackInv, CorrectionsInLine
  <1>2. QED
    BY <1>1, RecordsInvariant, PTL

\* DocumentService.generate issues one document of a kind, numbers it without
\* gap, keeps its file and confirms only what has happened.
THEOREM RecordsDocuments == RecordsSpec => []DocumentsOnce
  <1>1. RecordInv => DocumentsOnce
    <2>1. SUFFICES ASSUME RecordInv
                   PROVE  DocumentsOnce
      OBVIOUS
    <2>2. {d.key : d \in documents} \subseteq stored
      BY <2>1 DEF RecordInv, Kept, UsedKeys
    <2>3. QED
      BY <2>1, <2>2 DEF RecordInv, DocumentsInv, DocumentsOnce
  <1>2. QED
    BY <1>1, RecordsInvariant, PTL

\* AlertService: an episode is reported once, and an alert stays with its first
\* manager and goes forward.
THEOREM RecordsAlerts == RecordsSpec => AlertsForward
  <1>1. RecordInv /\ [RecordsNext]_allVars =>
          [/\ Len(alerts') >= Len(alerts)
           /\ \A i, j \in 1..Len(alerts') : alerts'[i].episode = alerts'[j].episode => i = j
           /\ \A i \in 1..Len(alerts) : alerts'[i] # alerts[i] =>
                /\ <<alerts[i].status, alerts'[i].status>> \in AlertMoves
                /\ alerts[i].assigned \in {None, alerts'[i].assigned}
          ]_alerts
    <2>1. SUFFICES ASSUME RecordInv, [RecordsNext]_allVars, alerts' # alerts
                   PROVE  /\ Len(alerts') >= Len(alerts)
                          /\ \A i, j \in 1..Len(alerts') :
                               alerts'[i].episode = alerts'[j].episode => i = j
                          /\ \A i \in 1..Len(alerts) : alerts'[i] # alerts[i] =>
                               /\ <<alerts[i].status, alerts'[i].status>> \in AlertMoves
                               /\ alerts[i].assigned \in {None, alerts'[i].assigned}
      OBVIOUS
    <2> USE <2>1 DEF RecordInv
    <2>2. Len(alerts') >= Len(alerts) /\ AlertsInv'
      BY RowsKept, AlertsKept
    <2>3. ASSUME NEW p \in Request, EvaluateCommit(p)
          PROVE  \A i \in 1..Len(alerts) : alerts'[i] = alerts[i]
      <3>1. request[p].seen \subseteq Episode
        BY <2>3 DEF EvaluateCommit, AlertsInv
      <3>2. QED
        BY <2>3, <3>1, AlertsRaised
    <2>4. ASSUME NEW p \in Request, TransitionCommit(p), NEW i \in 1..Len(alerts), alerts'[i] # alerts[i]
          PROVE  /\ <<alerts[i].status, alerts'[i].status>> \in AlertMoves
                 /\ alerts[i].assigned \in {None, alerts'[i].assigned}
      <3>1. i = request[p].row /\ alerts'[i].status = request[p].what /\ alerts'[i].assigned = request[p].by
        BY <2>4, AlertMoved
      <3>2. /\ <<request[p].ref, request[p].what>> \in AlertMoves
            /\ alerts[request[p].row].assigned \in {None, request[p].by}
            /\ alerts[request[p].row].status = request[p].ref
        BY <2>4 DEF TransitionCommit, At, Asked, AlertsInv
      <3>3. QED
        BY <3>1, <3>2
    <2>5. QED
      BY <2>2, <2>3, <2>4, RecordWriters DEF AlertsInv
  <1>2. QED
    BY <1>1, RecordsInvariant, PTL DEF RecordsSpec, AlertsForward
=============================================================================
