------------------------- MODULE RecordTransactions -------------------------
(***************************************************************************)
(* What the handlers of CaseRecords and IntakeMaterial share: requests     *)
(* that are one PostgreSQL transaction each, row and advisory locks held   *)
(* to its end, identifiers from a counter row, and a private store of      *)
(* files that knows no rollback.                                           *)
(***************************************************************************)
EXTENDS Naturals, FiniteSets, SequencesExt

CONSTANTS
    None,
    Request,     \* transactions open at once
    Mixes,       \* the sets of operations that are called in one behaviour
    Key,         \* object keys of the stores
    MaxCommits   \* bound on the commits after which no request begins

VARIABLES
    request,     \* what each open transaction is doing
    held,        \* the locks each transaction holds
    counter,     \* identifier_counters.last_value by type
    stored,      \* the objects in the stores
    strays,      \* history: objects a failure was allowed to leave behind
    commits,     \* bounds the run
    mix          \* the operations that are called, one of Mixes

transactionVars == <<request, held, counter, stored, strays, commits, mix>>

-----------------------------------------------------------------------------
NumberTypes == {"COMPLAINT", "DOCUMENT"}

\* A call: the row it is about, what it asks for, a reference of the client's
\* and files; seen is what a lock has shown.
New(op, at, by, row, what) ==
    [op |-> op, at |-> at, by |-> by, row |-> row, what |-> what, ref |-> None,
     files |-> {}, seen |-> {}, key |-> None, number |-> 0]

Idle == New("idle", "idle", None, 0, None)

TransactionInit ==
    /\ request = [p \in Request |-> Idle]
    /\ held = [p \in Request |-> {}]
    /\ counter = [t \in NumberTypes |-> 0]
    /\ stored = {}
    /\ strays = {}
    /\ commits = 0
    /\ mix \in Mixes

At(p, op, step) == request[p].op = op /\ request[p].at = step

Begin(p, r) ==
    /\ request[p].op = "idle" /\ commits < MaxCommits
    /\ r.op \in mix
    /\ request' = [request EXCEPT ![p] = r]
    /\ UNCHANGED <<held, counter, stored, strays, commits, mix>>

\* p takes the locks L, with what it learns under them.
TakeAndSee(p, L, next, seen) ==
    /\ \A q \in Request \ {p} : L \cap held[q] = {}
    /\ held' = [held EXCEPT ![p] = @ \cup L]
    /\ request' = [request EXCEPT ![p].at = next, ![p].seen = seen]
    /\ UNCHANGED <<counter, stored, strays, commits, mix>>

Take(p, L, next) == TakeAndSee(p, L, next, request[p].seen)

Finish(p) ==
    /\ request' = [request EXCEPT ![p] = Idle]
    /\ held' = [held EXCEPT ![p] = {}]

\* An answer without any change, or an error answer: nothing is kept.
Answer(p) ==
    /\ Finish(p)
    /\ UNCHANGED <<counter, stored, strays, commits, mix>>

\* Take the locks L if ok holds of what they protect, else answer.
Check(p, L, ok, next) ==
    /\ \A q \in Request \ {p} : L \cap held[q] = {}
    /\ IF ok THEN Take(p, L, next) ELSE Answer(p)

Commit(p) ==
    /\ Finish(p)
    /\ commits' = commits + 1
    /\ UNCHANGED <<counter, stored, strays, mix>>

CommitNumber(p, type) ==
    /\ Finish(p)
    /\ commits' = commits + 1
    /\ counter' = [counter EXCEPT ![type] = request[p].number]
    /\ UNCHANGED <<stored, strays, mix>>

-----------------------------------------------------------------------------
\* _allocate_identifier: the upsert locks the counter row until the caller's
\* transaction ends; a rollback takes the number back.
Allocate(p, type, next) ==
    /\ \A q \in Request \ {p} : <<"counter", type>> \notin held[q]
    /\ held' = [held EXCEPT ![p] = @ \cup {<<"counter", type>>}]
    /\ request' = [request EXCEPT ![p].at = next, ![p].number = counter[type] + 1]
    /\ UNCHANGED <<counter, stored, strays, commits, mix>>

\* The bytes are in the store, under a new key, before the row exists.
Save(p, used) ==
    /\ request[p].at = "save"
    /\ \E key \in Key \ (stored \cup used) :
         /\ stored' = stored \cup {key}
         /\ request' = [request EXCEPT ![p].at = "commit", ![p].key = key]
    /\ UNCHANGED <<held, counter, strays, commits, mix>>

-----------------------------------------------------------------------------
\* An error before COMMIT: rollback; a saved object is discarded, or left if
\* the store refuses.
Fail(p) ==
    /\ request[p].op # "idle"
    /\ \/ stored' = stored \ {request[p].key} /\ UNCHANGED strays
       \/ /\ request[p].key \in stored
          /\ strays' = strays \cup {request[p].key} /\ UNCHANGED stored
    /\ Finish(p)
    /\ UNCHANGED <<counter, commits, mix>>

\* The process stops, or the connection breaks during a COMMIT that did not
\* take place: an object stays behind.
Crash(p) ==
    /\ request[p].op # "idle" /\ request[p].key \in stored
    /\ strays' = strays \cup {request[p].key}
    /\ Finish(p)
    /\ UNCHANGED <<counter, stored, commits, mix>>
=============================================================================
