# A TLA+ model of the case-docket service

This directory specifies the server of the repository (FastAPI, SQLAlchemy,
PostgreSQL): what the case database promises about a complaint and its docket,
how the concurrent requests of officers keep that promise, how people sign in,
how evidence, statements, documents, alerts and uploads are kept, and how case
emails leave the system. TLC checks the modules on small instances, TLAPS proves
the main properties for every instance.

Paths below are relative to `src/`.

## 1. Inventory

| Component | State | Operations that change it | What is hard | What makes it correct |
|---|---|---|---|---|
| Complaints (`app/modules/complaints/service.py`, `intake.py`) | `complaints`, statements, witnesses | register (online, in station), start review, add material | the intake closes while material is being written; officer moved during a review | material only while the charge office is in charge; reviewer on duty |
| Decisions and escalation (`refusals/`) | `complaint_decisions`, `refusal_escalations` | decide, review of a refusal, acknowledge, resolve | two decisions at once; two review paths with opposite lock orders | decided once; reviews only move forward |
| Dockets (`dockets/`) | `dockets`, `docket_approvals`, `docket_status_history` | created by acceptance or for a legacy complaint, approval decisions | approval against intake and assignment | one docket per accepted complaint; the last approval opens it |
| Investigations (`investigations/`) | `case_assignments`, notes, status history | assign, unassign, note, status | reassignment against writes of the old investigator; one investigator, two dockets | one unfinished docket per investigator; only the holder writes; history is a chain |
| Staff administration (`administration/`) | `users`, `user_roles`, `officers` | create, change | a move against an assignment; sessions of a changed account | an investigator with open work is not moved; a change ends every session |
| Case email (`communications/case_email.py`, `authentication/mail.py`) | `notifications`, `case_email_intents`, `notification_attempts` | enqueue, process one, retry | crash between sending and recording, lost SMTP answer, two workers, changed address | nothing mailed twice; records are true; no row starves |
| In-app notifications, audit log | `notifications`, `audit_logs` | one insert inside the caller's transaction | the foreign-key lock they take | committed with the change they report |
| Evidence (`evidence/`) | items, custody events, files, a private store | register, custody change, upload, verified download | two changes from one chain head, reassignment during a write, file store against commit | linear custody chain; file and row agree; only the investigator in charge writes |
| Uploads, intake consent (`complaints/uploads.py`, `intake_email.py`) | uploads, consents, the store | upload, attach; request and consume a code | quota, refusal during upload; guess limit kept although the request fails | quota; one use, bounded guesses, one usable code of an address |
| Feedback, contact, documents, alerts (`feedback/`, `investigations/contact.py`, `communications/documents.py`, `alerts/`) | one table each | publish, invite, generate, evaluate and transition | two corrections, issues or evaluations at once; a repeated request | one chain, one invitation of a request, one document of a kind, one alert of an episode |
| Identifiers (`system/service.py`) | `identifier_counters` | allocate | a shared counter in foreign transactions | unique, gapless |
| Authentication (`authentication/`) | users, sessions, email challenges, password resets, audited failures | register, login, verify and resend a code, authenticator code, refresh, logout, recovery | refresh races, reuse of rotated tokens, lock-out, one-time codes, a reset during a refresh | ended families stay ended; one open code; bounded guesses; nothing older than the password is accepted |
| Full docket view, dashboards, tracking, seeds, front end | none | read only, or operator scripts | none that a model reaches | |

The components share one database. A request runs in one session and one
PostgreSQL transaction at READ COMMITTED (`app/db/session.py`): it authorizes
the user with unlocked reads, locks rows, checks, writes, and commits once. A
change that a complainant hears of inserts an in-app notification and enqueues
an email row in the same transaction (`notifications.py`, `enqueue`). Separate
worker processes poll the email rows. Nothing else runs in the background.

`PROJECT.json` lists every component with its status and every hazard with the
line where it bites.

## 2. Modules

| Module | Content |
|---|---|
| `CaseFile` | the abstract specification: every committed transaction is one atomic step on the case tables |
| `CaseFileProofs` | its invariants and action properties, and that no commit breaks a rule of `CaseSchema`, proved |
| `CaseTransactions` | requests, row locks, the reads that authorize an officer, commit, rollback, deadlock detection |
| `DeskTransactions` | start_review, decide, open, approve, statements and witnesses |
| `RefusalTransactions` | the commander's review of a refusal, the escalation queues |
| `InvestigationTransactions` | assign, unassign, add_note, update_status, the administrator's change |
| `CaseRequests` | composes the three on one database and states that they implement `CaseFile` |
| `RequestProofs` | that they do, for any number of requests, and which requests can wait for each other in a circle, proved |
| `CaseSchema` | the triggers, keys and append-only tables of the migrations, as rules on every step of `CaseFile` |
| `CaseEmail` | the email outbox with its workers |
| `CaseEmailProofs` | its invariants, proved |
| `SessionFamilies` | the abstract specification of session rotation |
| `AuthAccounts` | the rows of one account, codes and sessions, and the effects of issuing, sending, revoking and denying |
| `AuthSessions` | the handlers of sign-in, rotation, recovery and staff changes as transactions on them, with the clock; implements `SessionFamilies` |
| `AuthProofs` | the safety of `AuthSessions` and the refinement, proved |
| `SessionProofs` | bounded guesses, signed-out families and what the refinement carries over, proved |
| `EvidenceCustody` | one evidence item: custody chain, files, private store |
| `EvidenceProofs` | its invariants and its action property, proved |
| `RecordTransactions` | transactions, row and advisory locks, identifier counters and the file store of the next two |
| `CaseRecords` | statement versions, feedback, invitations, official documents, alerts |
| `IntakeMaterial` | consent codes, uploads, registration with number, consent and files |
| `RecordRequests` | composes both on one database |
| `RecordProofs` | types and locks of `RecordRequests`; corrections, documents and alerts, proved |
| `IntakeProofs` | consents, reference numbers, uploads and where they may go, proved |
| `MCCaseFile`, `MCCaseRequests`, `MCCaseEmail`, `MCAuthSessions`, `MCEvidenceCustody`, `MCRecordRequests` | instances for TLC |

### CaseFile

Variables are the tables: `complaintStatus` and `home` (complaints),
`decisions`, `escalation`, `docketStatus`, `approvals`, `history`, `assignee`
(the assignment row without `unassigned_at`), `entries` (notes and statements),
`posting` (station, role and activation of an officer). A docket is identified
with its complaint, since `dockets.complaint_id` is unique. Decision and
approval numbers are positions in a sequence. The effects (`OpenDocket`,
`RecordRefusal`, `RecordAssignment`, ...) are written once and used both by the
atomic actions here and by the commits of the detailed modules.

`InitialPosting`, `Legacy` (complaints accepted before dockets were opened on
acceptance, for the compatibility endpoint) and `Approved` (complaints whose
docket is already approved) let a run start where its question begins; every
such state is one that earlier requests produce.

### CaseSchema

The migrations write the rules of the tables a second time, independently of the
services: `docket_acceptance`, `complaint_docket_status`,
`refusal_escalation_decision`, the unique first row of a status history, the
row checks, and `reject_append_only_mutation`. The services do not expect an
error from any of them (it would be answered 500 or 503 for a request that was
right). `SchemaAccepts` says that no step of `CaseFile` runs into one; a trigger
sees the rows its transaction wrote, so the rules speak of primed variables.

### Requests

A request record names the operation, the step it takes next and what it has
read so far (`seen` is the station of the officer row it read, so a later move
of the officer does not change it). A step takes the row locks of its SQL
statement (`Wanted`), waits while another request holds a conflicting lock, and
checks what the handler checks; a failed check rolls back. Writes become
visible at the commit. Before it the rows are inserted at successive flushes, and
each flush takes the foreign-key locks (`FOR KEY SHARE`) of its rows while those
of the flush before are kept: first the row the case is about with the key of the
officer (`FlushOfficerKey`), then the audit row with the key of the user, which
the commit waits for (`LastKeys`; an assignment refers to its complaint last, and
to the user before or after the officer, `FlushUserKey`). The trigger
`docket_acceptance`, which locks the complaint whenever the docket row is
updated, is a step of its own too (`AssignTrigger`, `StatusTrigger`). These steps
are what makes lock orders meet. `DeadlockVictim` is PostgreSQL's
deadlock detector, `Rollback` stands for every other failure at every step:
exceptions, lost connections, a crash of the process, and the 4xx answers that
depend on data the model leaves out.

Officer rows are locked FOR SHARE by the charge desk only. All other handlers
read role and posting without a lock, in the order of the code, and the model
lets the administrator commit between those reads.

### CaseEmail

`Enqueue` is the advisory lock of the event and the search for an existing row;
the row becomes visible at `EnqueueCommit` with the reason computed from what
`Enqueue` read. A worker's `Pick` is the `FOR UPDATE SKIP LOCKED` query, `Verify`
the three checks, then either `Block` commits the failure or `Claim` commits
`PROCESSING`; `Send` is the SMTP call, `Record` the second transaction. Rows are
numbers in the order of `created_at`; since `created_at` is the start of the
transaction, a transaction may get any free number. `Results` are the answers of
`_submit`; after `UNKNOWN` the mail may or may not have been delivered.

### AuthAccounts and AuthSessions

Accounts share no rows, so the model is one account: the `users` row with the
methods it may use (`account`, `locked`), `auth_sessions` (`session`), the email
challenges keyed by their session, the send limit (`pause`, `sends`), the audited
failures within a lock window (`failures`), and `password_resets`. Times are
ticks that run down to zero in `Tick`; a counter over a window is an array by
age. Rows are taken in order, so an id is never used twice.

A request is one transaction. `Lookup` is the unlocked search by a token
(refresh, logout, reset) or for a free name, and for a code the beginning of the
transaction, which then waits for the users row; `LockUser` is
`SELECT ... FOR UPDATE` on the users row together with the row that is read again
under it. `arg` is the token's row, `user` and `row` what was read, `age` how long
ago the transaction of a code began: `AuditLog.occurred_at` is the database's
`now()`, so a failure (`Deny`, `RefuseCode`) is counted under that age and not
under the time of the comparison. Every other
action is a handler's outcome with its commit, and an outcome that the code
commits although it answers an error (`deny()`, a wrong password, a failed mail)
changes state accordingly. `Fail` ends a request at any step. Passwords and codes
are right or wrong by choice.

`guesses`, `proven`, `since` and `signedOut` are history variables: the wrong
codes that were really compared, dated like the failures, whether the authenticator was used, which
sessions go back to a sign-in after the last reset or change, and which families
were answered to have ended. No action reads them.

`SessionFamilies` knows only, for each family, which session can be used
(`holder`), and which were ever issued. `AuthSessions` implements it with the
usable rows of a family as its holder.

### EvidenceCustody

Every handler locks the docket row first, so one item stands for all. `Begin` is
the unlocked reading of the officer, `LockScope` the docket and item locks with
the checks under them (assignment, docket status, custody that has not ended,
`expected_event_id` against the newest event that is not an access),
`ReadTarget` the unlocked reading of a new custodian, `SaveFile` the private
store. `Uncertain` is a connection that breaks during `COMMIT`: the code keeps
the object because the row may be there. Whether the commit took place is the
choice between `Uncertain` and `CommitUpload`. `Crash` leaves what is in the
store; `Fail` discards it, or cannot. `strays` remembers what these may leave.
Around the item the docket is approved, assigned, reassigned and closed, and
investigators come and go.

The order of `events` is that of `occurred_at`, which the code reads from the
clock (`utcnow()`) while it holds the locks; the model assumes that this clock
moves forward between two commits on one item.

### Records and intake

`RecordTransactions` is shared: `held` maps a request to its row and advisory
locks, `Allocate` is the upsert on the counter row, which stays locked to the end
of the transaction, and the store is the one of the evidence module. A handler is
a chain of locks, each with what the code checks under it, and a commit.
`CaseRecords` and `IntakeMaterial` add the tables. A complaint has the user who
registered it (`by`, whose waiting files it takes) and the portal user whose it is
(`owner`): the same for a registration in the portal, the account that a consent
links or nobody for one at the counter. `person` of a consent is that account, or
`None` if the address has none or its mail was refused. `mix` chooses, at the start of
a behaviour, the handlers that compete in it: those that meet on a row.
`CaseProceeds`, `DeadlinesChange`, `ConsentsAge`, `UploadsAge` and `Refuse` are
what happens to the case and to the time in between.

## 3. Runs

| Run | Instance | Distinct states | Question |
|---|---|---|---|
| `MCIntake` | 1 new and 1 legacy complaint, 2 officers, 2 stations, history of at most 5 rows, 2 approval decisions | 954,748 | do decisions, reviews, history, assignments and postings fit together after every sequence of commits, who writes when, and does the schema accept every commit? |
| `MCDesk` | 2 requests, 1 complaint, charge officer and commander, 2 stations, administrator, 2 approval decisions | 1,152,423 | do review, decision, docket opening, approval and material implement `CaseFile`; does only the last approval decision open the docket; is the reviewer on duty; who can deadlock? |
| `MCRefusal` | 2 requests, 1 new and 1 legacy complaint, charge officer and commander, 2 stations | 286,980 | the same for decision, all review paths and the docket of a legacy complaint |
| `MCCaseWork` | 2 requests, 1 docket, 2 investigators, commander | 220,192 | the same for notes, statements and status against reassignment |
| `MCAssignment` | 2 requests, 2 dockets, investigator and commander, 2 stations, administrator | 1,042,318 | the same for assignments across dockets against a move |
| `MCAnswered` | 2 requests, fairness | 6,100 | is every request answered where the lock orders conflict? |
| `MCLockOrder` | 2 requests | violation expected | is there one lock order? |
| `MCOutbox` | 2 events, 2 rows, 2 transactions, 2 workers, 2 addresses, 1 crash, 2 attempts, fairness | 805,290 | at most once, true records, numbered attempts, no starvation |
| `MCSessions` | 2 requests of login, refresh, logout, password recovery, staff creation and change, 3 session rows | 1,149,914 | do sessions rotate as `SessionFamilies` says; does nothing survive a reset, a change or a sign-out? |
| `MCChallenges` | 2 requests of registration, login, codes, authenticator, 3 session rows, 2 failures allowed, fairness of the clock | 512,147 | one open code, bounded guesses, the authenticator first, does a lock-out end? |
| `MCEvidence` | 2 requests, 2 investigators, the desk, 2 object keys, 3 custody events | 1,855,566 | linear custody chain, files and rows agree, who writes? |
| `MCRecords` | 2 requests of one of four mixes, a portal user and an officer at the intake, 3 commits | 395,718 | corrections in line, documents once, alerts forward, consent kept, intake together; do files go where their user may put them, with complaints linked by a consent? |

**Bounds.** Two requests are enough for every race named in the hazards: each
is between two handlers that meet on one or two rows, and what third parties
committed before is in the state the requests start from, because slots are
reused (without limit, except in `MCRecords`: three commits are the two of requests
that meet and one before or after them, or the consent, the registration it links
and an upload of its owner). `MaxHistory`, `MaxApprovals` and `MaxEntries`
cap the append-only tables: five rows of history are creation, approval,
activation and two more changes (a hold and the activation after it, or the
closure); two approval decisions (`MCIntake`, `MCDesk`) are a return for
correction before the approval; one entry is of either office. `NewPostings`
lists what the administrator may make of an account: another station, another
role, inactive. One complaint per request
run, or two where the question is about two dockets (`MCAssignment`) or a legacy
complaint (`MCRefusal`). Two attempts of a mail are one retry after a known
failure; one crash at any of the five places a worker can be is enough to lose
its memory once, and a second crash only repeats the situation with the same
rows (the proof covers any number).

Three session rows are a sign-in and two rotations, or two families and a
rotation; in `MCChallenges` they are the authenticator challenge, the transition
code and the session it ends in, or a code, its resend and the session. Two
sends within an hour of three ticks reach the limit, one pause is a tick. The
lock-out limit is one or two instead of five. Staff changes, which end all
sessions exactly as a reset does, race login, refresh and recovery in `MCSessions`;
the proofs cover them together with the codes. Three
custody events are a registration and two changes from the same head; two keys
let an object be left behind and another one stored. In `MCRecords` each mix
holds the handlers that can meet: corrections and invitations of one docket; the
document; evaluation and handling of alerts; consents, registrations and uploads.
There is one complaint and one docket for the first three, whose
locks alone already keep two documents of a kind, and two invitations, apart: the
locks of an invitation's id and of the `DOCUMENT` counter are never contended, and
the run shows the numbering under contention for complaints only.

The `Operations` constant chooses which handlers compete in a run; together the
runs use all of them. Request slots, object keys, investigators and managers that
are interchangeable are symmetric in the safety runs; no symmetry is used with
liveness.

**What the runs show.** `ImplementsCaseFile` is the main result: whatever two
requests do to each other, every commit is a step of `CaseFile`, so that the
properties of `CaseFile` hold of the service; and by `SchemaAccepts` no such
commit is refused by the database. `ImplementsFamilies` does the same for
sign-in: refresh, logout, reuse and recovery that race on one account never
leave two usable sessions of a family and never revive one. `MCLockOrder` shows
that the services do not lock in one order: `approve` holds the complaint and
waits for the docket, `assign` holds the docket and waits, through the trigger,
for the complaint. PostgreSQL ends it after `deadlock_timeout`, and the victim is
answered 503 and not retried; `docs/database-design.md:349` asks for a
consistent order and for retries. No data is damaged (`ImplementsCaseFile`
holds with the cycle in the model, e.g. in `MCRefusal`) and every request is
still answered (`MCAnswered`).

`CyclesAreOpposed` says exactly how far this goes. A circle of waiting requests,
of whatever length, contains two requests of one of five pairs (`Opposed`):
approval or case material against assignment or status change of the same case;
the commander's review against an escalation queue of the same case; the
administrator's change of an officer against whatever that officer does that
names an officer row and then the user (review, decision, docket opening,
approval, material, note, assignment: all hold the officer, by a key or FOR
SHARE, when the audit row needs the user the administrator has locked);
the change of an officer against an assignment to that officer; two assignments
of which one is signed by the officer the other is about. Two commanders, two
charge officers, two notes, or a change of staff next to a status change or a
review of a refusal can wait, but never in a circle. Each pair, and in the third
each of the seven handlers, was found by TLC to be needed, so the list is also
what a reordering of the locks would have to change. `MCDesk` checks it for the
handlers of the desk, the proof covers all handlers of `CaseRequests`; what other
parts lock (sign-in and refresh the users row, uploads the complaint, evidence the
docket, read-only handlers the rows they read) is not in it.

**Fairness.** `MCAnswered` assumes strong fairness of the handlers' steps,
since PostgreSQL serves the waiters of a row lock in turn, and weak fairness of
the deadlock detector. Clients never have to call and nothing else has to fail.
`MCOutbox` assumes weak fairness of each worker, because `--watch` polls for
ever; nobody has to enqueue, retry, change an address or crash. Without a
worker process mails stay `PENDING`, and this is not a fault of the service.
`LockEnds` in `MCChallenges` assumes only that time passes; in particular no
transaction has to make progress.

TLC's deadlock check is on in every run, but says little where requests wait for
locks, because every open request can fail at any step. Who can wait in a circle
is the question of `CyclesAreOpposed`. For `RecordRequests` it is not asked (see
section 5).

## 4. Proofs

All theorems hold for any values of the constants that satisfy the module's
assumption (`CaseAssumption`, `EmailAssumption`, `AuthAssumption`,
`EvidenceAssumption`, `RecordsAssumption`), so for any number of officers,
requests, rows and any bounds.

`CaseFileProofs` proves that `FileSpec` implies the type invariant,
`DecisionFinal`, `AssignedDocketStarted`, `OneUnfinishedCase`, `AssigneePosted`,
`ApprovalOpensDocket`, `HistoryTellsStatus`, `EscalationFollowsRefusal` and the
action properties `NothingReopens` and `EntriesFollowDocket`. Most are inductive with the type invariant; the others lean
on each other: `AssigneePosted` needs `AssignedDocketStarted` (an unfinished
docket of a moving officer makes him busy), the approval and history invariants
need `DecisionFinal` (a docket is created once) and each other for the status an
approval starts from, and `EscalationFollowsRefusal` uses that a decided
complaint is never decided again.

`SchemaAccepts` follows from these (`SchemaSatisfied`). A step only appends
(`AppendOnlyStep`), the first row of a history is the creation (`ChainRows`, from
`HistoryTellsStatus`), and the triggers' conditions follow from `DecisionFinal`
and `EscalationFollowsRefusal` of the state after the step.

`RequestProofs` proves `ImplementsCaseFile`, `StatusByAssignee` and
`ReviewerOnDuty` for any number of concurrent requests, and with them that what
`CaseFileProofs` proves of `CaseFile` holds of the handlers
(`ServiceKeepsPromises`). The argument is that of two-phase locking. `RequestsInv`
says that no two requests hold conflicting locks (`Exclusive`) and, for each
handler and each of its places, which locks it holds and which checks it has
passed (`Knows`). `Guarded` says what a step may change with the locks its
request holds: a complaint under the complaint lock, a docket under the docket
lock, a posting and a new assignment under the lock of the officer row, and a
closed docket or a row that exists never goes back. So whatever another request
commits, what this one knows stays true (`StandKnows`); every check of a handler
establishes what its next place knows (the lemmas `...Checked`), and every commit
is guarded and a step of `CaseFile` because of what is known (`...Commits`). Two
places need more than locks: a docket that does not exist yet cannot be locked,
so openings count on the complaint lock, and `~Busy` of an officer reads dockets
that `assign` has not locked, so it counts on the officer lock and on dockets
never leaving `CLOSED`. Roles read without a lock are not known at the commit,
and nothing proved depends on them. TLC found no violation of `RequestsInv` on
the instances of `MCDesk`, `MCCaseWork` and `MCRefusal`.

`CirclesCross` proves `CyclesAreOpposed` from a third layer. `HeldInPlace` is
inductive: every lock of a request, keys included, lies on a row of its own call
(its case, its actor, its target) that it took at an earlier place of its handler. So who waits
for whom can be read off the places (`Blocks`). Take a circle without an opposed
pair (`CirclesOpposed`). Each member waits, which rules out the holders of one
kind of row after the other: first of user rows, because the administrator who
holds one waits for an officer row that its holder, to be in the circle, would
have to hold in the opposite order; then of officer rows, dockets, complaints,
refusals and keys, each with the help of the ones before. Then nobody holds anything that
is waited for, so the circle is empty. The argument does not follow the circle
step by step, and so needs no induction over its length.

`CaseEmailProofs` proves `EmailTypeOK`, `AtMostOnce` and `RecordsTrue`. None of them but the type is inductive. The invariant
`EmailInv` adds who owns a row (`DecidesLocked`, `LockOwned`, `ClaimOwned`: a
worker between check and claim holds the row lock, a row in `PROCESSING` has at
most one worker, and nobody else touches it), what the mailbox and the attempts
say about a row in each status (`InboxTold`, `ResultTold`, `NumbersTold`,
`NumberRead`), and that an event is in one committed row or one open transaction
(`EventOnce`, `ReportsOwn`, `Addressed`). The key of `AtMostOnce` is that a row
returns to `PENDING` only from `FAILED`, and no `FAILED` row has anything in the
mailbox.

`AuthProofs` proves the type invariant, `SignedInSince`, `OneOpenChallenge`,
`AuthenticatorFirst` and the refinement `ImplementsFamilies`. The invariant
`AuthInv` says that whoever holds the users row has read it, and the row of the
token, as they still are (`LockedRead`); that a row found before the lock stays
(`FoundRow`); and how session and challenge rows fit together (`RowsFit`): one
unrevoked session of a family, one unrevoked challenge, every unrevoked row goes
back to the last reset or change, and a transition code exists only after the
authenticator was used. The type invariant itself needs `AccountKept`: an account
without a lock has attempts left, otherwise the counter passes its limit. For the
refinement each action is one of four shapes (rows fade, a family starts,
rotates, or all end and one starts), and each shape maps to one step of
`SessionFamilies` or a stutter.

`SessionProofs` proves `GuessesBounded`, `SignedOutStaysOut` and, through the
refinement, `FamiliesEndForGood`. `GuessesBounded` compares the wrong codes really
compared with the audited failures that the code counts: no age of the window has
fewer failures than guesses (`Guessed`), and the sums of two such arrays compare
alike. Its window is that of the code, by the start of the transactions. It bounds
the guesses of the requests that began within a lock window, not the comparisons
made within one: a request that waits long for the users row compares late, and its
failure has left the window so much earlier (TLC finds the bound violated if
guesses are dated by the comparison). How much later is not bounded by the service,
which sets no lock timeout, but the code it compares has to be valid still. The
start of a transaction is the database's clock, the window the application's; the
model has one clock.
`SignedOutStaysOut` is about the recursive query of a logout or a reuse,
which starts at the row of the token and follows `replaced_by_session_id` to the session to
revoke. `FamiliesInv` says that every row of a family with an open session points
to a later row of the same family (`Linked`), so that the query, wherever it
starts, ends at the open one (`ChainReaches`) and no session of the family is
left. Sums and chains are recursive functions, so both need induction over data.
It is carried out with sets instead of operators: outside the set of what has been
shown there would be a minimal element of a well-founded relation (`NaturalsFrom`,
`SubsetsFrom`). `FamiliesEndForGood` is proved of
`SessionFamilies` alone (`OneHolder`: at most one holder, and it was issued;
`EndedForGood`: an issued family without holder never has one again) and holds of
the handlers because their step is a step of it or a stutter.

`EvidenceProofs` proves the type invariant, `ChainUnbroken`, `FilesAgree` and
`WrittenInCharge`. `EvidenceInv` adds that one request is past the docket lock
(`OneWriter`), that what its scope has shown is still so (`Admitted`, `Asked`),
where its object is and that its version is the next (`Saved`, `Counting`), and
that every prefix of the chain has a newest change (`Headed`), from which the
custody version of the chain with one more event is computed
(`VersionIsNewest`, `HeadMoves`, `ChainExtended`).

`RecordProofs` and `IntakeProofs` prove all six properties of `RecordRequests`:
`CorrectionsInLine`, `DocumentsOnce`, `AlertsForward`, `ConsentKept`,
`IntakeTogether` and `FilesInScope`. Every handler locks, looks, and commits what it has concluded,
so the invariant has three layers. The first is about transactions only: calls
are well-formed (`CallsOK`, `RowsOK`, `Asked`), no lock has two owners
(`Exclusive`), the step of a call tells which locks it has (`Holding`), and a
saved object is its own until its row commits (`Saved`, `Kept`). The second says
for each table what a call past its check still knows: the version it appends to
is the last, the record it corrects is not corrected, the episodes it reports are
not reported (`StatementsInv`, `FeedbackInv`, `DocumentsInv`, `AlertsInv`), the
consent it uses is unused and those it replaces are all it has seen (`Claimed`),
its number is the next (`NumbersInv`), its files are free and the limit of its
user is not reached (`UploadsInv`), they are its user's own, and the complaint an
upload is for is owned by its user, or is locked by an officer and not refused
(`ScopesInv`). The third are the properties. Each step of the
second layer is the same argument: either the step is the call's own, then its
check has just shown the fact, or another transaction ends, then that one would
need a lock the call has. TLC found
no violation of it on the instance of `MCRecords`.

Only model-checked are the liveness properties `EveryRequestAnswered`,
`QueuedIsHandled` and `LockEnds`: they rest on fairness, whose `ENABLED` the
prover does not handle. `NoLockCycle` is violated by the code (`MCLockOrder`).

## 5. Not modelled

* Stations are never deactivated and their rows are not locked.
* In the request modules of the case, identifier counters and with them the
  locks on counter rows are left out; they are in `RecordTransactions`. Years and
  stations only choose the counter row.
* Static permissions follow the role. `expected_updated_at`, the refusal notes,
  inactive reasons, dates and other input checks are failures at any step
  (`Rollback`).
* Passwords, hashes, token formats, the authenticator's arithmetic and the access
  token (it names its session, whose row every request reads).
* Message bodies, subjects, legacy footers and encryption of addresses. An
  address that cannot be decrypted makes the worker fail before its claim, with
  the row left in front of the queue; in the model this is a crash, and crashes
  are bounded.
* In-app notifications and audit rows, except for the locks their foreign keys
  take and the audited failures that limit guesses.
* The contents of statements, documents and files, and their checksums.
* Constraints of the tables outside `CaseSchema`; the invariants of the other
  modules show that the locks alone keep the rows unique. DDL and data migrations.
* An investigator who is moved between `ReadTarget` and the commit of a custody
  transfer becomes custodian nevertheless. It is in the model; no document
  promises the opposite, and no property is stated against it. An upload of the
  owner may pass the complaint's refusal too; `FilesInScope` says that no other
  file does. The address a mail goes to may be out of date by the time it is sent:
  the change and the check are in `CaseEmail`, but its properties are about rows
  and events and do not speak of addresses.
* In `RecordRequests` the row locks that foreign keys take at an insert. They
  delay requests and change no row, so they matter for circles of waiting
  requests only: an upload holds the user's row and may need the complaint, a
  statement of the same officer holds the complaint and needs the key of the
  user's row. Such circles end there, as in PostgreSQL, with the failure of a
  request (`Fail`). So does the one that the modelled locks form: a registration
  with a consent keeps the counter row and waits for the profile it links
  (`ProfileLock`), one in the portal keeps its profile and waits for the counter.
* Read-only handlers: some of them lock the rows they read, which delays writers
  but changes nothing. Dashboards, the full docket view, email inquiry, seeds,
  configuration, the web front end.

## 6. Plan

1. The counter rows in the lock order of the case requests: registration and the
   opening of a docket take a number under the complaint lock and keep the counter
   row while they wait for the keys of their flushes. With it the locks that
   sign-in, uploads and evidence take on the same rows.
2. The foreign-key locks of `RecordRequests`, with lock modes as in
   `CaseTransactions`, and `CyclesAreOpposed` for its handlers.
