--------------------------- MODULE IntakeMaterial ---------------------------
(***************************************************************************)
(* Intake of complaints with what is prepared before: the consent of a     *)
(* complainant to link a walk-in complaint to the portal account, and      *)
(* files uploaded ahead.  The registration uses up the consent, takes a    *)
(* reference number and attaches the files in one transaction.             *)
(***************************************************************************)
EXTENDS RecordTransactions

CONSTANTS
    DeskOfficer,   \* charge officers, who register at the counter
    Complainant,   \* portal users, who register and upload for themselves
    Address,       \* email addresses typed at the counter
    MaxGuesses,    \* five in the code
    MaxPerOfficer, \* twenty consents of an officer within an hour
    MaxPerAddress, \* five consents of an address within an hour
    MaxUploads     \* fifty uploads of a user within a day

VARIABLES
    consents,    \* intake_email_consents rows, in created_at order
    uploads,     \* complaint_uploads rows, in id order
    complaints,  \* complaints rows: who registered it, whose it is, its number
    guesses      \* history: wrong codes that were compared, by consent

intakeVars == <<consents, uploads, complaints, guesses>>

-----------------------------------------------------------------------------
\* The age of a consent: under a minute, under five, under an hour, older.
Ages == 0..3

IntakeInit ==
    /\ consents = <<>>
    /\ uploads = <<>>
    /\ complaints = <<>>
    /\ guesses = <<>>

Users == DeskOfficer \cup Complainant

Consents == 1..Len(consents)

Uploads == 1..Len(uploads)

\* The rows the handlers insert.
NewConsent(officer, address, person) ==
    [by |-> officer, address |-> address, attempts |-> 0,
     used |-> FALSE, person |-> person, age |-> 0]

NewUpload(user, complaint, key) ==
    [by |-> user, complaint |-> complaint, key |-> key, fresh |-> TRUE]

NewComplaint(user, owner, number, consent, files) ==
    [by |-> user, owner |-> owner, number |-> number, consent |-> consent,
     files |-> files, open |-> TRUE]

Attaching(r, files) == [r EXCEPT !.files = files]

IntakeBegin(p) ==
    \/ \E o \in DeskOfficer, a \in Address : Begin(p, New("consent", "officer", o, 0, a))
    \/ \E u \in Users, c \in 0..Len(complaints) : Begin(p, New("upload", "user", u, c, None))
    \/ \E o \in DeskOfficer, n \in 0..Len(consents), files \in SUBSET Uploads :
            Begin(p, Attaching(New("register", IF n = 0 THEN "number" ELSE "code", o, n, None), files))
    \/ \E u \in Complainant, files \in SUBSET Uploads :
            Begin(p, Attaching(New("register", "owner", u, 0, None), files))

-----------------------------------------------------------------------------
\* request_consent: the limits are counted under two advisory locks.
ConsentOfficer(p) ==
    /\ At(p, "consent", "officer")
    /\ Take(p, {<<"intake-email", request[p].by>>}, "recipient")
    /\ UNCHANGED intakeVars

Recent(n) == consents[n].age < 3

ConsentRecipient(p) ==
    /\ At(p, "consent", "recipient")
    /\ LET a == request[p].what
           same == {n \in Consents : Recent(n) /\ consents[n].address = a}
       IN  Check(p, {<<"intake-recipient", a>>},
                 /\ Cardinality({n \in Consents : Recent(n) /\ consents[n].by = request[p].by}) < MaxPerOfficer
                 /\ Cardinality(same) < MaxPerAddress
                 /\ \A n \in same : consents[n].age > 0,
                 "rows")
    /\ UNCHANGED intakeVars

\* The unused consents of the address within the hour.
Replaced(p) ==
    {n \in Consents : /\ Recent(n) /\ ~consents[n].used
                      /\ consents[n].address = request[p].what}

\* They are marked as used, which locks their rows, before the mail is sent.
ConsentRows(p) ==
    /\ At(p, "consent", "rows")
    /\ TakeAndSee(p, {<<"consent", n>> : n \in Replaced(p)}, "commit", Replaced(p))
    /\ UNCHANGED intakeVars

\* The code goes to the portal user who has the address; it goes to none if
\* the address has no verified account or the mail server refuses.
ConsentCommit(p) ==
    /\ At(p, "consent", "commit")
    /\ \E person \in Complainant \cup {None} :
         consents' = Append(
            [n \in Consents |-> IF n \in request[p].seen
                                  THEN [consents[n] EXCEPT !.used = TRUE] ELSE consents[n]],
            NewConsent(request[p].by, request[p].what, person))
    /\ guesses' = Append(guesses, 0)
    /\ Commit(p)
    /\ UNCHANGED <<uploads, complaints>>

-----------------------------------------------------------------------------
\* The consent of p can be used, were the code right.
Usable(p) ==
    LET row == consents[request[p].row]
    IN  /\ row.by = request[p].by
        /\ row.person # None /\ ~row.used /\ row.age < 2
        /\ row.attempts + 1 <= MaxGuesses

\* consume: the right code, under the lock of its row.
CodeRight(p) ==
    /\ At(p, "register", "code")
    /\ Usable(p)
    /\ Check(p, {<<"consent", request[p].row>>}, TRUE, "number")
    /\ UNCHANGED intakeVars

CodeWrong(p) ==
    /\ At(p, "register", "code")
    /\ Check(p, {<<"consent", request[p].row>>}, TRUE, "denied")
    /\ UNCHANGED intakeVars

\* Mutant: the attempt is rolled back with the registration.
CodeDeniedMutant(p) ==
    /\ At(p, "register", "denied")
    /\ guesses' = [guesses EXCEPT ![request[p].row] = IF Usable(p) THEN @ + 1 ELSE @]
    /\ Answer(p)
    /\ UNCHANGED <<consents, uploads, complaints>>

\* The attempt is committed, so that the limit holds, and nothing else is.
CodeDenied(p) ==
    /\ At(p, "register", "denied")
    /\ LET n == request[p].row
       IN  /\ guesses' = [guesses EXCEPT ![n] = IF Usable(p) THEN @ + 1 ELSE @]
           /\ consents' = IF consents[n].by = request[p].by
                            THEN [consents EXCEPT ![n].attempts = @ + 1] ELSE consents
    /\ Commit(p)
    /\ UNCHANGED <<uploads, complaints>>

-----------------------------------------------------------------------------
\* The portal locks the complainant's profile first.
OwnerLock(p) ==
    /\ At(p, "register", "owner")
    /\ Take(p, {<<"complainant", request[p].by>>}, "number")
    /\ UNCHANGED intakeVars

RegisterNumber(p) ==
    /\ At(p, "register", "number")
    /\ Allocate(p, "COMPLAINT", IF request[p].row = 0 THEN "files" ELSE "profile")
    /\ UNCHANGED intakeVars

\* The complaint refers to the profile that the consent links, and writes the
\* contact details on it.
ProfileLock(p) ==
    /\ At(p, "register", "profile")
    /\ Take(p, {<<"complainant", consents[request[p].row].person>>}, "files")
    /\ UNCHANGED intakeVars

\* attach locks the uploads, in id order: one's own, of today, not attached yet.
Attach(p) ==
    /\ At(p, "register", "files")
    /\ Check(p, {<<"upload", f>> : f \in request[p].files},
             \A f \in request[p].files :
                uploads[f].by = request[p].by /\ uploads[f].complaint = 0 /\ uploads[f].fresh, "commit")
    /\ UNCHANGED intakeVars

\* Whose complaint it becomes: the portal user's own, that of the account the
\* consent links, or that of a new profile without a user.
Owner(r) ==
    IF r.by \in Complainant THEN r.by
    ELSE IF r.row = 0 THEN None ELSE consents[r.row].person

RegisterCommit(p) ==
    /\ At(p, "register", "commit")
    /\ LET n == request[p].row
           id == Len(complaints) + 1
       IN  /\ complaints' = Append(complaints,
                NewComplaint(request[p].by, Owner(request[p]), request[p].number, n, request[p].files))
           /\ uploads' = [f \in Uploads |-> IF f \in request[p].files
                            THEN [uploads[f] EXCEPT !.complaint = id] ELSE uploads[f]]
           /\ consents' = IF n = 0 THEN consents
                            ELSE [consents EXCEPT ![n].attempts = @ + 1, ![n].used = TRUE]
    /\ CommitNumber(p, "COMPLAINT")
    /\ UNCHANGED guesses

-----------------------------------------------------------------------------
\* Mutant: the uploads are counted without the lock of the user.
UploadUserMutant(p) ==
    /\ At(p, "upload", "user")
    /\ Take(p, {}, "case")
    /\ UNCHANGED intakeVars

UploadUser(p) ==
    /\ At(p, "upload", "user")
    /\ Take(p, {<<"user", request[p].by>>}, "case")
    /\ UNCHANGED intakeVars

\* scope: the complaint is the user's, whoever registered it.
Owned(r) == complaints[r.row].owner = r.by

\* Mutant: an officer reads the complaint without its lock as well.
UploadScopeMutant(p) ==
    /\ At(p, "upload", "case")
    /\ LET c == request[p].row
       IN  Check(p, {},
                 /\ c # 0 => complaints[c].open /\ (Owned(request[p]) \/ request[p].by \in DeskOfficer)
                 /\ Cardinality({f \in Uploads : uploads[f].by = request[p].by /\ uploads[f].fresh})
                        < MaxUploads,
                 "save")
    /\ UNCHANGED intakeVars

\* A file for a complaint: its owner reads it without a lock, others lock it and
\* must be officers; it must not have been refused.  Then the limit of the day.
UploadScope(p) ==
    /\ At(p, "upload", "case")
    /\ LET c == request[p].row
       IN  Check(p, IF c = 0 \/ Owned(request[p]) THEN {} ELSE {<<"complaint", c>>},
                 /\ c # 0 => complaints[c].open /\ (Owned(request[p]) \/ request[p].by \in DeskOfficer)
                 /\ Cardinality({f \in Uploads : uploads[f].by = request[p].by /\ uploads[f].fresh})
                        < MaxUploads,
                 "save")
    /\ UNCHANGED intakeVars

UploadCommit(p) ==
    /\ At(p, "upload", "commit")
    /\ uploads' = Append(uploads, NewUpload(request[p].by, request[p].row, request[p].key))
    /\ Commit(p)
    /\ UNCHANGED <<consents, complaints, guesses>>

-----------------------------------------------------------------------------
\* Time passes for the consents, the older ones first, and for the uploads.
ConsentsAge ==
    /\ \E n \in Consents :
         /\ consents[n].age + 1 \in Ages
         /\ \A m \in 1..n - 1 : consents[m].age > consents[n].age
         /\ consents' = [consents EXCEPT ![n].age = @ + 1]
    /\ UNCHANGED <<uploads, complaints, guesses, transactionVars>>

UploadsAge ==
    /\ \E f \in Uploads : uploads[f].fresh /\ uploads' = [uploads EXCEPT ![f].fresh = FALSE]
    /\ UNCHANGED <<consents, complaints, guesses, transactionVars>>

\* A complaint is refused, under the lock of its row.
Refuse ==
    /\ \E c \in 1..Len(complaints) :
         /\ complaints[c].open
         /\ \A q \in Request : <<"complaint", c>> \notin held[q]
         /\ complaints' = [complaints EXCEPT ![c].open = FALSE]
    /\ UNCHANGED <<consents, uploads, guesses, transactionVars>>

IntakeStep(p) ==
    \/ IntakeBegin(p) /\ UNCHANGED intakeVars
    \/ ConsentOfficer(p) \/ ConsentRecipient(p) \/ ConsentRows(p) \/ ConsentCommit(p)
    \/ CodeRight(p) \/ CodeWrong(p) \/ CodeDenied(p) \/ OwnerLock(p)
    \/ RegisterNumber(p) \/ ProfileLock(p) \/ Attach(p) \/ RegisterCommit(p)
    \/ UploadUser(p) \/ UploadScope(p) \/ UploadCommit(p)

-----------------------------------------------------------------------------
\* A consent links one complaint at most, its code is compared with at most
\* MaxGuesses wrong ones, whatever fails after it, and of the codes of one
\* address that could still be used only the last is (request_consent, consume).
ConsentKept ==
    /\ \A c, d \in 1..Len(complaints) :
         c # d /\ complaints[c].consent = complaints[d].consent => complaints[c].consent = 0
    /\ \A n \in Consents : guesses[n] <= MaxGuesses
    /\ \A m, n \in Consents :
         /\ consents[m].address = consents[n].address
         /\ ~consents[m].used /\ ~consents[n].used
         /\ consents[m].age < 2 /\ consents[n].age < 2
         => m = n

\* A file belongs to the one complaint it was attached or uploaded to, its
\* bytes are kept, a user has at most MaxUploads of today, and the complaints
\* are numbered without gap or double (attach, upload, _allocate_identifier).
IntakeTogether ==
    /\ \A c \in 1..Len(complaints) : \A f \in complaints[c].files : uploads[f].complaint = c
    /\ \A f \in Uploads : uploads[f].key \in stored
    /\ \A u \in Users :
         Cardinality({f \in Uploads : uploads[f].by = u /\ uploads[f].fresh}) <= MaxUploads
    /\ {complaints[c].number : c \in 1..Len(complaints)} = 1..Len(complaints)

\* A new file goes to a complaint of its own user, registered in the portal or
\* linked at the counter by a consent, or, from an officer, to one that is not
\* refused at that moment; only the former may cross the refusal.  A file that
\* waits is attached once, to a complaint its user registers, and never goes
\* from one complaint to another (upload, scope and attach of uploads.py).
FilesInScope ==
    [][/\ \A f \in Uploads : uploads'[f].complaint # uploads[f].complaint =>
            /\ uploads[f].complaint = 0
            /\ uploads'[f].complaint \in Len(complaints) + 1..Len(complaints')
            /\ complaints'[uploads'[f].complaint].by = uploads[f].by
       /\ \A f \in Len(uploads) + 1..Len(uploads') :
            LET c == uploads'[f].complaint
                u == uploads'[f].by
            IN  c # 0 => complaints[c].owner = u \/ (u \in DeskOfficer /\ complaints[c].open)
      ]_uploads
=============================================================================
