---------------------------- MODULE IntakeProofs ----------------------------
(***************************************************************************)
(* The intake in RecordRequests, for any number of transactions, codes and *)
(* files: a consent links one complaint, its code stands at most so many   *)
(* wrong guesses, a file has one complaint, and complaints are numbered    *)
(* without gap.  RecordProofs has the locks and the effect of each step.   *)
(***************************************************************************)
EXTENDS RecordProofs

-----------------------------------------------------------------------------
(***************************************************************************)
(* What is known at each step.                                             *)
(***************************************************************************)
HasNumber(q) == Is(q, "register", {"profile", "files", "commit"})

NumbersInv ==
    /\ counter["COMPLAINT"] = Len(complaints)
    /\ \A c \in 1..Len(complaints) : complaints[c].number = c
    /\ \A q \in Request : HasNumber(q) => request[q].number = Len(complaints) + 1

\* A complaint about to be committed with its files, a file about to be stored.
Attaches(q) == At(q, "register", "commit")

Storing(q) == Is(q, "upload", {"save", "commit"})

UploadsInv ==
    /\ \A c \in 1..Len(complaints) : \A f \in complaints[c].files :
         f \in Uploads /\ uploads[f].complaint = c
    /\ \A u \in Users : Cardinality(FreshIn(uploads, u)) <= MaxUploads
    /\ \A q \in Request :
         /\ request[q].op = "register" => request[q].files \subseteq Uploads
         /\ Attaches(q) => \A f \in request[q].files : uploads[f].complaint = 0
         /\ Storing(q) => Cardinality(FreshIn(uploads, request[q].by)) < MaxUploads

\* An upload on its way is for a complaint whose owner sends it, or for one that
\* an officer has locked while it is open; the files of a registration are the
\* user's own.
Scoped(q) ==
    LET c == request[q].row
    IN  Storing(q) /\ c # 0 =>
          \/ complaints[c].owner = request[q].by
          \/ /\ request[q].by \in DeskOfficer
             /\ complaints[c].open /\ <<"complaint", c>> \in held[q]

OwnFiles(q) == Attaches(q) => \A f \in request[q].files : uploads[f].by = request[q].by

ScopesInv == \A q \in Request : Scoped(q) /\ OwnFiles(q)

\* Wrong guesses are among the attempts.
Guessed ==
    \A n \in Consents : guesses[n] <= MaxGuesses /\ guesses[n] <= consents[n].attempts

OneUsable ==
    \A m, n \in Consents :
       /\ consents[m].address = consents[n].address
       /\ ~consents[m].used /\ ~consents[n].used
       /\ consents[m].age < 2 /\ consents[n].age < 2
       => m = n

Linked ==
    /\ \A c \in 1..Len(complaints) :
         complaints[c].consent # 0 =>
            complaints[c].consent \in Consents /\ consents[complaints[c].consent].used
    /\ \A c, d \in 1..Len(complaints) :
         c # d /\ complaints[c].consent = complaints[d].consent => complaints[c].consent = 0

\* A consent about to be inserted has seen those it replaces; a complaint with
\* a consent has it for itself.
Inserting(q) == At(q, "consent", "commit")

Linking(q) == Is(q, "register", {"number", "profile", "files", "commit"}) /\ request[q].row # 0

Claimed ==
    \A q \in Request :
       /\ Inserting(q) =>
            \A n \in Consents : Recent(n) /\ ~consents[n].used
                  /\ consents[n].address = request[q].what => n \in request[q].seen
       /\ Linking(q) => ~consents[request[q].row].used

ConsentsInv == Guessed /\ OneUsable /\ Linked /\ Claimed

-----------------------------------------------------------------------------
(***************************************************************************)
(* Reference numbers.                                                      *)
(***************************************************************************)
\* The number is what the lock of the counter has shown.
LEMMA NumberStep ==
    ASSUME RecordInv, NumbersInv, [RecordsNext]_allVars, NEW q \in Request, HasNumber(q)'
    PROVE  request'[q].number = Len(complaints) + 1
  <1> USE DEF RecordInv
  <1>0. request'[q].op = "register" /\ request'[q].at \in {"profile", "files", "commit"}
    BY DEF HasNumber, Is
  <1>1. CASE Same(q)
    BY <1>0, <1>1 DEF Same, NumbersInv, HasNumber, Is
  <1>2. CASE IntakeGoes(q)
    <2>1. \/ \E next \in {"profile", "files"} :
               /\ Goes(q, "register", "number", next, {<<"counter", "COMPLAINT">>})
               /\ Numbers(q, "COMPLAINT")
          \/ /\ Goes(q, "register", "profile", "files",
                     {<<"complainant", consents[request[q].row].person>>})
             /\ Keeps(q)
          \/ /\ Goes(q, "register", "files", "commit", {<<"upload", f>> : f \in request[q].files})
             /\ Keeps(q)
      BY <1>0, <1>2 DEF IntakeGoes, Goes, Advance, At
    <2>2. QED
      BY <2>1 DEF Goes, At, Numbers, Keeps, NumbersInv, HasNumber, Is
  <1>3. CASE Done(q) \/ Begun(q) \/ RecordGoes(q) \/ SaveGoes(q)
    BY <1>0, <1>3, IdleShape DEF Done, Begun, Starts, RecordGoes, SaveGoes, Goes, Advance, At
  <1>4. QED
    BY <1>1, <1>2, <1>3, NextMoves DEF Moves

LEMMA NumbersKept ==
    ASSUME RecordInv, NumbersInv, [RecordsNext]_allVars
    PROVE  NumbersInv'
  <1> USE DEF RecordInv
  <1>0. Len(complaints) \in Nat /\ counter["COMPLAINT"] = Len(complaints)
    BY DEF RowsOK, NumbersInv
  <1>1. ASSUME NEW p \in Request, RegisterCommit(p)
        PROVE  NumbersInv'
    <2>1. /\ HasNumber(p) /\ <<"counter", "COMPLAINT">> \in held[p]
          /\ Ends(p) /\ request[p].op # "idle"
      BY <1>1 DEF RegisterCommit, Ends, Holding, Is, At, HasNumber
    <2>2. request[p].number = Len(complaints) + 1
      BY <2>1 DEF NumbersInv
    <2>3. /\ Len(complaints') = Len(complaints) + 1
          /\ \A c \in 1..Len(complaints) : complaints'[c] = complaints[c]
          /\ complaints'[Len(complaints) + 1].number = request[p].number
          /\ counter' = [counter EXCEPT !["COMPLAINT"] = request[p].number]
      BY <1>1, ComplaintWritten
    <2>4. ASSUME NEW q \in Request, HasNumber(q)'
          PROVE  FALSE
      <3>1. p # q
        BY <2>1, <2>4, EndStep, IdleShape DEF Done, HasNumber, Is
      <3>2. Same(q)
        BY <2>1, <3>1, EndStep DEF Alone
      <3>3. <<"counter", "COMPLAINT">> \in held[q]
        BY <2>4, <3>2 DEF Same, Holding, Is, HasNumber
      <3>4. QED
        BY <2>1, <3>1, <3>3 DEF Exclusive
    <2>5. counter'["COMPLAINT"] = Len(complaints')
      BY <2>2, <2>3 DEF CallsOK, NumberTypes
    <2>6. \A c \in 1..Len(complaints') : complaints'[c].number = c
      BY <1>0, <2>2, <2>3 DEF NumbersInv
    <2>7. \A q \in Request : ~HasNumber(q)'
      BY <2>4
    <2>8. QED
      BY <2>5, <2>6, <2>7 DEF NumbersInv
  <1>2. CASE ~\E p \in Request : RegisterCommit(p)
    <2>1. /\ Len(complaints') = Len(complaints)
          /\ \A c \in 1..Len(complaints) : complaints'[c].number = complaints[c].number
      BY <1>2, IntakeWriters, ComplaintRefused
    <2>2. counter'["COMPLAINT"] = counter["COMPLAINT"]
      <3>1. ASSUME NEW p \in Request, DocumentCommit(p)
            PROVE  counter'["COMPLAINT"] = counter["COMPLAINT"]
        BY <3>1 DEF DocumentCommit, CommitNumber, CallsOK, NumberTypes
      <3>2. QED
        BY <1>2, <3>1, StoreWriters
    <2>3. \A q \in Request : HasNumber(q)' => request'[q].number = Len(complaints) + 1
      BY NumberStep
    <2>4. QED
      BY <1>0, <2>1, <2>2, <2>3 DEF NumbersInv
  <1>3. QED
    BY <1>1, <1>2

-----------------------------------------------------------------------------
(***************************************************************************)
(* Files.                                                                  *)
(***************************************************************************)
\* What is known of a complaint's files was seen under their locks, of the
\* count of the day under the lock of the user.
LEMMA FilesStep ==
    ASSUME RecordInv, UploadsInv, [RecordsNext]_allVars, NEW q \in Request
    PROVE  /\ request'[q].op = "register" => request'[q].files \subseteq Uploads
           /\ Attaches(q)' => \A f \in request'[q].files : uploads[f].complaint = 0
           /\ Storing(q)' => Cardinality(FreshIn(uploads, request'[q].by)) < MaxUploads
  <1> USE DEF RecordInv
  <1>1. CASE Same(q)
    <2>1. /\ request'[q] = request[q] /\ Attaches(q)' = Attaches(q) /\ Storing(q)' = Storing(q)
      BY <1>1 DEF Same, Attaches, Storing, At, Is
    <2>2. QED
      BY <2>1 DEF UploadsInv
  <1>2. CASE IntakeGoes(q)
    <2>1. request'[q].op = "register" => request'[q].files \subseteq Uploads
      <3>1. request'[q].op = request[q].op /\ request'[q].files = request[q].files
        BY <1>2 DEF IntakeGoes, Goes, Advance
      <3>2. QED
        BY <3>1 DEF UploadsInv
    <2>2. ASSUME Attaches(q)'
          PROVE  \A f \in request'[q].files : uploads[f].complaint = 0
      BY <1>2, <2>2 DEF IntakeGoes, Goes, Advance, Attaches, At
    <2>3. ASSUME Storing(q)'
          PROVE  Cardinality(FreshIn(uploads, request'[q].by)) < MaxUploads
      <3>1. request'[q].op = "upload" /\ request'[q].at \in {"save", "commit"}
        BY <2>3 DEF Storing, Is
      <3>2. /\ request'[q].by = request[q].by
            /\ Cardinality(FreshIn(uploads, request[q].by)) < MaxUploads
        BY <1>2, <3>1 DEF IntakeGoes, Goes, Advance, At
      <3>3. QED
        BY <3>2
    <2>4. QED
      BY <2>1, <2>2, <2>3
  <1>3. CASE SaveGoes(q)
    <2>1. /\ request'[q].op \in {"document", "upload"} /\ ~Attaches(q)'
          /\ request'[q].by = request[q].by
      BY <1>3 DEF SaveGoes, Advance, At, Attaches
    <2>2. Storing(q)' => Storing(q)
      BY <1>3 DEF SaveGoes, Advance, At, Is, Storing
    <2>3. QED
      BY <2>1, <2>2 DEF UploadsInv
  <1>4. CASE Begun(q) /\ Asking(q)
    <2>1. <<request'[q].op, request'[q].at>> \in Starts
      BY <1>4 DEF Begun
    <2>2. ~Attaches(q)' /\ ~Storing(q)'
      BY <2>1 DEF Starts, Attaches, Storing, At, Is
    <2>3. QED
      BY <1>4, <2>2 DEF Asking
  <1>5. CASE Done(q) \/ RecordGoes(q)
    <2>1. request'[q].op \notin {"register", "upload"}
      BY <1>5, IdleShape DEF Done, RecordGoes, Goes, Advance, At
    <2>2. QED
      BY <2>1 DEF Attaches, Storing, At, Is
  <1>6. QED
    BY <1>1, <1>2, <1>3, <1>4, <1>5, NextMoves DEF Moves

\* The files of today that a user has are finitely many.
LEMMA FreshFinite ==
    ASSUME NEW rows, Len(rows) \in Nat, NEW u
    PROVE  IsFiniteSet(FreshIn(rows, u)) /\ Cardinality(FreshIn(rows, u)) \in Nat
  <1>1. IsFiniteSet(1..Len(rows)) /\ FreshIn(rows, u) \subseteq 1..Len(rows)
    BY FS_Interval DEF FreshIn
  <1>2. QED
    BY <1>1, FS_Subset, FS_CardinalityType

\* A new file counts for the user who uploads it, and for nobody else.
LEMMA FreshGrows ==
    ASSUME RecordInv, NEW p \in Request, UploadCommit(p), NEW u
    PROVE  /\ u # request[p].by => FreshIn(uploads', u) = FreshIn(uploads, u)
           /\ Cardinality(FreshIn(uploads', u)) <= Cardinality(FreshIn(uploads, u)) + 1
  <1> USE DEF RecordInv
  <1> DEFINE n == Len(uploads) + 1
  <1>1. /\ Len(uploads) \in Nat /\ Len(uploads') = n
        /\ \A f \in Uploads : uploads'[f] = uploads[f]
        /\ uploads'[n].by = request[p].by
    BY UploadWritten DEF RowsOK
  <1>2. Uploads' = Uploads \cup {n} /\ n \notin Uploads
    BY <1>1 DEF Uploads
  <1>3. \A f \in Uploads : f \in FreshIn(uploads', u) <=> f \in FreshIn(uploads, u)
    BY <1>1, <1>2 DEF FreshIn, Uploads
  <1>4. FreshIn(uploads', u) = FreshIn(uploads, u) \/ FreshIn(uploads', u) = FreshIn(uploads, u) \cup {n}
    BY <1>2, <1>3 DEF FreshIn, Uploads
  <1>5. ASSUME u # request[p].by
        PROVE  FreshIn(uploads', u) = FreshIn(uploads, u)
    BY <1>1, <1>2, <1>3, <1>5 DEF FreshIn, Uploads
  <1>6. /\ IsFiniteSet(FreshIn(uploads, u)) /\ Cardinality(FreshIn(uploads, u)) \in Nat
        /\ n \notin FreshIn(uploads, u)
    <2>1. IsFiniteSet(FreshIn(uploads, u)) /\ Cardinality(FreshIn(uploads, u)) \in Nat
      BY <1>1, FreshFinite
    <2>2. n \notin FreshIn(uploads, u)
      BY <1>2 DEF FreshIn, Uploads
    <2>3. QED
      BY <2>1, <2>2
  <1>7. Cardinality(FreshIn(uploads, u) \cup {n}) = Cardinality(FreshIn(uploads, u)) + 1
    BY <1>6, FS_AddElement
  <1>8. Cardinality(FreshIn(uploads', u)) <= Cardinality(FreshIn(uploads, u)) + 1
    <2>1. CASE FreshIn(uploads', u) = FreshIn(uploads, u)
      BY <1>6, <2>1
    <2>2. CASE FreshIn(uploads', u) = FreshIn(uploads, u) \cup {n}
      BY <1>6, <1>7, <2>2
    <2>3. QED
      BY <1>4, <2>1, <2>2
  <1>9. QED
    BY <1>5, <1>8

\* Nothing else counts more files than before.
LEMMA FreshShrinks ==
    ASSUME RecordInv, [RecordsNext]_allVars, ~\E p \in Request : UploadCommit(p), NEW u
    PROVE  /\ Len(uploads') = Len(uploads)
           /\ Cardinality(FreshIn(uploads', u)) <= Cardinality(FreshIn(uploads, u))
           /\ Cardinality(FreshIn(uploads', u)) \in Nat
  <1> USE DEF RecordInv
  <1>1. /\ Len(uploads') = Len(uploads)
        /\ \A f \in Uploads : /\ uploads'[f].by = uploads[f].by
                              /\ uploads'[f].fresh => uploads[f].fresh
    BY IntakeWriters, UploadsOlder, FilesAttached
  <1>2. FreshIn(uploads', u) \subseteq FreshIn(uploads, u)
    BY <1>1 DEF FreshIn, Uploads
  <1>3. IsFiniteSet(FreshIn(uploads, u)) /\ Cardinality(FreshIn(uploads, u)) \in Nat
    BY FreshFinite
  <1>4. /\ IsFiniteSet(FreshIn(uploads', u))
        /\ Cardinality(FreshIn(uploads', u)) <= Cardinality(FreshIn(uploads, u))
    BY <1>2, <1>3, FS_Subset
  <1>5. QED
    BY <1>1, <1>4, FS_CardinalityType

\* The limit holds after a step that stores no file, for the users and for
\* those about to store one.
LEMMA FewerFiles ==
    ASSUME RecordInv, UploadsInv, [RecordsNext]_allVars, ~\E p \in Request : UploadCommit(p)
    PROVE  /\ \A u \in Users : Cardinality(FreshIn(uploads', u)) <= MaxUploads
           /\ \A q \in Request :
                Storing(q)' => Cardinality(FreshIn(uploads', request'[q].by)) < MaxUploads
  <1>0. /\ Len(uploads) \in Nat /\ MaxUploads \in Nat
        /\ \A u : Cardinality(FreshIn(uploads, u)) \in Nat
    BY RecordsAssumption, FreshFinite DEF RecordInv, RowsOK
  <1>1. ASSUME NEW u \in Users
        PROVE  Cardinality(FreshIn(uploads', u)) <= MaxUploads
    <2>1. Cardinality(FreshIn(uploads, u)) <= MaxUploads
      BY DEF UploadsInv
    <2>2. QED
      BY <1>0, <2>1, FreshShrinks
  <1>2. ASSUME NEW q \in Request, Storing(q)'
        PROVE  Cardinality(FreshIn(uploads', request'[q].by)) < MaxUploads
    <2>1. Cardinality(FreshIn(uploads, request'[q].by)) < MaxUploads
      BY <1>2, FilesStep
    <2>2. QED
      BY <1>0, <2>1, FreshShrinks
  <1>3. QED
    BY <1>1, <1>2

LEMMA UploadsKept ==
    ASSUME RecordInv, UploadsInv, [RecordsNext]_allVars
    PROVE  UploadsInv'
  <1> USE DEF RecordInv
  <1>0. /\ Len(uploads) \in Nat /\ Len(complaints) \in Nat /\ MaxUploads \in Nat
        /\ \A u : Cardinality(FreshIn(uploads, u)) \in Nat
    BY RecordsAssumption, FreshFinite DEF RowsOK
  <1>1. ASSUME NEW p \in Request, UploadCommit(p)
        PROVE  UploadsInv'
    <2>1. /\ Storing(p) /\ <<"user", request[p].by>> \in held[p]
          /\ Ends(p) /\ request[p].op # "idle"
      BY <1>1 DEF UploadCommit, Ends, Holding, Is, At, Storing
    <2>2. /\ Uploads \subseteq Uploads' /\ \A f \in Uploads : uploads'[f] = uploads[f]
          /\ complaints' = complaints
      <3>1. /\ Len(uploads') = Len(uploads) + 1
            /\ \A f \in Uploads : uploads'[f] = uploads[f]
        BY <1>1, UploadWritten
      <3>2. QED
        BY <1>0, <1>1, <3>1 DEF Uploads, UploadCommit
    <2>3. \A c \in 1..Len(complaints') : \A f \in complaints'[c].files :
             f \in Uploads' /\ uploads'[f].complaint = c
      BY <2>2 DEF UploadsInv
    <2>4. ASSUME NEW u \in Users
          PROVE  Cardinality(FreshIn(uploads', u)) <= MaxUploads
      <3>1. CASE u = request[p].by
        <4>1. Cardinality(FreshIn(uploads, u)) < MaxUploads
          BY <2>1, <3>1 DEF UploadsInv
        <4>2. Cardinality(FreshIn(uploads', u)) <= Cardinality(FreshIn(uploads, u)) + 1
          BY <1>1, FreshGrows
        <4>3. Cardinality(FreshIn(uploads, u)) \in Nat
          BY <1>0
        <4>4. Cardinality(FreshIn(uploads', u)) \in Nat
          <5>1. Len(uploads') \in Nat
            BY <1>0, <1>1, UploadWritten
          <5>2. QED
            BY <5>1, FreshFinite
        <4>5. QED
          BY <1>0, <4>1, <4>2, <4>3, <4>4
      <3>2. CASE u # request[p].by
        <4>1. FreshIn(uploads', u) = FreshIn(uploads, u)
          BY <1>1, <3>2, FreshGrows
        <4>2. QED
          BY <4>1 DEF UploadsInv
      <3>3. QED
        BY <3>1, <3>2
    <2>5. ASSUME NEW q \in Request, Storing(q)'
          PROVE  Cardinality(FreshIn(uploads', request'[q].by)) < MaxUploads
      <3>1. p # q
        BY <2>1, <2>5, EndStep, IdleShape DEF Done, Storing, Is
      <3>2. Same(q)
        BY <2>1, <3>1, EndStep DEF Alone
      <3>3. Storing(q) /\ request'[q].by = request[q].by
        BY <2>5, <3>2 DEF Same, Storing, Is
      <3>4. <<"user", request[q].by>> \in held[q]
        BY <3>3 DEF Holding, Storing, Is
      <3>5. request[q].by # request[p].by
        BY <2>1, <3>1, <3>4 DEF Exclusive
      <3>6. Cardinality(FreshIn(uploads, request[q].by)) < MaxUploads
        BY <3>3 DEF UploadsInv
      <3>7. QED
        BY <1>1, <3>3, <3>5, <3>6, FreshGrows
    <2>6. \A q \in Request :
             /\ request'[q].op = "register" => request'[q].files \subseteq Uploads'
             /\ Attaches(q)' => \A f \in request'[q].files : uploads'[f].complaint = 0
      <3>1. ASSUME NEW q \in Request
            PROVE  /\ request'[q].op = "register" => request'[q].files \subseteq Uploads
                   /\ Attaches(q)' => /\ request'[q].op = "register"
                                      /\ \A f \in request'[q].files : uploads[f].complaint = 0
        BY FilesStep DEF Attaches, At
      <3>2. QED
        BY <2>2, <3>1
    <2>7. QED
      BY <2>3, <2>4, <2>5, <2>6, Zenon DEF UploadsInv
  <1>2. ASSUME NEW p \in Request, RegisterCommit(p)
        PROVE  UploadsInv'
    <2> DEFINE id == Len(complaints) + 1
    <2>1. /\ Attaches(p) /\ Ends(p) /\ request[p].op = "register"
          /\ \A f \in request[p].files : <<"upload", f>> \in held[p]
      BY <1>2 DEF RegisterCommit, Ends, Holding, Is, At, Attaches
    <2>2. /\ request[p].files \subseteq Uploads
          /\ \A f \in request[p].files : uploads[f].complaint = 0
      BY <2>1 DEF UploadsInv
    <2>3. /\ Uploads' = Uploads
          /\ \A f \in Uploads :
               uploads'[f].complaint = IF f \in request[p].files THEN id ELSE uploads[f].complaint
      BY <1>2, FilesAttached DEF Uploads
    <2>4. /\ Len(complaints') = id
          /\ \A c \in 1..Len(complaints) : complaints'[c] = complaints[c]
          /\ complaints'[id].files = request[p].files
      BY <1>2, ComplaintWritten
    <2>5. ASSUME NEW c \in 1..Len(complaints'), NEW f \in complaints'[c].files
          PROVE  f \in Uploads' /\ uploads'[f].complaint = c
      <3>1. CASE c = id
        BY <2>2, <2>3, <2>4, <2>5, <3>1
      <3>2. CASE c # id
        <4>1. c \in 1..Len(complaints) /\ c # 0 /\ f \in complaints[c].files
          BY <1>0, <2>4, <2>5, <3>2
        <4>2. f \in Uploads /\ uploads[f].complaint = c
          BY <4>1 DEF UploadsInv
        <4>3. QED
          BY <2>2, <2>3, <4>1, <4>2
      <3>3. QED
        BY <3>1, <3>2
    <2>6. ~\E q \in Request : UploadCommit(q)
      <3>1. ASSUME NEW q \in Request, UploadCommit(q)
            PROVE  FALSE
        <4>1. Ends(q) /\ request[q].op = "upload"
          BY <3>1 DEF Ends, UploadCommit, At
        <4>2. p = q
          BY <2>1, <4>1, OneEnds
        <4>3. QED
          BY <2>1, <4>1, <4>2
      <3>2. QED
        BY <3>1
    <2>7. ASSUME NEW q \in Request
          PROVE  /\ request'[q].op = "register" => request'[q].files \subseteq Uploads'
                 /\ Attaches(q)' => \A f \in request'[q].files : uploads'[f].complaint = 0
      <3>1. /\ request'[q].op = "register" => request'[q].files \subseteq Uploads
            /\ Attaches(q)' => \A f \in request'[q].files : uploads[f].complaint = 0
        BY FilesStep
      <3>2. ASSUME Attaches(q)', NEW f \in request'[q].files
            PROVE  f \in Uploads /\ f \notin request[p].files
        <4>1. p # q /\ request'[q].op = "register"
          BY <2>1, <3>2, EndStep, IdleShape DEF Done, Attaches, At
        <4>2. Same(q)
          BY <2>1, <4>1, EndStep DEF Alone
        <4>3. <<"upload", f>> \in held[q]
          BY <3>2, <4>2 DEF Same, Holding, Attaches, At, Is
        <4>4. f \notin request[p].files
          BY <2>1, <4>1, <4>3 DEF Exclusive
        <4>5. QED
          BY <3>1, <3>2, <4>1, <4>4
      <3>3. QED
        BY <2>3, <3>1, <3>2
    <2>8. QED
      BY <2>5, <2>6, <2>7, FewerFiles DEF UploadsInv
  <1>3. CASE ~\E p \in Request : UploadCommit(p) \/ RegisterCommit(p)
    <2>1. /\ Uploads' = Uploads
          /\ \A f \in Uploads : uploads'[f].complaint = uploads[f].complaint
      BY <1>3, IntakeWriters, UploadsOlder DEF Uploads
    <2>2. /\ Len(complaints') = Len(complaints)
          /\ \A c \in 1..Len(complaints) : complaints'[c].files = complaints[c].files
      BY <1>3, IntakeWriters, ComplaintRefused
    <2>3. \A c \in 1..Len(complaints') : \A f \in complaints'[c].files :
             f \in Uploads' /\ uploads'[f].complaint = c
      BY <2>1, <2>2 DEF UploadsInv
    <2>4. ASSUME NEW q \in Request
          PROVE  /\ request'[q].op = "register" => request'[q].files \subseteq Uploads'
                 /\ Attaches(q)' => \A f \in request'[q].files : uploads'[f].complaint = 0
      <3>1. /\ request'[q].op = "register" => request'[q].files \subseteq Uploads
            /\ Attaches(q)' => /\ request'[q].op = "register"
                               /\ \A f \in request'[q].files : uploads[f].complaint = 0
        BY FilesStep DEF Attaches, At
      <3>2. QED
        BY <2>1, <3>1
    <2>5. QED
      BY <1>3, <2>3, <2>4, FewerFiles, Zenon DEF UploadsInv
  <1>4. QED
    BY <1>1, <1>2, <1>3

-----------------------------------------------------------------------------
(***************************************************************************)
(* What an upload or a registration has checked of its complaint and files.*)
(***************************************************************************)
\* What a step checks, before the rows change.
LEMMA ScopeStep ==
    ASSUME RecordInv, ScopesInv, [RecordsNext]_allVars, NEW q \in Request
    PROVE  /\ Attaches(q)' => \A f \in request'[q].files : uploads[f].by = request'[q].by
           /\ Storing(q)' /\ request'[q].row # 0 =>
                /\ request'[q].row \in 1..Len(complaints)
                /\ \/ complaints[request'[q].row].owner = request'[q].by
                   \/ /\ request'[q].by \in DeskOfficer
                      /\ complaints[request'[q].row].open
                      /\ <<"complaint", request'[q].row>> \in held'[q]
                      /\ Storing(q) => <<"complaint", request'[q].row>> \in held[q]
  <1> USE DEF RecordInv
  <1>0. request[q].op = "upload" => request[q].row \in 0..Len(complaints)
    BY DEF Asked
  <1>1. CASE Same(q)
    <2>1. /\ request'[q] = request[q] /\ held'[q] = held[q]
          /\ Attaches(q)' = Attaches(q) /\ Storing(q)' = Storing(q)
      BY <1>1 DEF Same, Attaches, Storing, At, Is
    <2>2. Scoped(q) /\ OwnFiles(q)
      BY DEF ScopesInv
    <2>3. Storing(q) => request[q].op = "upload"
      BY DEF Storing, Is
    <2>4. QED
      BY <1>0, <2>1, <2>2, <2>3 DEF Scoped, OwnFiles
  <1>2. CASE IntakeGoes(q)
    <2>1. ASSUME Attaches(q)'
          PROVE  \A f \in request'[q].files : uploads[f].by = request'[q].by
      BY <1>2, <2>1 DEF IntakeGoes, Goes, Advance, Attaches, At
    <2>2. ASSUME Storing(q)'
          PROVE  /\ request[q].op = "upload" /\ request[q].at = "case"
                 /\ Advance(q, "save") /\ Locks(q, ScopeLock(q)) /\ ScopeSeen(q)
      BY <1>2, <2>2 DEF IntakeGoes, Goes, Advance, Storing, Is, At
    <2>3. ASSUME Storing(q)', request'[q].row # 0
          PROVE  /\ request'[q].row \in 1..Len(complaints)
                 /\ \/ complaints[request'[q].row].owner = request'[q].by
                    \/ /\ request'[q].by \in DeskOfficer
                       /\ complaints[request'[q].row].open
                       /\ <<"complaint", request'[q].row>> \in held'[q]
                       /\ ~Storing(q)
      <3>1. /\ request[q].op = "upload" /\ request[q].at = "case"
            /\ Advance(q, "save") /\ Locks(q, ScopeLock(q)) /\ ScopeSeen(q)
        BY <2>2, <2>3
      <3>2. request'[q].row = request[q].row /\ request'[q].by = request[q].by
        BY <3>1 DEF Advance
      <3>3. request[q].row \in 1..Len(complaints)
        BY <1>0, <2>3, <3>1, <3>2 DEF RowsOK
      <3>4. ScopeLock(q) \subseteq held'[q]
        BY <3>1 DEF Locks
      <3>5. ~Storing(q)
        BY <3>1 DEF Storing, Is
      <3>6. QED
        BY <2>3, <3>1, <3>2, <3>3, <3>4, <3>5 DEF ScopeSeen, ScopeLock
    <2>4. QED
      BY <2>1, <2>3
  <1>3. CASE SaveGoes(q)
    <2>1. /\ request'[q].op \in {"document", "upload"} /\ ~Attaches(q)'
          /\ request'[q].by = request[q].by /\ request'[q].row = request[q].row
          /\ held'[q] = held[q]
      BY <1>3 DEF SaveGoes, Advance, At, Attaches
    <2>2. Storing(q)' => Storing(q) /\ request[q].op = "upload"
      BY <1>3 DEF SaveGoes, Advance, At, Is, Storing
    <2>3. Scoped(q)
      BY DEF ScopesInv
    <2>4. QED
      BY <1>0, <2>1, <2>2, <2>3 DEF Scoped
  <1>4. CASE Begun(q) /\ Asking(q)
    <2>1. <<request'[q].op, request'[q].at>> \in Starts
      BY <1>4 DEF Begun
    <2>2. QED
      BY <2>1 DEF Starts, Attaches, Storing, At, Is
  <1>5. CASE Done(q) \/ RecordGoes(q)
    <2>1. request'[q].op \notin {"register", "upload"}
      BY <1>5, IdleShape DEF Done, RecordGoes, Goes, Advance, At
    <2>2. QED
      BY <2>1 DEF Attaches, Storing, At, Is
  <1>6. QED
    BY <1>1, <1>2, <1>3, <1>4, <1>5, NextMoves DEF Moves

\* Files keep their users and complaints their owners, and a locked complaint stays open.
LEMMA UsersStay ==
    ASSUME RecordInv, [RecordsNext]_allVars
    PROVE  /\ Uploads \subseteq Uploads'
           /\ \A f \in Uploads : uploads'[f].by = uploads[f].by
           /\ \A c \in 1..Len(complaints) :
                /\ complaints'[c].owner = complaints[c].owner
                /\ complaints[c].open /\ (Refuse => \E q \in Request : <<"complaint", c>> \in held[q])
                   => complaints'[c].open
  <1> USE DEF RecordInv
  <1>1. Len(uploads) \in Nat
    BY DEF RowsOK
  <1>2. /\ Len(uploads') = Len(uploads) \/ Len(uploads') = Len(uploads) + 1
        /\ \A f \in Uploads : uploads'[f].by = uploads[f].by
    BY IntakeWriters, FilesAttached, UploadsOlder, UploadWritten
  <1>3. Uploads \subseteq Uploads'
    BY <1>1, <1>2 DEF Uploads
  <1>4. ASSUME NEW c \in 1..Len(complaints)
        PROVE  /\ complaints'[c].owner = complaints[c].owner
               /\ complaints[c].open /\ (Refuse => \E q \in Request : <<"complaint", c>> \in held[q])
                  => complaints'[c].open
    <2>1. CASE Refuse
      BY <2>1, ComplaintRefused
    <2>2. CASE \E p \in Request : RegisterCommit(p)
      BY <2>2, ComplaintWritten
    <2>3. CASE complaints' = complaints
      BY <2>3
    <2>4. QED
      BY <2>1, <2>2, <2>3, IntakeWriters
  <1>5. QED
    BY <1>2, <1>3, <1>4

LEMMA ScopesKept ==
    ASSUME RecordInv, UploadsInv, ScopesInv, [RecordsNext]_allVars
    PROVE  ScopesInv'
  <1> USE DEF RecordInv
  <1>1. ASSUME NEW q \in Request, Attaches(q)'
        PROVE  \A f \in request'[q].files : uploads'[f].by = request'[q].by
    <2>1. request'[q].op = "register"
      BY <1>1 DEF Attaches, At
    <2>2. request'[q].files \subseteq Uploads
      BY <2>1, FilesStep
    <2>3. \A f \in request'[q].files : uploads[f].by = request'[q].by
      BY <1>1, ScopeStep
    <2>4. QED
      BY <2>2, <2>3, UsersStay
  <1>2. ASSUME NEW q \in Request, Storing(q)', request'[q].row # 0
        PROVE  LET c == request'[q].row
               IN  \/ complaints'[c].owner = request'[q].by
                   \/ /\ request'[q].by \in DeskOfficer
                      /\ complaints'[c].open /\ <<"complaint", c>> \in held'[q]
    <2> DEFINE c == request'[q].row
    <2>1. c \in 1..Len(complaints)
      BY <1>2, ScopeStep
    <2>2. CASE complaints[c].owner = request'[q].by
      BY <2>1, <2>2, UsersStay
    <2>3. CASE complaints[c].owner # request'[q].by
      <3>1. /\ request'[q].by \in DeskOfficer
            /\ complaints[c].open /\ <<"complaint", c>> \in held'[q]
            /\ Storing(q) => <<"complaint", c>> \in held[q]
        BY <1>2, <2>3, ScopeStep
      <3>2. Refuse => Storing(q)
        BY <1>2 DEF Refuse, transactionVars, Storing, Is
      <3>3. complaints'[c].open
        BY <2>1, <3>1, <3>2, UsersStay
      <3>4. QED
        BY <3>1, <3>3
    <2>4. QED
      BY <2>2, <2>3
  <1>3. QED
    BY <1>1, <1>2 DEF ScopesInv, Scoped, OwnFiles

-----------------------------------------------------------------------------
(***************************************************************************)
(* Consents.                                                               *)
(***************************************************************************)
\* Consents stay; they get older and more often tried, and are used for good.
LEMMA ConsentsForward ==
    ASSUME RecordInv, [RecordsNext]_allVars
    PROVE  /\ Len(consents) \in Nat /\ Len(consents') \in Nat /\ Consents \subseteq Consents'
           /\ \A n \in Consents :
                /\ consents[n].age \in Nat /\ consents'[n].age \in Nat
                /\ consents'[n].address = consents[n].address
                /\ consents'[n].age >= consents[n].age
                /\ consents[n].used => consents'[n].used
  <1> USE DEF RecordInv
  <1>1. Len(consents) \in Nat /\ \A n \in Consents : consents[n].age \in Nat
    BY ConsentNumbers DEF Consents
  <1>2. CASE consents' = consents
    BY <1>1, <1>2 DEF Consents
  <1>3. CASE ConsentsAge
    <2>1. /\ consents' \in Seq(ConsentRow) /\ Len(consents') = Len(consents)
          /\ \A n \in Consents :
               /\ consents'[n].address = consents[n].address
               /\ consents'[n].used = consents[n].used
               /\ consents'[n].age >= consents[n].age
      BY <1>3, ConsentsOlder
    <2>2. \A n \in Consents : consents'[n] \in ConsentRow
      BY <2>1 DEF Consents
    <2>3. QED
      BY <1>1, <2>1, <2>2 DEF Consents, ConsentRow
  <1>4. ASSUME NEW p \in Request, ConsentCommit(p)
        PROVE  /\ Len(consents') = Len(consents) + 1
               /\ \A n \in Consents :
                    /\ consents'[n].address = consents[n].address
                    /\ consents'[n].age = consents[n].age
                    /\ consents[n].used => consents'[n].used
    BY <1>4, ConsentWritten
  <1>5. ASSUME NEW p \in Request, CodeDenied(p)
        PROVE  /\ Len(consents') = Len(consents)
               /\ \A n \in Consents :
                    /\ consents'[n].address = consents[n].address
                    /\ consents'[n].age = consents[n].age
                    /\ consents[n].used => consents'[n].used
    BY <1>5, DenialWritten
  <1>6. ASSUME NEW p \in Request, RegisterCommit(p)
        PROVE  /\ Len(consents') = Len(consents)
               /\ \A n \in Consents :
                    /\ consents'[n].address = consents[n].address
                    /\ consents'[n].age = consents[n].age
                    /\ consents[n].used => consents'[n].used
    BY <1>6, ConsentUsed
  <1>7. CASE \E p \in Request : ConsentCommit(p) \/ CodeDenied(p) \/ RegisterCommit(p)
    <2>1. /\ Len(consents') = Len(consents) \/ Len(consents') = Len(consents) + 1
          /\ \A n \in Consents :
               /\ consents'[n].address = consents[n].address
               /\ consents'[n].age = consents[n].age
               /\ consents[n].used => consents'[n].used
      BY <1>4, <1>5, <1>6, <1>7
    <2>2. QED
      BY <1>1, <2>1 DEF Consents
  <1>8. QED
    BY <1>2, <1>3, <1>7, IntakeWriters

LEMMA GuessedKept ==
    ASSUME RecordInv, Guessed, [RecordsNext]_allVars
    PROVE  Guessed'
  <1> USE DEF RecordInv
  <1>0. /\ Len(consents) \in Nat /\ Len(guesses) = Len(consents) /\ MaxGuesses \in Nat
        /\ \A n \in Consents : consents[n].attempts \in Nat /\ guesses[n] \in Nat
    BY RecordsAssumption, ConsentNumbers DEF RowsOK, Consents
  <1>1. ASSUME NEW p \in Request, ConsentCommit(p)
        PROVE  Guessed'
    <2>1. /\ Len(consents') = Len(consents) + 1
          /\ \A n \in Consents : guesses'[n] = guesses[n]
                                 /\ consents'[n].attempts = consents[n].attempts
          /\ guesses'[Len(consents) + 1] = 0 /\ consents'[Len(consents) + 1].attempts = 0
      BY <1>0, <1>1, ConsentWritten DEF Consents
    <2>2. QED
      BY <1>0, <2>1 DEF Guessed, Consents
  <1>2. ASSUME NEW p \in Request, CodeDenied(p)
        PROVE  Guessed'
    <2> DEFINE k == request[p].row
    <2>1. /\ k \in Consents /\ Len(consents') = Len(consents)
          /\ \A n \in Consents : n # k => consents'[n] = consents[n] /\ guesses'[n] = guesses[n]
          /\ consents'[k].attempts >= consents[k].attempts
          /\ IF Usable(p)
               THEN guesses'[k] = guesses[k] + 1 /\ consents'[k].attempts = consents[k].attempts + 1
               ELSE guesses'[k] = guesses[k]
      BY <1>2, DenialWritten
    <2>2. Usable(p) => consents[k].attempts + 1 <= MaxGuesses
      BY DEF Usable
    <2>3. consents'[k].attempts \in Nat
      <3>1. consents' \in Seq(ConsentRow)
        BY GuessesLevel
      <3>2. consents'[k] \in ConsentRow
        BY <2>1, <3>1 DEF Consents
      <3>3. QED
        BY <3>2 DEF ConsentRow
    <2>4. guesses'[k] <= MaxGuesses /\ guesses'[k] <= consents'[k].attempts
      <3>1. /\ consents[k].attempts \in Nat /\ guesses[k] \in Nat
            /\ guesses[k] <= MaxGuesses /\ guesses[k] <= consents[k].attempts
        BY <1>0, <2>1 DEF Guessed
      <3> HIDE DEF k
      <3>2. CASE Usable(p)
        BY <1>0, <2>1, <2>2, <2>3, <3>1, <3>2
      <3>3. CASE ~Usable(p)
        BY <1>0, <2>1, <2>3, <3>1, <3>3
      <3>4. QED
        BY <3>2, <3>3
    <2> HIDE DEF k
    <2>5. QED
      BY <2>1, <2>4 DEF Guessed, Consents
  <1>3. CASE ~\E p \in Request : ConsentCommit(p) \/ CodeDenied(p)
    <2>1. guesses' = guesses
      BY <1>3, IntakeWriters
    <2>2. /\ Len(consents') = Len(consents)
          /\ \A n \in Consents : consents'[n].attempts >= consents[n].attempts
      <3>1. CASE consents' = consents
        BY <1>0, <3>1
      <3>2. CASE ConsentsAge
        BY <1>0, <3>2, ConsentsOlder
      <3>3. ASSUME NEW p \in Request, RegisterCommit(p)
            PROVE  /\ Len(consents') = Len(consents)
                   /\ \A n \in Consents : consents'[n].attempts >= consents[n].attempts
        BY <3>3, ConsentUsed
      <3>4. QED
        BY <1>3, <3>1, <3>2, <3>3, IntakeWriters
    <2>3. \A n \in Consents : consents'[n].attempts \in Nat
      <3>1. consents' \in Seq(ConsentRow)
        BY GuessesLevel
      <3>2. \A n \in Consents : consents'[n] \in ConsentRow
        BY <2>2, <3>1 DEF Consents
      <3>3. QED
        BY <3>2 DEF ConsentRow
    <2>4. QED
      BY <1>0, <2>1, <2>2, <2>3 DEF Guessed, Consents
  <1>4. QED
    BY <1>1, <1>2, <1>3

\* A consent is used by a transaction that has its row locked.
LEMMA UserHolds ==
    ASSUME RecordInv, [RecordsNext]_allVars, NEW n \in Consents,
           ~consents[n].used, consents'[n].used
    PROVE  \E p \in Request :
              Ends(p) /\ request[p].op # "idle" /\ <<"consent", n>> \in held[p]
  <1> USE DEF RecordInv
  <1>1. ~ConsentsAge
    BY ConsentsOlder
  <1>2. \A p \in Request : ~CodeDenied(p)
    BY DenialWritten
  <1>3. ASSUME NEW p \in Request, ConsentCommit(p)
        PROVE  Ends(p) /\ request[p].op # "idle" /\ <<"consent", n>> \in held[p]
    <2>1. n \in request[p].seen
      BY <1>3, ConsentWritten
    <2>2. QED
      BY <1>3, <2>1 DEF ConsentCommit, Ends, Holding, Is, At
  <1>4. ASSUME NEW p \in Request, RegisterCommit(p)
        PROVE  Ends(p) /\ request[p].op # "idle" /\ <<"consent", n>> \in held[p]
    <2>1. n = request[p].row
      BY <1>4, ConsentUsed
    <2>2. n # 0
      BY ConsentNumbers DEF Consents
    <2>3. QED
      BY <1>4, <2>1, <2>2 DEF RegisterCommit, Ends, Holding, Is, At
  <1>5. consents' # consents
    OBVIOUS
  <1>6. QED
    BY <1>1, <1>2, <1>3, <1>4, <1>5, IntakeWriters

\* A consent is new through the one transaction that has its address locked.
LEMMA InserterHolds ==
    ASSUME RecordInv, [RecordsNext]_allVars, NEW n \in Consents', n \notin Consents
    PROVE  \E p \in Request :
              /\ ConsentCommit(p) /\ n = Len(consents) + 1
              /\ Ends(p) /\ request[p].op # "idle" /\ Inserting(p)
              /\ <<"intake-recipient", request[p].what>> \in held[p]
              /\ consents'[n].address = request[p].what
  <1> USE DEF RecordInv
  <1>1. Len(consents') # Len(consents)
    BY DEF Consents
  <1>2. PICK p \in Request : ConsentCommit(p)
    BY <1>1, IntakeWriters, ConsentsOlder, DenialWritten, ConsentUsed
  <1>3. /\ Len(consents) \in Nat /\ Len(consents') = Len(consents) + 1
        /\ consents'[Len(consents) + 1].address = request[p].what
    BY <1>2, ConsentWritten, ConsentNumbers
  <1>4. n = Len(consents) + 1
    BY <1>3 DEF Consents
  <1>5. /\ Ends(p) /\ request[p].op # "idle" /\ Inserting(p)
        /\ <<"intake-recipient", request[p].what>> \in held[p]
    BY <1>2 DEF ConsentCommit, Ends, Holding, Is, At, Inserting
  <1>6. QED
    BY <1>2, <1>3, <1>4, <1>5

\* What the locks have shown of the consents.
LEMMA ClaimStep ==
    ASSUME RecordInv, Claimed, [RecordsNext]_allVars, NEW q \in Request
    PROVE  /\ Inserting(q)' =>
                \A n \in Consents : Recent(n) /\ ~consents[n].used
                      /\ consents[n].address = request'[q].what => n \in request'[q].seen
           /\ Linking(q)' => /\ request'[q].row \in Consents
                             /\ ~consents[request'[q].row].used
  <1> USE DEF RecordInv
  <1>0. request[q].op = "register" /\ request[q].row # 0 => request[q].row \in Consents
    <2>1. Len(consents) \in Nat
      BY ConsentNumbers
    <2>2. request[q].op = "register" => request[q].row \in 0..Len(consents)
      BY DEF Asked
    <2>3. QED
      BY <2>1, <2>2 DEF Consents
  <1>1. CASE Same(q)
    <2>1. /\ request'[q] = request[q] /\ Inserting(q)' = Inserting(q) /\ Linking(q)' = Linking(q)
      BY <1>1 DEF Same, Inserting, Linking, At, Is
    <2>2. Linking(q) => request[q].row \in Consents
      BY <1>0 DEF Linking, Is
    <2>3. QED
      BY <2>1, <2>2 DEF Claimed
  <1>2. CASE IntakeGoes(q)
    <2>1. ASSUME Inserting(q)'
          PROVE  request'[q].seen = Replaced(q) /\ request'[q].what = request[q].what
      BY <1>2, <2>1 DEF IntakeGoes, Goes, Advance, At, Learns, Inserting
    <2>2. ASSUME Linking(q)'
          PROVE  request'[q].row \in Consents /\ ~consents[request'[q].row].used
      <3>1. /\ request'[q].op = "register" /\ request'[q].at \in {"number", "profile", "files", "commit"}
            /\ request'[q].row # 0
        BY <2>2 DEF Linking, Is
      <3>2. /\ request[q].op = "register" /\ request'[q].row = request[q].row
        BY <1>2, <3>1 DEF IntakeGoes, Goes, Advance, At
      <3>3. request[q].row \in Consents
        BY <1>0, <3>1, <3>2
      <3>4. \/ request[q].at = "code" /\ Usable(q)
            \/ request[q].at = "owner"
            \/ request[q].at \in {"number", "profile", "files"}
        BY <1>2, <3>1 DEF IntakeGoes, Goes, Advance, At
      <3>5. request[q].at # "owner"
        BY <3>1, <3>2 DEF Asked
      <3>6. request[q].at \in {"number", "profile", "files"} => ~consents[request[q].row].used
        BY <3>1, <3>2 DEF Claimed, Linking, Is
      <3>7. Usable(q) => ~consents[request[q].row].used
        BY DEF Usable
      <3>8. QED
        BY <3>2, <3>3, <3>4, <3>5, <3>6, <3>7
    <2>3. QED
      BY <2>1, <2>2 DEF Replaced
  <1>3. CASE Begun(q) /\ Asking(q)
    <2>1. <<request'[q].op, request'[q].at>> \in Starts
      BY <1>3 DEF Begun
    <2>2. ~Inserting(q)'
      BY <2>1 DEF Starts, Inserting, At
    <2>3. Linking(q)' => request'[q].op = "register" /\ request'[q].at = "number"
      BY <2>1 DEF Starts, Linking, Is
    <2>4. ~Linking(q)'
      BY <1>3, <2>3 DEF Asking, Linking, Is
    <2>5. QED
      BY <2>2, <2>4
  <1>4. CASE Done(q) \/ RecordGoes(q) \/ SaveGoes(q)
    <2>1. request'[q].op \notin {"register", "consent"}
      BY <1>4, IdleShape DEF Done, RecordGoes, SaveGoes, Goes, Advance, At
    <2>2. QED
      BY <2>1 DEF Inserting, Linking, At, Is
  <1>5. QED
    BY <1>1, <1>2, <1>3, <1>4, NextMoves DEF Moves

\* Who has a consent or an address locked goes on while another transaction ends.
LEMMA LockStands ==
    ASSUME RecordInv, [RecordsNext]_allVars, NEW p \in Request, NEW q \in Request,
           Ends(p), request[p].op # "idle", request'[q].op # "idle"
    PROVE  p # q /\ Same(q)
  <1>1. p # q
    BY EndStep, IdleShape DEF RecordInv, Done
  <1>2. QED
    BY <1>1, EndStep DEF RecordInv, Alone

LEMMA ClaimedKept ==
    ASSUME RecordInv, Claimed, [RecordsNext]_allVars
    PROVE  Claimed'
  <1> USE DEF RecordInv
  <1>1. ASSUME NEW q \in Request, Linking(q)'
        PROVE  ~consents'[request'[q].row].used
    <2> DEFINE n == request'[q].row
    <2>1. n \in Consents /\ ~consents[n].used /\ request'[q].op # "idle"
      BY <1>1, ClaimStep DEF Linking, Is
    <2>2. ASSUME consents'[n].used
          PROVE  FALSE
      <3>1. PICK p \in Request :
                Ends(p) /\ request[p].op # "idle" /\ <<"consent", n>> \in held[p]
        BY <2>1, <2>2, UserHolds
      <3>2. p # q /\ Same(q)
        BY <2>1, <3>1, LockStands
      <3>3. Linking(q) /\ n = request[q].row
        BY <1>1, <3>2 DEF Same, Linking, Is
      <3>4. <<"consent", n>> \in held[q]
        BY <3>3 DEF Holding, Linking, Is
      <3>5. QED
        BY <3>1, <3>2, <3>4 DEF Exclusive
    <2>3. QED
      BY <2>2
  <1>2. ASSUME NEW q \in Request, Inserting(q)', NEW n \in Consents',
               consents'[n].age < 3, ~consents'[n].used, consents'[n].address = request'[q].what
        PROVE  n \in request'[q].seen
    <2>1. request'[q].op # "idle"
      BY <1>2 DEF Inserting, At
    <2>2. CASE n \in Consents
      <3>1. /\ consents[n].age < 3 /\ ~consents[n].used
            /\ consents[n].address = request'[q].what
        BY <1>2, <2>2, ConsentsForward
      <3>2. QED
        BY <1>2, <2>2, <3>1, ClaimStep DEF Recent
    <2>3. CASE n \notin Consents
      <3>1. PICK p \in Request :
              /\ Ends(p) /\ request[p].op # "idle"
              /\ <<"intake-recipient", request[p].what>> \in held[p]
              /\ consents'[n].address = request[p].what
        BY <2>3, InserterHolds
      <3>2. p # q /\ Same(q)
        BY <2>1, <3>1, LockStands
      <3>3. <<"intake-recipient", request[q].what>> \in held[q] /\ request[q].what = request'[q].what
        BY <1>2, <3>2 DEF Same, Holding, Inserting, At, Is
      <3>4. QED
        BY <1>2, <3>1, <3>2, <3>3 DEF Exclusive
    <2>4. QED
      BY <2>2, <2>3
  <1>3. QED
    BY <1>1, <1>2 DEF Claimed, Recent

LEMMA OneUsableKept ==
    ASSUME RecordInv, OneUsable, Claimed, [RecordsNext]_allVars
    PROVE  OneUsable'
  <1> USE DEF RecordInv
  <1> DEFINE Live(n) == ~consents'[n].used /\ consents'[n].age < 2
  <1>1. ASSUME NEW m \in Consents', NEW n \in Consents', Live(m), Live(n),
               consents'[m].address = consents'[n].address, m \in Consents, n \notin Consents
        PROVE  FALSE
    <2>1. PICK p \in Request : ConsentCommit(p) /\ Inserting(p)
                               /\ consents'[n].address = request[p].what
      BY <1>1, InserterHolds
    <2>2. /\ consents[m].address = request[p].what /\ ~consents[m].used /\ consents[m].age < 3
      BY <1>1, <2>1, ConsentsForward
    <2>3. m \in request[p].seen
      BY <1>1, <2>1, <2>2 DEF Claimed, Recent
    <2>4. consents'[m].used
      BY <1>1, <2>1, <2>3, ConsentWritten
    <2>5. QED
      BY <1>1, <2>4
  <1>2. ASSUME NEW m \in Consents', NEW n \in Consents', Live(m), Live(n),
               consents'[m].address = consents'[n].address
        PROVE  m = n
    <2>1. CASE m \in Consents /\ n \in Consents
      <3>1. /\ consents[m].address = consents[n].address
            /\ ~consents[m].used /\ ~consents[n].used
            /\ consents[m].age < 2 /\ consents[n].age < 2
        BY <1>2, <2>1, ConsentsForward
      <3>2. QED
        BY <2>1, <3>1 DEF OneUsable
    <2>2. CASE m \notin Consents /\ n \notin Consents
      BY <2>2, InserterHolds
    <2>3. QED
      BY <1>1, <1>2, <2>1, <2>2
  <1>3. QED
    BY <1>2 DEF OneUsable

LEMMA LinkedKept ==
    ASSUME RecordInv, Linked, Claimed, [RecordsNext]_allVars
    PROVE  Linked'
  <1> USE DEF RecordInv
  <1>0. Len(complaints) \in Nat
    BY DEF RowsOK
  <1>1. ASSUME NEW p \in Request, RegisterCommit(p)
        PROVE  Linked'
    <2> DEFINE id == Len(complaints) + 1
    <2>1. /\ Len(complaints') = id
          /\ \A c \in 1..Len(complaints) : complaints'[c] = complaints[c]
          /\ complaints'[id].consent = request[p].row
      BY <1>1, ComplaintWritten
    <2>2. request[p].row # 0 => /\ request[p].row \in Consents
                                /\ ~consents[request[p].row].used
                                /\ consents'[request[p].row].used
      <3>1. request[p].row # 0 => Linking(p)
        BY <1>1 DEF RegisterCommit, Linking, At, Is
      <3>2. QED
        BY <1>1, <3>1, ConsentUsed DEF Claimed
    <2>3. ASSUME NEW c \in 1..Len(complaints), complaints[c].consent # 0
          PROVE  /\ complaints[c].consent \in Consents'
                 /\ consents'[complaints[c].consent].used
                 /\ complaints[c].consent # request[p].row
      <3>1. complaints[c].consent \in Consents /\ consents[complaints[c].consent].used
        BY <2>3 DEF Linked
      <3>2. QED
        BY <2>2, <2>3, <3>1, ConsentsForward
    <2>4. \A c \in 1..Len(complaints') :
             complaints'[c].consent # 0 =>
               complaints'[c].consent \in Consents' /\ consents'[complaints'[c].consent].used
      <3>1. Consents \subseteq Consents'
        BY ConsentsForward
      <3>2. \A c \in 1..Len(complaints') : c \in 1..Len(complaints) \/ c = id
        BY <1>0, <2>1
      <3>3. QED
        BY <2>1, <2>2, <2>3, <3>1, <3>2
    <2>5. ASSUME NEW c \in 1..Len(complaints'), NEW d \in 1..Len(complaints'), c # d,
                 complaints'[c].consent = complaints'[d].consent
          PROVE  complaints'[c].consent = 0
      <3>1. CASE c \in 1..Len(complaints) /\ d \in 1..Len(complaints)
        BY <2>1, <2>5, <3>1 DEF Linked
      <3>2. CASE c \in 1..Len(complaints) /\ d = id
        BY <2>1, <2>3, <2>5, <3>2
      <3>3. CASE c = id /\ d \in 1..Len(complaints)
        BY <2>1, <2>3, <2>5, <3>3
      <3>4. QED
        BY <1>0, <2>1, <2>5, <3>1, <3>2, <3>3
    <2>6. QED
      BY <2>4, <2>5 DEF Linked
  <1>2. CASE ~\E p \in Request : RegisterCommit(p)
    <2>1. /\ Len(complaints') = Len(complaints)
          /\ \A c \in 1..Len(complaints) : complaints'[c].consent = complaints[c].consent
      BY <1>2, IntakeWriters, ComplaintRefused
    <2>2. QED
      BY <2>1, ConsentsForward DEF Linked
  <1>3. QED
    BY <1>1, <1>2

-----------------------------------------------------------------------------
(***************************************************************************)
(* The theorems.                                                           *)
(***************************************************************************)
IntakeInv == RecordInv /\ NumbersInv /\ UploadsInv /\ ScopesInv /\ ConsentsInv

LEMMA IntakeInitially == RecordsInit => NumbersInv /\ UploadsInv /\ ScopesInv /\ ConsentsInv
  <1>1. SUFFICES ASSUME RecordsInit
                 PROVE  NumbersInv /\ UploadsInv /\ ScopesInv /\ ConsentsInv
    OBVIOUS
  <1>2. /\ request = [p \in Request |-> Idle] /\ counter = [t \in NumberTypes |-> 0]
        /\ consents = <<>> /\ uploads = <<>> /\ complaints = <<>>
    <2>1. TransactionInit /\ IntakeInit
      BY <1>1, Zenon DEF RecordsInit
    <2>2. QED
      BY <2>1, Zenon DEF TransactionInit, IntakeInit
  <1>3. \A q \in Request : request[q].op = "idle"
    BY <1>2, IdleShape
  <1>4. counter["COMPLAINT"] = 0
    BY <1>2 DEF NumberTypes
  <1>5. Len(complaints) = 0 /\ Len(uploads) = 0 /\ Len(consents) = 0
    BY <1>2
  <1>6. NumbersInv
    BY <1>3, <1>4, <1>5 DEF NumbersInv, HasNumber, Is
  <1>7. UploadsInv
    <2>1. \A u : FreshIn(uploads, u) = {}
      BY <1>5 DEF FreshIn
    <2>2. \A u : Cardinality(FreshIn(uploads, u)) <= MaxUploads
      BY <2>1, FS_EmptySet, RecordsAssumption
    <2>3. QED
      BY <1>3, <1>5, <2>2 DEF UploadsInv, Attaches, Storing, At, Is
  <1>8. ConsentsInv
    BY <1>3, <1>5 DEF ConsentsInv, Guessed, OneUsable, Linked, Claimed, Consents,
       Inserting, Linking, At, Is
  <1>9. ScopesInv
    BY <1>3 DEF ScopesInv, Scoped, OwnFiles, Storing, Attaches, At, Is
  <1>10. QED
    BY <1>6, <1>7, <1>8, <1>9

\* What handlers have seen of consents, files and numbers stands until they commit.
THEOREM IntakeInvariant == RecordsSpec => []IntakeInv
  <1>1. RecordsInit => IntakeInv
    BY RecordInitially, IntakeInitially DEF IntakeInv
  <1>2. IntakeInv /\ [RecordsNext]_allVars => IntakeInv'
    <2>1. SUFFICES ASSUME IntakeInv, [RecordsNext]_allVars
                   PROVE  IntakeInv'
      OBVIOUS
    <2>2. RecordInv /\ NumbersInv /\ UploadsInv /\ ScopesInv /\ Guessed /\ OneUsable /\ Linked /\ Claimed
      BY <2>1 DEF IntakeInv, ConsentsInv
    <2>3. RecordInv'
      BY <2>1, <2>2, RecordInvKept
    <2>4. NumbersInv' /\ UploadsInv' /\ ScopesInv'
      BY <2>1, <2>2, NumbersKept, UploadsKept, ScopesKept
    <2>5. Guessed' /\ OneUsable' /\ Linked' /\ Claimed'
      BY <2>1, <2>2, GuessedKept, OneUsableKept, LinkedKept, ClaimedKept
    <2>6. QED
      BY <2>3, <2>4, <2>5 DEF IntakeInv, ConsentsInv
  <1>3. QED
    BY <1>1, <1>2, PTL DEF RecordsSpec

\* request_consent and consume: with any number of clients a consent links one
\* complaint, no code stands more than MaxGuesses wrong guesses, and of the
\* codes for an address one at most can be used.
THEOREM IntakeConsents == RecordsSpec => []ConsentKept
  <1>1. IntakeInv => ConsentKept
    BY DEF IntakeInv, ConsentsInv, Guessed, OneUsable, Linked, ConsentKept
  <1>2. QED
    BY <1>1, IntakeInvariant, PTL

\* attach, upload and _allocate_identifier: a file stays with one complaint and
\* is stored, the daily limit holds, and reference numbers have no gap.
THEOREM IntakeFiles == RecordsSpec => []IntakeTogether
  <1>1. IntakeInv => IntakeTogether
    <2>1. SUFFICES ASSUME IntakeInv
                   PROVE  IntakeTogether
      OBVIOUS
    <2>2. \A f \in Uploads : uploads[f].key \in stored
      BY <2>1 DEF IntakeInv, RecordInv, Kept, UsedKeys
    <2>3. {complaints[c].number : c \in 1..Len(complaints)} = 1..Len(complaints)
      BY <2>1 DEF IntakeInv, NumbersInv
    <2>4. \A u \in Users :
            Cardinality({f \in Uploads : uploads[f].by = u /\ uploads[f].fresh}) <= MaxUploads
      BY <2>1 DEF IntakeInv, UploadsInv, FreshIn, Uploads
    <2>5. QED
      BY <2>1, <2>2, <2>3, <2>4 DEF IntakeInv, UploadsInv, IntakeTogether
  <1>2. QED
    BY <1>1, IntakeInvariant, PTL

\* upload, scope and attach of uploads.py: with any number of clients a file is
\* uploaded to a complaint its user owns, by its registration in the portal or
\* by a consent, or by an officer to one that is not refused; a file that waits
\* is attached where its user registers, and none changes its complaint.
THEOREM FilesScoped == RecordsSpec => FilesInScope
  <1> DEFINE Placed(f) ==
        uploads'[f].complaint # uploads[f].complaint =>
          /\ uploads[f].complaint = 0
          /\ uploads'[f].complaint \in Len(complaints) + 1..Len(complaints')
          /\ complaints'[uploads'[f].complaint].by = uploads[f].by
      Fits(f) ==
        LET c == uploads'[f].complaint
            u == uploads'[f].by
        IN  c # 0 => complaints[c].owner = u \/ (u \in DeskOfficer /\ complaints[c].open)
  <1>1. ASSUME IntakeInv, [RecordsNext]_allVars
        PROVE  /\ \A f \in Uploads : Placed(f)
               /\ \A f \in Len(uploads) + 1..Len(uploads') : Fits(f)
    <2> USE <1>1 DEF IntakeInv, RecordInv
    <2>0. Len(uploads) \in Nat /\ Len(complaints) \in Nat
      BY DEF RowsOK
    <2>1. ASSUME NEW p \in Request, UploadCommit(p)
          PROVE  /\ \A f \in Uploads : Placed(f)
                 /\ \A f \in Len(uploads) + 1..Len(uploads') : Fits(f)
      <3>1. /\ Len(uploads') = Len(uploads) + 1
            /\ \A f \in Uploads : uploads'[f] = uploads[f]
            /\ uploads'[Len(uploads) + 1].by = request[p].by
            /\ uploads'[Len(uploads) + 1].complaint = request[p].row
        BY <2>1, UploadWritten
      <3>2. \A f \in Uploads : Placed(f)
        BY <3>1
      <3>3. Storing(p) /\ Scoped(p)
        BY <2>1 DEF UploadCommit, At, Storing, Is, ScopesInv
      <3>4. Fits(Len(uploads) + 1)
        BY <3>1, <3>3 DEF Scoped
      <3>5. \A f \in Len(uploads) + 1..Len(uploads') : f = Len(uploads) + 1
        BY <2>0, <3>1
      <3>6. QED
        BY <3>2, <3>4, <3>5
    <2>2. ASSUME NEW p \in Request, RegisterCommit(p)
          PROVE  /\ \A f \in Uploads : Placed(f)
                 /\ \A f \in Len(uploads) + 1..Len(uploads') : Fits(f)
      <3>1. /\ Len(uploads') = Len(uploads)
            /\ \A f \in Uploads : uploads'[f].complaint =
                  IF f \in request[p].files THEN Len(complaints) + 1 ELSE uploads[f].complaint
        BY <2>2, FilesAttached
      <3>2. /\ Len(complaints') = Len(complaints) + 1
            /\ complaints'[Len(complaints) + 1].by = request[p].by
        BY <2>2, ComplaintWritten
      <3>3. \A f \in request[p].files : uploads[f].complaint = 0 /\ uploads[f].by = request[p].by
        BY <2>2 DEF RegisterCommit, At, Attaches, UploadsInv, OwnFiles, ScopesInv
      <3>4. ASSUME NEW f \in Uploads
            PROVE  Placed(f)
        BY <2>0, <3>1, <3>2, <3>3
      <3>5. \A f \in Len(uploads) + 1..Len(uploads') : FALSE
        BY <2>0, <3>1
      <3>6. QED
        BY <3>4, <3>5
    <2>3. CASE ~\E p \in Request : UploadCommit(p) \/ RegisterCommit(p)
      <3>1. /\ Len(uploads') = Len(uploads)
            /\ \A f \in Uploads : uploads'[f].complaint = uploads[f].complaint
        BY <2>3, IntakeWriters, UploadsOlder
      <3>2. \A f \in Len(uploads) + 1..Len(uploads') : FALSE
        BY <2>0, <3>1
      <3>3. QED
        BY <3>1, <3>2
    <2>4. QED
      BY <2>1, <2>2, <2>3
  <1>2. IntakeInv /\ [RecordsNext]_allVars =>
          [/\ \A f \in Uploads : Placed(f)
           /\ \A f \in Len(uploads) + 1..Len(uploads') : Fits(f)]_uploads
    BY <1>1
  <1>3. QED
    BY <1>2, IntakeInvariant, PTL DEF RecordsSpec, FilesInScope
=============================================================================
