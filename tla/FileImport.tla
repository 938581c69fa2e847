----------------------------- MODULE FileImport -----------------------------
(***************************************************************************)
(* One uploaded file that is not a lease, from its confirmation to the rows *)
(* it ends as: confirm-upload, cancel-upload, delete-uploaded-file,         *)
(* ingest-file, parse-file, parse-document-azure, normalize-pdf-output,     *)
(* validate-data, store-data and review-approve, with the status helper     *)
(* they share.  Nothing locks the file: a request reads it, works, and      *)
(* updates it by its id, statement by statement, while others do the same.  *)
(*                                                                          *)
(* A request and the functions it awaits, one after the other, are one      *)
(* call.  A function whose caller has gone runs on alone.                   *)
(*                                                                          *)
(* The kind of a file: a "sheet" is read by parse-file; a "plain"           *)
(* document and a "review" document, one of a subtype that a person must    *)
(* look at, go through the document parser.  Rows are "raw" as extracted or *)
(* "edited" by a reviewer.                                                  *)
(*                                                                          *)
(* Faults:                                                                  *)
(*   "die"     a process ends between two statements                        *)
(*   "timeout" a caller no longer waits for the function it called          *)
(*   "bad"     parsing, validation or an insert fails, or an extraction     *)
(*             finds nothing                                                *)
(***************************************************************************)
EXTENDS Naturals

CONSTANTS
    Call,       \* requests that run at the same time
    Doc,        \* what files there are: their kind, and whether they go to expenses
    Request,    \* what users do
    Faults,
    MaxCalls    \* bound: requests in all

ASSUME ImportAssumption ==
    /\ Doc \subseteq [kind : {"sheet", "plain", "review"}, expenses : BOOLEAN]
    /\ MaxCalls \in Nat

VARIABLES
    doc,        \* what the file is
    file,       \* its row in uploaded_files
    object,     \* its document is in the storage bucket
    table,      \* how often each kind of rows was inserted
    call,       \* the requests
    started,    \* requests so far
    cut         \* history: since a retry last began alone, some call died or was
                \* left by its caller

vars == <<doc, file, object, table, call, started, cut>>

Status == {"uploaded", "parsing", "parsed", "pdf_parsed", "validating", "validated",
           "review_required", "approved", "storing", "stored", "computing",
           "completed", "failed", "cancelled"}

Review == {"not_required", "pending", "approved", "rejected", "blocked"}

Rows == {"none", "raw", "edited"}

\* review_required; a parse that failed clears it.
NeedsReview(f) == f.review \in {"pending", "approved", "rejected"}

\* The row shows values, in its rows or in what the reviewer is shown.
ShowsValues(f) == f.there /\ (f.payload \/ f.parsed # "none")

\* ALLOWED_TRANSITIONS
Onward ==
    [ uploaded        |-> {"parsing", "review_required"},
      parsing         |-> {"parsed", "pdf_parsed", "review_required"},
      parsed          |-> {"validating"},
      pdf_parsed      |-> {"validating", "review_required"},
      validating      |-> {"validated", "review_required"},
      validated       |-> {"validating", "review_required", "storing"},
      review_required |-> {"parsing", "pdf_parsed", "validated", "approved"},
      approved        |-> {"validating", "storing"},
      storing         |-> {"stored"},
      stored          |-> {"computing"},
      computing       |-> {"completed"},
      failed          |-> {"parsing", "review_required"},
      completed       |-> {},
      cancelled       |-> {} ]

\* isAllowedTransition; every state but the last ones may fail or be cancelled.
IsAllowed(from, to) ==
    \/ from = to
    \/ to \in Onward[from]
    \/ to \in {"failed", "cancelled"} /\ from \notin {"completed", "failed", "cancelled"}

\* Inserting as upload-handler does: not confirmed, nothing extracted.
NewFile == [there |-> TRUE, confirmed |-> FALSE, status |-> "uploaded",
            review |-> "not_required", parsed |-> "none", valid |-> "none",
            final |-> "none", payload |-> FALSE]

NoFile == [NewFile EXCEPT !.there = FALSE]

NoCall == [pc |-> "idle", op |-> "none", checked |-> FALSE, seen |-> NoFile,
           alone |-> FALSE, clean |-> FALSE]

Init ==
    /\ doc \in Doc
    /\ file = NewFile
    /\ object = TRUE
    /\ table = [r \in Rows |-> 0]
    /\ call = [c \in Call |-> NoCall]
    /\ started = 0
    /\ cut = FALSE

-----------------------------------------------------------------------------
(* Steps of a call *)

At(c, pc) == call[c].pc = pc

Goto(c, pc) ==
    call' = [call EXCEPT ![c] = IF pc = "idle" THEN NoCall
                                ELSE [@ EXCEPT !.pc = pc, !.checked = FALSE]]

\* The function reads the row and keeps it.
Keep(c, pc) ==
    call' = [call EXCEPT ![c].pc = pc, ![c].checked = FALSE, ![c].seen = file]

\* Where a call goes when a function it awaited has answered.
After(c, function, ok) ==
    IF call[c].alone THEN "idle"
    ELSE CASE function = "extract" /\ ~ok  -> IF doc.kind = "sheet" THEN "idle" ELSE "park"
           [] function = "parse" /\ ok     -> IF doc.kind = "sheet" THEN "validate" ELSE "normalize"
           [] function = "normalize" /\ ok -> "route"
           [] function = "validate" /\ ok  -> "store"
           [] OTHER                        -> "idle"

\* An update by id; it finds nothing when the row has been deleted.
Update(f) == file' = IF file.there THEN f ELSE file

\* setStatus: read the status, check the transition, update by id.
SetStatus(c, to, patched, next, otherwise) ==
    LET may == file.there /\ (call[c].checked \/ IsAllowed(file.status, to)) IN
    \/ /\ may /\ ~call[c].checked
       /\ call' = [call EXCEPT ![c].checked = TRUE]
       /\ UNCHANGED file
    \/ /\ may /\ call[c].checked
       /\ file' = [patched EXCEPT !.status = to]
       /\ Goto(c, next)
    \/ /\ ~may
       /\ Goto(c, otherwise)
       /\ UNCHANGED file

\* setFailed asks nothing.
SetFailed(c, next) == Update([file EXCEPT !.status = "failed"]) /\ Goto(c, next)

Blocked(f) == [f EXCEPT !.review = "blocked", !.parsed = "none", !.payload = FALSE]

\* Something in the function fails.
Stumble(c, pc) ==
    /\ "bad" \in Faults /\ ~call[c].checked
    /\ call' = [call EXCEPT ![c] = IF pc = "idle" THEN NoCall
                                   ELSE [@ EXCEPT !.pc = pc, !.clean = FALSE]]
    /\ UNCHANGED file

Quiet == \A c \in Call : At(c, "idle")

Start(c, op, pc) ==
    LET clean == op = "retry" /\ Quiet IN
    /\ At(c, "idle") /\ op \in Request /\ started < MaxCalls /\ file.there
    /\ started' = started + 1
    /\ call' = [d \in Call |->
                  IF d = c THEN [NoCall EXCEPT !.pc = pc, !.op = op, !.clean = clean]
                           ELSE [call[d] EXCEPT !.clean = FALSE]]
    /\ cut' = (cut /\ ~clean)
    /\ UNCHANGED <<doc, object, table>>

-----------------------------------------------------------------------------
(* confirm-upload, cancel-upload and delete-uploaded-file *)

\* Only the update that finds the file unconfirmed goes on to ingest-file.
Confirm(c) ==
    /\ ~file.confirmed
    /\ Start(c, "confirm", "ingest")
    /\ file' = [file EXCEPT !.confirmed = TRUE]

\* A confirmed file of this kind has no job to flag: cancel-upload then does
\* nothing.
Cancel(c) ==
    /\ ~file.confirmed
    /\ Start(c, "cancel", "cancel")
    /\ UNCHANGED file

\* Faulty variant: the document is removed whatever was deleted.
DeleteOrNot(c) ==
    /\ At(c, "cancel")
    /\ file' = IF file.there /\ ~file.confirmed THEN NoFile ELSE file
    /\ Goto(c, "remove")
    /\ UNCHANGED <<doc, object, table, started, cut>>

\* delete_unconfirmed_upload, which locks the row and looks again.
DeleteUnconfirmed(c) ==
    /\ At(c, "cancel")
    /\ IF file.there /\ ~file.confirmed
         THEN file' = NoFile /\ Goto(c, "remove")
         ELSE UNCHANGED file /\ Goto(c, "idle")
    /\ UNCHANGED <<doc, object, table, started, cut>>

RemoveObject(c) ==
    /\ At(c, "remove")
    /\ object' = FALSE
    /\ Goto(c, "idle")
    /\ UNCHANGED <<doc, file, table, started, cut>>

\* delete_uploaded_file_workflow: nothing is linked to a file of this kind, and
\* its document stays.
Delete ==
    /\ "delete" \in Request /\ file.there
    /\ file' = NoFile
    /\ UNCHANGED <<doc, object, table, call, started, cut>>

-----------------------------------------------------------------------------
(* ingest-file *)

\* The client that imports in bulk does not confirm.
Import(c) == Start(c, "import", "ingest") /\ UNCHANGED file

\* force_reextract, for a file in any state.
Retry(c) == Start(c, "retry", "ingest") /\ UNCHANGED file

\* Faulty variant: a forced request goes on from where the file stands.
IngestAsIs(c) ==
    /\ At(c, "ingest")
    /\ Goto(c, IF file.there THEN "classify" ELSE "idle")
    /\ UNCHANGED <<doc, file, object, table, started, cut>>

Ingest(c) ==
    /\ At(c, "ingest")
    /\ Goto(c, IF ~file.there THEN "idle"
               ELSE IF call[c].op = "retry" /\ file.status \notin {"uploaded", "failed"}
               THEN "reset" ELSE "classify")
    /\ UNCHANGED <<doc, file, object, table, started, cut>>

Reset(c) ==
    /\ At(c, "reset")
    /\ Update([file EXCEPT !.status = "uploaded"])
    /\ Goto(c, "classify")
    /\ UNCHANGED <<doc, object, table, started, cut>>

\* It looks into the document, and starts the review afresh.
Classify(c) ==
    /\ At(c, "classify")
    /\ IF object
         THEN /\ Update([file EXCEPT !.review = IF doc.kind = "review" THEN "pending"
                                                ELSE "not_required"])
              /\ Goto(c, "parse")
         ELSE UNCHANGED file /\ Goto(c, "fail")
    /\ UNCHANGED <<doc, object, table, started, cut>>

\* Read again after normalization, to know whether to go on.
Route(c) ==
    /\ At(c, "route")
    /\ Goto(c, IF NeedsReview(file) THEN "idle" ELSE "validate")
    /\ UNCHANGED <<doc, file, object, table, started, cut>>

\* parkForBlockedPipeline, unless the row shows values.
Park(c) ==
    /\ At(c, "park")
    /\ Goto(c, IF ShowsValues(file) THEN "idle" ELSE "parking")
    /\ UNCHANGED <<doc, file, object, table, started, cut>>

Parking(c) ==
    /\ At(c, "parking")
    /\ SetStatus(c, "failed", Blocked(file), "idle", "idle")
    /\ UNCHANGED <<doc, object, table, started, cut>>

-----------------------------------------------------------------------------
(* parse-file, parse-document-azure and normalize-pdf-output *)

Parse(c) ==
    /\ At(c, "parse")
    /\ SetStatus(c, "parsing", file, "parsing", After(c, "extract", FALSE))
    /\ UNCHANGED <<doc, object, table, started, cut>>

\* parse-file: the rows, and then the status in a second update.
ReadSheet(c) ==
    /\ At(c, "parsing") /\ doc.kind = "sheet"
    /\ \/ object /\ Update([file EXCEPT !.parsed = "raw"]) /\ Goto(c, "parsed")
       \/ ~object /\ Goto(c, "unread") /\ UNCHANGED file
       \/ Stumble(c, "unread")
    /\ UNCHANGED <<doc, object, table, started, cut>>

Parsed(c) ==
    /\ At(c, "parsed")
    /\ LET next == After(c, "parse", TRUE) IN SetStatus(c, "parsed", file, next, next)
    /\ UNCHANGED <<doc, object, table, started, cut>>

\* parse-document-azure
ReadDocument(c) ==
    /\ At(c, "parsing") /\ doc.kind # "sheet"
    /\ \/ /\ object \/ call[c].checked
          /\ SetStatus(c, "pdf_parsed", [file EXCEPT !.parsed = "none"],
                       After(c, "parse", TRUE), "blocked")
       \/ ~object /\ ~call[c].checked /\ Goto(c, "blocked") /\ UNCHANGED file
       \/ Stumble(c, "blocked")
    /\ UNCHANGED <<doc, object, table, started, cut>>

Normalize(c) ==
    /\ At(c, "normalize")
    /\ IF file.there /\ file.status \in {"pdf_parsed", "validating"}
         THEN Keep(c, "normalizing") ELSE Goto(c, After(c, "extract", FALSE))
    /\ UNCHANGED <<doc, file, object, table, started, cut>>

Normalizing(c) ==
    /\ At(c, "normalizing")
    /\ SetStatus(c, "validating", file, "publish", After(c, "extract", FALSE))
    /\ UNCHANGED <<doc, object, table, started, cut>>

\* Whether it needs a review is what the row said when normalization began.  An
\* extraction that finds nothing in a file that shows values leaves it as it is,
\* and is answered as a success.
Publish(c) ==
    /\ At(c, "publish")
    /\ \/ LET r == [file EXCEPT !.parsed = "raw", !.payload = TRUE] IN
          IF NeedsReview(call[c].seen)
            THEN SetStatus(c, "review_required", [r EXCEPT !.review = "pending"],
                           After(c, "normalize", TRUE), "unread")
            ELSE SetStatus(c, "validated", r, After(c, "normalize", TRUE), "unread")
       \/ ShowsValues(file) /\ Stumble(c, After(c, "normalize", TRUE))
       \/ Stumble(c, "blocked")
    /\ UNCHANGED <<doc, object, table, started, cut>>

\* The document gave nothing: no review is needed of it any more.
BlockParse(c) ==
    /\ At(c, "blocked")
    /\ LET next == After(c, "extract", FALSE)
       IN  SetStatus(c, "failed", Blocked(file), next, next)
    /\ UNCHANGED <<doc, object, table, started, cut>>

FailExtract(c) ==
    /\ At(c, "unread")
    /\ SetFailed(c, After(c, "extract", FALSE))
    /\ UNCHANGED <<doc, object, table, started, cut>>

-----------------------------------------------------------------------------
(* validate-data *)

\* getRowsForValidation
RowsToValidate(f) ==
    IF f.final # "none" THEN f.final
    ELSE IF f.status = "approved" /\ f.valid # "none" THEN f.valid
    ELSE f.parsed

Validate(c) ==
    /\ At(c, "validate")
    /\ IF file.there /\ file.status \in {"parsed", "approved", "validated"}
         THEN Keep(c, "validating") ELSE Goto(c, After(c, "validate", FALSE))
    /\ UNCHANGED <<doc, file, object, table, started, cut>>

Validating(c) ==
    /\ At(c, "validating")
    /\ SetStatus(c, "validating", file, "check", After(c, "validate", FALSE))
    /\ UNCHANGED <<doc, object, table, started, cut>>

\* Rows a reviewer approved pass whatever is wrong with them.
CheckRows(c) ==
    /\ At(c, "check")
    /\ LET rows == RowsToValidate(call[c].seen) IN
       \/ rows = "none" /\ Goto(c, "fail") /\ UNCHANGED file
       \/ rows # "none" /\ Update([file EXCEPT !.valid = rows]) /\ Goto(c, "validated")
       \/ /\ rows # "none" /\ "bad" \in Faults /\ call[c].seen.review # "approved"
          /\ Update([file EXCEPT !.valid = "none"])
          /\ call' = [call EXCEPT ![c].pc = "invalid", ![c].clean = FALSE]
    /\ UNCHANGED <<doc, object, table, started, cut>>

\* A file without a valid row fails, and the answer is still a success.
Invalid(c) ==
    /\ At(c, "invalid")
    /\ SetFailed(c, After(c, "validate", TRUE))
    /\ UNCHANGED <<doc, object, table, started, cut>>

\* What setStatus answers is not looked at.
Validated(c) ==
    /\ At(c, "validated")
    /\ LET next == After(c, "validate", TRUE) IN SetStatus(c, "validated", file, next, next)
    /\ UNCHANGED <<doc, object, table, started, cut>>

-----------------------------------------------------------------------------
(* store-data *)

Storable(f) ==
    /\ f.there
    /\ f.status \in {"validated", "approved"}
    /\ NeedsReview(f) => f.review = "approved"

\* A file that is stored already is answered, another one refused.
Store(c) ==
    /\ At(c, "store")
    /\ IF Storable(file) THEN Keep(c, "storing") ELSE Goto(c, "idle")
    /\ UNCHANGED <<doc, file, object, table, started, cut>>

Storing(c) ==
    /\ At(c, "storing")
    /\ SetStatus(c, "storing", file, "duplicates", "idle")
    /\ UNCHANGED <<doc, object, table, started, cut>>

\* Faulty variant: goes on when there is nothing to insert.
DuplicatesOrNothing(c) ==
    /\ At(c, "duplicates")
    /\ Goto(c, IF doc.expenses /\ table[call[c].seen.valid] > 0 THEN "fail" ELSE "insert")
    /\ UNCHANGED <<doc, file, object, table, started, cut>>

\* checkExpenseDuplicates
Duplicates(c) ==
    /\ At(c, "duplicates")
    /\ LET rows == call[c].seen.valid
       IN  Goto(c, IF rows = "none" \/ (doc.expenses /\ table[rows] > 0) THEN "fail" ELSE "insert")
    /\ UNCHANGED <<doc, file, object, table, started, cut>>

\* Faulty variant: nothing but the look before keeps duplicates out.
InsertUnkeyed(c) ==
    /\ At(c, "insert")
    /\ \/ /\ table' = [table EXCEPT ![call[c].seen.valid] = @ + 1]
          /\ Goto(c, "stored")
          /\ UNCHANGED file
       \/ Stumble(c, "fail") /\ UNCHANGED table
    /\ UNCHANGED <<doc, object, started, cut>>

\* Expenses have a unique key of file and row.
Insert(c) ==
    /\ At(c, "insert")
    /\ LET rows == call[c].seen.valid
           taken == doc.expenses /\ table[rows] > 0 IN
       \/ /\ ~taken
          /\ table' = [table EXCEPT ![rows] = @ + 1]
          /\ Goto(c, "stored")
          /\ UNCHANGED file
       \/ taken /\ Goto(c, "fail") /\ UNCHANGED <<file, table>>
       \/ Stumble(c, "fail") /\ UNCHANGED table
    /\ UNCHANGED <<doc, object, started, cut>>

\* The reviewed rows are written back as they were read; then the answer is given, and triggerComputePipeline goes on.
Stored(c) ==
    /\ At(c, "stored")
    /\ SetStatus(c, "stored", [file EXCEPT !.final = call[c].seen.final],
                 "compute", "compute")
    /\ UNCHANGED <<doc, object, table, started, cut>>

\* triggerComputePipeline asks for a member ok of what setStatus answers, which
\* has only a member error: it takes every answer for a failure.
Compute(c) ==
    /\ At(c, "compute")
    /\ SetStatus(c, "computing", file, "fail", "fail")
    /\ UNCHANGED <<doc, object, table, started, cut>>

\* setFailed as the last thing a call does.
Fail(c) ==
    /\ At(c, "fail")
    /\ SetFailed(c, "idle")
    /\ UNCHANGED <<doc, object, table, started, cut>>

-----------------------------------------------------------------------------
(* review-approve: approve, save and reject *)

\* The rows the reviewer submits replace what there was.
Edited(f) == [f EXCEPT !.parsed = "edited", !.valid = "edited", !.final = "edited",
                       !.payload = TRUE]

Approve(c) == file.review = "pending" /\ Start(c, "approve", "persist") /\ UNCHANGED file

Persist(c) ==
    /\ At(c, "persist")
    /\ Update(Edited(file))
    /\ Goto(c, "approve")
    /\ UNCHANGED <<doc, object, table, started, cut>>

Approved(c) ==
    /\ At(c, "approve")
    /\ SetStatus(c, "approved", [file EXCEPT !.review = "approved"], "validate", "idle")
    /\ UNCHANGED <<doc, object, table, started, cut>>

\* A draft may be saved of an approved or rejected file as well.
Save(c) == NeedsReview(file) /\ Start(c, "save", "save") /\ UNCHANGED file

SaveDraft(c) ==
    /\ At(c, "save")
    /\ Update([Edited(file) EXCEPT !.review = "pending"])
    /\ Goto(c, "idle")
    /\ UNCHANGED <<doc, object, table, started, cut>>

Reject(c) == file.review = "pending" /\ Start(c, "reject", "reject") /\ UNCHANGED file

Rejected(c) ==
    /\ At(c, "reject")
    /\ Update([file EXCEPT !.review = "rejected", !.final = "edited",
                           !.payload = TRUE])
    /\ Goto(c, "fail")
    /\ UNCHANGED <<doc, object, table, started, cut>>

-----------------------------------------------------------------------------
(* Failures of processes and connections *)

Parsing == {"parse", "parsing", "parsed", "unread", "blocked"}
Called  == Parsing \cup {"normalize", "normalizing", "publish", "validate", "validating",
              "check", "invalid", "validated", "store", "storing", "duplicates", "insert",
              "stored"}

\* The process that runs ends, and its caller with it.
Die(c) ==
    /\ "die" \in Faults /\ ~At(c, "idle")
    /\ Goto(c, "idle")
    /\ cut' = TRUE
    /\ UNCHANGED <<doc, file, object, table, started>>

\* The caller ends, or gives up waiting; the function does not notice.
Abandon(c) ==
    /\ "timeout" \in Faults /\ call[c].pc \in Called /\ ~call[c].alone
    /\ call' = [call EXCEPT ![c].alone = TRUE, ![c].clean = FALSE]
    /\ cut' = TRUE
    /\ UNCHANGED <<doc, file, object, table, started>>

\* ingest-file gives up waiting for a parser and parks the file, while the
\* parser runs on: it takes the place of an idle call.
GiveUp(c, d) ==
    /\ "timeout" \in Faults /\ call[c].pc \in Parsing /\ ~call[c].alone
    /\ doc.kind # "sheet" /\ At(d, "idle")
    /\ call' = [call EXCEPT ![c].pc = "park", ![c].checked = FALSE, ![c].clean = FALSE,
                            ![d] = [call[c] EXCEPT !.alone = TRUE, !.clean = FALSE]]
    /\ cut' = TRUE
    /\ UNCHANGED <<doc, file, object, table, started>>

-----------------------------------------------------------------------------
(* Specification *)

Steps(c) ==
    \/ DeleteUnconfirmed(c) \/ RemoveObject(c)
    \/ Ingest(c) \/ Reset(c) \/ Classify(c) \/ Route(c) \/ Park(c) \/ Parking(c)
    \/ Parse(c) \/ ReadSheet(c) \/ Parsed(c) \/ ReadDocument(c)
    \/ Normalize(c) \/ Normalizing(c) \/ Publish(c) \/ BlockParse(c) \/ FailExtract(c)
    \/ Validate(c) \/ Validating(c) \/ CheckRows(c) \/ Invalid(c) \/ Validated(c)
    \/ Store(c) \/ Storing(c) \/ Duplicates(c) \/ Insert(c) \/ Stored(c) \/ Compute(c) \/ Fail(c)
    \/ Persist(c) \/ Approved(c) \/ SaveDraft(c) \/ Rejected(c)

Next ==
    \/ Delete
    \/ \E c \in Call :
         \/ Confirm(c) \/ Cancel(c) \/ Import(c) \/ Retry(c)
         \/ Approve(c) \/ Save(c) \/ Reject(c)
         \/ Steps(c)
         \/ Die(c) \/ Abandon(c)
         \/ \E d \in Call \ {c} : GiveUp(c, d)

Spec == Init /\ [][Next]_vars

-----------------------------------------------------------------------------
(* Properties *)

FileType ==
    [there : BOOLEAN, confirmed : BOOLEAN, status : Status, review : Review, parsed : Rows,
     valid : Rows, final : Rows, payload : BOOLEAN]

Pc == Called \cup
    {"idle", "cancel", "remove", "ingest", "reset", "classify", "route", "park", "parking",
     "compute", "fail", "persist", "approve", "save", "reject"}

CallType ==
    [pc : Pc, op : Request \cup {"none"}, checked : BOOLEAN, seen : FileType,
     alone : BOOLEAN, clean : BOOLEAN]

\* The type of the state.  There are no rows to insert but raw and edited ones.
TypeOK ==
    /\ doc \in Doc
    /\ file \in FileType
    /\ object \in BOOLEAN /\ cut \in BOOLEAN
    /\ table \in [Rows -> Nat] /\ table["none"] = 0
    /\ started \in 0 .. MaxCalls
    /\ call \in [Call -> CallType]

\* A file that has its row has its document: a cancel that races the
\* confirmation removes neither (delete_unconfirmed_upload, cancel-upload).
DocumentKept == file.there => object

\* However often a file of expenses is imported, retried, approved and stored,
\* by calls that overlap, the same rows are inserted once (store-data).
ImportedOnce == doc.expenses => \A r \in Rows : table[r] <= 1

\* The rows of a document that needs a review are inserted as a reviewer
\* submitted them, never as they were extracted (store-data).
ReviewGate == doc.kind = "review" => table["raw"] = 0

\* A forced retry that met no failure and no other request ends with the rows
\* inserted, or waiting for the review of a fresh extraction, in whatever state
\* earlier calls have left the file (force_reextract in ingest-file).
RetryRepairs ==
    [][\A c \in Call : call[c].clean /\ file.there /\ At(c, "idle")' /\ ~cut' =>
         IF doc.kind = "review" THEN file'.status = "review_required" /\ file'.parsed = "raw"
         ELSE table'["raw"] > 0]_vars

=============================================================================
