-------------------------- MODULE FileImport_proofs --------------------------
(***************************************************************************)
(* Theorems about FileImport, for any number of requests at a time and in   *)
(* all, any kinds of files and any faults: types, that a file keeps its     *)
(* document, that rows of expenses are inserted once, and that a forced     *)
(* retry repairs.                                                           *)
(***************************************************************************)
EXTENDS FileImport, TLAPS

-----------------------------------------------------------------------------
(* Invariants *)

\* What is about to be inserted is something.
SomethingToInsert == \A c \in Call : At(c, "insert") => call[c].seen.valid # "none"

TypeInv == TypeOK /\ SomethingToInsert

\* The document is removed only once the row is gone, and a row that is gone
\* does not come back.
RemovesOrphans == \A c \in Call : At(c, "remove") => ~file.there

DocumentInv == DocumentKept /\ RemovesOrphans

\* A row that no reviewer has touched and none needs to.
Plain(f) == ~NeedsReview(f) /\ f.final = "none"

\* Of a file that nobody has to review, there is nothing that a reviewer did.
Unreviewed ==
    doc.kind # "review" =>
        /\ Plain(file)
        /\ \A c \in Call : /\ Plain(call[c].seen)
                           /\ call[c].pc \notin {"persist", "approve", "save", "reject"}

\* The review as Classify leaves it.
Fresh(f) == f.review = IF doc.kind = "review" THEN "pending" ELSE "not_required"

Extracted(f) == Fresh(f) /\ f.parsed = "raw" /\ doc.kind # "review"

Places == {"ingest", "reset", "classify", "parse", "parsing", "parsed", "normalize", "normalizing",
           "publish", "route", "validate", "validating", "check", "validated", "store", "storing",
           "duplicates", "insert", "stored", "compute", "fail"}

\* What a forced retry has achieved of a file, by where it is, when it met no
\* failure and no other request.
Achieved(pc, f, seen) ==
    /\ pc \in Places
    /\ pc \in {"classify", "parse"} => f.status \in {"uploaded", "failed"}
    /\ pc \in {"parse", "parsing", "normalize", "normalizing", "publish"} => Fresh(f)
    /\ pc \in {"parsing", "parsed"} => f.status = "parsing"
    /\ pc \in {"normalize", "normalizing"} => f.status = "pdf_parsed"
    /\ pc \in {"publish", "check", "validated"} => f.status = "validating"
    /\ pc \in {"normalizing", "publish"} => Fresh(seen)
    /\ pc = "parsed" => doc.kind = "sheet"
    /\ pc \in {"normalize", "normalizing", "publish"} => doc.kind # "sheet"
    /\ pc = "route" => IF doc.kind = "review"
                         THEN f.status = "review_required" /\ f.parsed = "raw" /\ Fresh(f)
                         ELSE f.status = "validated" /\ Extracted(f)
    /\ pc \in {"parsed", "validate", "validating", "check", "validated", "store"} => Extracted(f)
    /\ pc \in {"validate", "validating"} => f.status \in {"parsed", "validated"}
    /\ pc \in {"validating", "check"} => seen.status # "approved" /\ Extracted(seen)
    /\ pc \in {"store", "storing"} => f.status = "validated"
    /\ pc \in {"validated", "store"} => f.valid = "raw"
    /\ pc \in {"storing", "duplicates", "insert"} => seen.valid = "raw" /\ doc.kind # "review"
    /\ pc \in {"stored", "compute", "fail"} => table["raw"] > 0 /\ doc.kind # "review"

CleanProgress ==
    \A c \in Call : call[c].clean =>
        /\ call[c].op = "retry" /\ ~call[c].alone /\ ~At(c, "idle")
        /\ \A d \in Call \ {c} : At(d, "idle")
        /\ file.there => Achieved(call[c].pc, file, call[c].seen)

RetryInv == Unreviewed /\ CleanProgress

-----------------------------------------------------------------------------
(* Types *)

LEMMA NoCallTypes == NewFile \in FileType /\ NoFile \in FileType /\ ~NoFile.there
                     /\ NoCall \in CallType /\ NoCall.pc = "idle" /\ NoCall.seen = NoFile
  <1>1. NewFile \in FileType
    BY DEF NewFile, FileType, Status, Review, Rows
  <1>2. NoFile \in FileType /\ ~NoFile.there
    BY <1>1 DEF NoFile, FileType
  <1>3. QED
    BY <1>1, <1>2 DEF NoCall, CallType, Pc, Called, Parsing

LEMMA InitTypes == Init => TypeInv
  <1> SUFFICES ASSUME Init PROVE TypeInv
    OBVIOUS
  <1>1. table \in [Rows -> Nat] /\ table["none"] = 0
    BY DEF Init, Rows
  <1>2. started \in 0 .. MaxCalls
    BY ImportAssumption DEF Init
  <1>3. call \in [Call -> CallType]
    BY NoCallTypes DEF Init
  <1>4. SomethingToInsert
    BY NoCallTypes DEF Init, SomethingToInsert, At
  <1>5. doc \in Doc /\ file \in FileType /\ object \in BOOLEAN /\ cut \in BOOLEAN
    BY NoCallTypes DEF Init
  <1>6. QED
    BY <1>1, <1>2, <1>3, <1>4, <1>5 DEF TypeInv, TypeOK

\* What a call becomes when it goes elsewhere; the others stay.
LEMMA Gone ==
  ASSUME TypeOK, NEW c \in Call, NEW pc, Goto(c, pc)
  PROVE  /\ call'[c] = IF pc = "idle" THEN NoCall ELSE [call[c] EXCEPT !.pc = pc, !.checked = FALSE]
         /\ \A d \in Call \ {c} : call'[d] = call[d]
         /\ pc \in Pc => call' \in [Call -> CallType]
         /\ call'[c].pc = pc
         /\ call'[c].seen \in {call[c].seen, NoFile}
  <1>1. /\ call'[c] = IF pc = "idle" THEN NoCall ELSE [call[c] EXCEPT !.pc = pc, !.checked = FALSE]
        /\ \A d \in Call \ {c} : call'[d] = call[d]
    BY DEF TypeOK, Goto
  <1>2. call[c] \in CallType
    BY DEF TypeOK
  <1>3. /\ call'[c].pc = pc /\ call'[c].seen \in {call[c].seen, NoFile}
        /\ pc \in Pc => call'[c] \in CallType
    BY <1>1, <1>2, NoCallTypes DEF CallType
  <1>4. call' = [call EXCEPT ![c] = call'[c]]
    BY <1>1 DEF Goto, TypeOK
  <1>5. pc \in Pc => call' \in [Call -> CallType]
    BY <1>3, <1>4 DEF TypeOK
  <1>6. QED
    BY <1>1, <1>3, <1>5

LEMMA Kept ==
  ASSUME TypeOK, NEW c \in Call, NEW pc \in Pc, Keep(c, pc)
  PROVE  /\ \A d \in Call \ {c} : call'[d] = call[d]
         /\ call' \in [Call -> CallType]
         /\ call'[c].pc = pc /\ call'[c].seen = file
         /\ call'[c].clean = call[c].clean /\ call'[c].op = call[c].op /\ call'[c].alone = call[c].alone
  BY DEF TypeOK, Keep, CallType

\* Where a call may go when a function it awaited has answered.
Awaited == {"idle", "park", "normalize", "route", "validate", "store"}

LEMMA Afterwards == \A c \in Call : \A function, ok : After(c, function, ok) \in Awaited
  BY DEF After, Awaited

\* The three outcomes of setStatus.
LEMMA StatusSet ==
  ASSUME TypeOK, NEW c \in Call, NEW to, NEW patched, NEW next, NEW otherwise,
         SetStatus(c, to, patched, next, otherwise)
  PROVE  \/ /\ file.there /\ IsAllowed(file.status, to) /\ ~call[c].checked
            /\ file' = file /\ call' = [call EXCEPT ![c].checked = TRUE]
         \/ /\ file.there /\ call[c].checked
            /\ file' = [patched EXCEPT !.status = to] /\ Goto(c, next)
         \/ /\ ~file.there \/ (~IsAllowed(file.status, to) /\ ~call[c].checked)
            /\ file' = file /\ Goto(c, otherwise)
  BY DEF SetStatus

\* What a step of a call leaves: well-formed state in which the others are as
\* they were, no row comes back, and what the call reads is the row.
Well(c) ==
    /\ file' \in FileType /\ (file'.there => file.there)
    /\ call' \in [Call -> CallType]
    /\ \A d \in Call \ {c} : call'[d] = call[d]
    /\ call'[c].seen \in {call[c].seen, file, NoFile}
    /\ call'[c].clean =>
         /\ call[c].clean /\ call'[c].op = call[c].op /\ call'[c].alone = call[c].alone
         /\ call'[c].pc # "idle" \/ call[c].pc = "idle"

LEMMA WellGone ==
  ASSUME TypeOK, NEW c \in Call, NEW pc \in Pc, Goto(c, pc),
         file' \in FileType, file'.there => file.there
  PROVE  Well(c) /\ call'[c].pc = pc
  <1>1. /\ call'[c] = IF pc = "idle" THEN NoCall ELSE [call[c] EXCEPT !.pc = pc, !.checked = FALSE]
        /\ \A d \in Call \ {c} : call'[d] = call[d]
        /\ call' \in [Call -> CallType]
        /\ call'[c].pc = pc
        /\ call'[c].seen \in {call[c].seen, NoFile}
    BY Gone
  <1>2. ~NoCall.clean
    BY DEF NoCall
  <1>3. call'[c].clean => /\ call[c].clean /\ call'[c].op = call[c].op
                          /\ call'[c].alone = call[c].alone /\ pc # "idle"
    BY <1>1, <1>2 DEF TypeOK, CallType
  <1>4. QED
    BY <1>1, <1>3 DEF Well

LEMMA WellSet ==
  ASSUME TypeOK, NEW c \in Call, NEW to \in Status, NEW patched \in FileType,
         patched.there = file.there, NEW next \in Pc, NEW otherwise \in Pc,
         SetStatus(c, to, patched, next, otherwise)
  PROVE  Well(c) /\ call'[c].pc \in {call[c].pc, next, otherwise}
  <1>1. CASE file' = file /\ call' = [call EXCEPT ![c].checked = TRUE]
    BY <1>1 DEF TypeOK, Well, CallType
  <1>2. CASE file' = [patched EXCEPT !.status = to] /\ Goto(c, next)
    BY <1>2, WellGone DEF FileType
  <1>3. CASE file' = file /\ Goto(c, otherwise)
    BY <1>3, WellGone DEF TypeOK
  <1>4. QED
    BY <1>1, <1>2, <1>3, StatusSet

LEMMA WellFailed ==
  ASSUME TypeOK, NEW c \in Call, NEW next \in Pc, SetFailed(c, next)
  PROVE  Well(c) /\ call'[c].pc = next
  <1>1. file' \in FileType /\ (file'.there => file.there)
    BY DEF SetFailed, Update, TypeOK, FileType, Status
  <1>2. QED
    BY <1>1, WellGone DEF SetFailed

LEMMA WellStumbled ==
  ASSUME TypeOK, NEW c \in Call, NEW pc \in Pc, Stumble(c, pc)
  PROVE  Well(c) /\ call'[c].pc = pc /\ ~call'[c].clean
  <1>1. /\ file' = file
        /\ call' = [call EXCEPT ![c] = IF pc = "idle" THEN NoCall
                                       ELSE [@ EXCEPT !.pc = pc, !.clean = FALSE]]
    BY DEF Stumble
  <1>2. /\ call'[c] = IF pc = "idle" THEN NoCall ELSE [call[c] EXCEPT !.pc = pc, !.clean = FALSE]
        /\ \A d \in Call \ {c} : call'[d] = call[d]
    BY <1>1 DEF TypeOK
  <1>3. call[c] \in CallType
    BY DEF TypeOK
  <1>4. NoCall \in CallType /\ NoCall.pc = "idle" /\ NoCall.seen = NoFile /\ ~NoCall.clean
    BY NoCallTypes DEF NoCall
  <1>5. /\ call'[c].pc = pc /\ ~call'[c].clean
        /\ call'[c].seen \in {call[c].seen, NoFile}
        /\ call'[c] \in CallType
    <2>1. CASE pc = "idle"
      BY <1>2, <1>4, <2>1
    <2>2. CASE pc # "idle"
      BY <1>2, <1>3, <2>2 DEF CallType
    <2>3. QED
      BY <2>1, <2>2
  <1>6. call' = [call EXCEPT ![c] = call'[c]]
    BY <1>1, <1>2 DEF TypeOK
  <1>7. call' \in [Call -> CallType]
    BY <1>5, <1>6 DEF TypeOK
  <1>8. QED
    BY <1>1, <1>2, <1>5, <1>7 DEF Well, TypeOK

-----------------------------------------------------------------------------
(* The steps of a call *)

\* What a call does, except that it deletes, inserts or handles a review.
Ordinary(c) ==
    Well(c) /\ \/ call'[c].pc = call[c].pc
               \/ call'[c].pc \notin {"remove", "insert", "persist", "approve", "save", "reject"}

LEMMA Ways ==
  /\ \A pc \in Awaited : pc \in Pc /\ pc \notin {"remove", "insert", "persist", "approve", "save", "reject"}
  /\ Called \subseteq Pc
  /\ {"idle", "cancel", "remove", "ingest", "reset", "classify", "route", "park", "parking",
     "compute", "fail", "persist", "approve", "save", "reject"} \subseteq Pc
  BY DEF Awaited, Pc, Called, Parsing

LEMMA FileTypes ==
  ASSUME TypeOK
  PROVE  /\ file \in FileType
         /\ Blocked(file) \in FileType /\ Blocked(file).there = file.there
         /\ Edited(file) \in FileType /\ Edited(file).there = file.there
         /\ \A r \in Rows : /\ [file EXCEPT !.parsed = r] \in FileType
                            /\ [file EXCEPT !.parsed = r].there = file.there
                            /\ [file EXCEPT !.valid = r] \in FileType
                            /\ [file EXCEPT !.valid = r].there = file.there
                            /\ [file EXCEPT !.final = r] \in FileType
                            /\ [file EXCEPT !.final = r].there = file.there
         /\ {"none", "raw", "edited"} \subseteq Rows
  BY DEF TypeOK, FileType, Blocked, Edited, Review, Rows

LEMMA IngestSteps ==
  ASSUME TypeOK, NEW c \in Call,
         \/ Ingest(c) \/ Reset(c) \/ Classify(c) \/ Route(c) \/ Park(c) \/ Parking(c)
         \/ RemoveObject(c)
  PROVE  Ordinary(c)
  <1> USE Ways DEF Ordinary
  <1>1. ASSUME NEW pc \in {"idle", "reset", "classify", "parse", "fail", "validate", "parking"}, Goto(c, pc),
               UNCHANGED file
        PROVE  Ordinary(c)
    <2>1. pc \in Pc
      BY DEF Pc, Called, Parsing
    <2>2. QED
      BY <1>1, <2>1, WellGone DEF TypeOK
  <1>2. CASE Ingest(c) \/ Route(c) \/ Park(c) \/ RemoveObject(c)
    BY <1>1, <1>2 DEF Ingest, Route, Park, RemoveObject
  <1>3. CASE Reset(c)
    <2>1. file' \in FileType /\ (file'.there => file.there)
      BY <1>3 DEF Reset, Update, TypeOK, FileType, Status
    <2>2. QED
      BY <1>3, <2>1, WellGone DEF Reset
  <1>4. CASE Classify(c)
    <2>1. CASE object
      <3>1. file' \in FileType /\ (file'.there => file.there)
        BY <1>4, <2>1 DEF Classify, Update, TypeOK, FileType, Review
      <3>2. "parse" \in Pc
        BY DEF Pc, Called, Parsing
      <3>3. QED
        BY <1>4, <2>1, <3>1, <3>2, WellGone DEF Classify
    <2>2. CASE ~object
      BY <1>1, <1>4, <2>2 DEF Classify
    <2>3. QED
      BY <2>1, <2>2
  <1>5. CASE Parking(c)
    BY <1>5, WellSet, FileTypes DEF Parking, Status
  <1>6. QED
    BY <1>2, <1>3, <1>4, <1>5

LEMMA ParseSteps ==
  ASSUME TypeOK, NEW c \in Call,
         \/ Parse(c) \/ ReadSheet(c) \/ Parsed(c) \/ ReadDocument(c)
         \/ Normalize(c) \/ Normalizing(c) \/ Publish(c) \/ BlockParse(c) \/ FailExtract(c)
  PROVE  Ordinary(c)
  <1> USE Ways DEF Ordinary
  <1> DEFINE Next1 == Awaited \cup {"parsing", "unread", "parsed", "blocked", "normalizing", "publish"}
  <1>1. /\ \A f, ok : After(c, f, ok) \in Next1
        /\ {"parsing", "unread", "parsed", "blocked", "normalizing", "publish"} \subseteq Next1
        /\ \A pc \in Next1 : /\ pc \in Pc
                            /\ pc \notin {"remove", "insert", "persist", "approve", "save", "reject"}
    BY Afterwards DEF Called, Parsing
  <1> HIDE DEF Next1
  <1>2. ASSUME NEW pc \in Next1, Goto(c, pc), file' \in FileType, file'.there => file.there
        PROVE  Ordinary(c)
    BY <1>1, <1>2, WellGone
  <1>3. ASSUME NEW to \in Status, NEW patched \in FileType, patched.there = file.there,
               NEW next \in Next1, NEW otherwise \in Next1,
               SetStatus(c, to, patched, next, otherwise)
        PROVE  Ordinary(c)
    <2>1. Well(c) /\ call'[c].pc \in {call[c].pc, next, otherwise}
      BY <1>1, <1>3, WellSet
    <2>2. QED
      BY <1>1, <2>1
  <1>4. ASSUME NEW pc \in Next1, SetFailed(c, pc) \/ Stumble(c, pc)
        PROVE  Ordinary(c)
    BY <1>1, <1>4, WellFailed, WellStumbled
  <1>5. CASE Parse(c)
    BY <1>1, <1>3, <1>5, FileTypes DEF Parse, Status
  <1>6. CASE ReadSheet(c)
    <2>1. CASE object /\ Update([file EXCEPT !.parsed = "raw"]) /\ Goto(c, "parsed")
      BY <1>1, <1>2, <2>1, FileTypes DEF Update
    <2>2. CASE Goto(c, "unread") /\ UNCHANGED file
      BY <1>1, <1>2, <2>2, FileTypes
    <2>3. CASE Stumble(c, "unread")
      BY <1>1, <1>4, <2>3
    <2>4. QED
      BY <1>6, <2>1, <2>2, <2>3 DEF ReadSheet
  <1>7. CASE Parsed(c)
    BY <1>1, <1>3, <1>7, FileTypes DEF Parsed, Status
  <1>8. CASE ReadDocument(c)
    <2>1. CASE SetStatus(c, "pdf_parsed", [file EXCEPT !.parsed = "none"],
                         After(c, "parse", TRUE), "blocked")
      BY <1>1, <1>3, <2>1, FileTypes DEF Status
    <2>2. CASE Goto(c, "blocked") /\ UNCHANGED file
      BY <1>1, <1>2, <2>2, FileTypes
    <2>3. CASE Stumble(c, "blocked")
      BY <1>1, <1>4, <2>3
    <2>4. QED
      BY <1>8, <2>1, <2>2, <2>3 DEF ReadDocument
  <1>9. CASE Normalize(c)
    <2>1. CASE Keep(c, "normalizing")
      <3>1. Well(c) /\ call'[c].pc = "normalizing"
        BY <1>1, <1>9, <2>1, Kept, FileTypes DEF Normalize, Well
      <3>2. QED
        BY <3>1
    <2>2. CASE Goto(c, After(c, "extract", FALSE))
      BY <1>1, <1>2, <1>9, <2>2, FileTypes DEF Normalize
    <2>3. QED
      BY <1>9, <2>1, <2>2 DEF Normalize
  <1>10. CASE Normalizing(c)
    BY <1>1, <1>3, <1>10, FileTypes DEF Normalizing, Status
  <1>11. CASE Publish(c)
    <2> DEFINE r == [file EXCEPT !.parsed = "raw", !.payload = TRUE]
    <2>1. /\ r \in FileType /\ r.there = file.there
          /\ [r EXCEPT !.review = "pending"] \in FileType
          /\ [r EXCEPT !.review = "pending"].there = file.there
      BY DEF TypeOK, FileType, Review, Rows
    <2> HIDE DEF r
    <2>2. CASE SetStatus(c, "review_required", [r EXCEPT !.review = "pending"],
                         After(c, "normalize", TRUE), "unread")
      BY <1>1, <1>3, <2>1, <2>2 DEF Status
    <2>3. CASE SetStatus(c, "validated", r, After(c, "normalize", TRUE), "unread")
      BY <1>1, <1>3, <2>1, <2>3 DEF Status
    <2>4. CASE Stumble(c, "blocked")
      BY <1>1, <1>4, <2>4
    <2>5. CASE Stumble(c, After(c, "normalize", TRUE))
      BY <1>1, <1>4, <2>5
    <2>6. QED
      BY <1>11, <2>2, <2>3, <2>4, <2>5 DEF Publish, r
  <1>12. CASE BlockParse(c)
    BY <1>1, <1>3, <1>12, FileTypes DEF BlockParse, Status
  <1>13. CASE FailExtract(c)
    BY <1>1, <1>4, <1>13 DEF FailExtract
  <1>14. QED
    BY <1>5, <1>6, <1>7, <1>8, <1>9, <1>10, <1>11, <1>12, <1>13

LEMMA StoreSteps ==
  ASSUME TypeOK, NEW c \in Call,
         \/ Validate(c) \/ Validating(c) \/ CheckRows(c) \/ Invalid(c) \/ Validated(c)
         \/ Store(c) \/ Storing(c) \/ Insert(c) \/ Stored(c) \/ Compute(c) \/ Fail(c)
  PROVE  Ordinary(c)
  <1> USE Ways DEF Ordinary
  <1> DEFINE Next1 == Awaited \cup {"validating", "check", "invalid", "validated", "storing",
                                   "duplicates", "stored", "compute", "fail", "store"}
  <1>1. /\ \A f, ok : After(c, f, ok) \in Next1
        /\ {"validating", "check", "invalid", "validated", "storing", "duplicates",
            "stored", "compute", "fail", "idle"} \subseteq Next1
        /\ \A pc \in Next1 : /\ pc \in Pc
                            /\ pc \notin {"remove", "insert", "persist", "approve", "save", "reject"}
    BY Afterwards DEF Called, Parsing, Awaited
  <1> HIDE DEF Next1
  <1>2. ASSUME NEW pc \in Next1, Goto(c, pc), file' \in FileType, file'.there => file.there
        PROVE  Ordinary(c)
    BY <1>1, <1>2, WellGone
  <1>3. ASSUME NEW to \in Status, NEW patched \in FileType, patched.there = file.there,
               NEW next \in Next1, NEW otherwise \in Next1,
               SetStatus(c, to, patched, next, otherwise)
        PROVE  Ordinary(c)
    <2>1. Well(c) /\ call'[c].pc \in {call[c].pc, next, otherwise}
      BY <1>1, <1>3, WellSet
    <2>2. QED
      BY <1>1, <2>1
  <1>4. ASSUME NEW pc \in Next1, SetFailed(c, pc) \/ Stumble(c, pc)
        PROVE  Ordinary(c)
    BY <1>1, <1>4, WellFailed, WellStumbled
  <1>5. ASSUME NEW pc \in Next1 \ {"idle"}, Keep(c, pc), UNCHANGED file
        PROVE  Ordinary(c)
    <2>1. Well(c) /\ call'[c].pc = pc
      BY <1>1, <1>5, Kept, FileTypes DEF Well
    <2>2. QED
      BY <1>1, <2>1
  <1>6. CASE Validate(c) \/ Store(c)
    BY <1>1, <1>2, <1>5, <1>6, FileTypes DEF Validate, Store
  <1>7. CASE Validating(c) \/ Validated(c) \/ Storing(c) \/ Compute(c)
    BY <1>1, <1>3, <1>7, FileTypes DEF Validating, Validated, Storing, Compute, Status
  <1>8. CASE Stored(c)
    <2>1. call[c].seen.final \in Rows
      BY DEF TypeOK, CallType, FileType
    <2>2. QED
      BY <1>1, <1>3, <1>8, <2>1, FileTypes DEF Stored, Status
  <1>9. CASE Invalid(c) \/ Fail(c)
    BY <1>1, <1>4, <1>9 DEF Invalid, Fail
  <1>10. CASE CheckRows(c)
    <2> DEFINE rows == RowsToValidate(call[c].seen)
    <2>1. rows \in Rows
      BY DEF TypeOK, CallType, FileType, RowsToValidate
    <2> HIDE DEF rows
    <2>2. CASE Goto(c, "fail") /\ UNCHANGED file
      BY <1>1, <1>2, <2>2, FileTypes
    <2>3. CASE Update([file EXCEPT !.valid = rows]) /\ Goto(c, "validated")
      BY <1>1, <1>2, <2>1, <2>3, FileTypes DEF Update
    <2>4. CASE /\ Update([file EXCEPT !.valid = "none"])
               /\ call' = [call EXCEPT ![c].pc = "invalid", ![c].clean = FALSE]
      <3>1. file' \in FileType /\ (file'.there => file.there)
        BY <2>4, FileTypes DEF Update
      <3>2. "invalid" \in Pc
        BY <1>1
      <3>3. /\ call' \in [Call -> CallType] /\ call'[c].seen = call[c].seen /\ ~call'[c].clean
            /\ call'[c].pc = "invalid" /\ \A d \in Call \ {c} : call'[d] = call[d]
        BY <2>4, <3>2 DEF TypeOK, CallType
      <3>4. QED
        BY <3>1, <3>3 DEF Well
    <2>5. QED
      BY <1>10, <2>2, <2>3, <2>4 DEF CheckRows, rows
  <1>11. CASE Insert(c)
    <2>1. CASE (Goto(c, "stored") \/ Goto(c, "fail")) /\ UNCHANGED file
      BY <1>1, <1>2, <2>1, FileTypes
    <2>2. CASE Stumble(c, "fail")
      BY <1>1, <1>4, <2>2
    <2>3. QED
      BY <1>11, <2>1, <2>2 DEF Insert
  <1>12. QED
    BY <1>6, <1>7, <1>8, <1>9, <1>10, <1>11

LEMMA ReviewSteps ==
  ASSUME TypeOK, NEW c \in Call, Persist(c) \/ Approved(c) \/ SaveDraft(c) \/ Rejected(c)
  PROVE  /\ Well(c)
         /\ call'[c].pc \in {call[c].pc, "approve", "validate", "idle", "fail"}
         /\ call'[c].pc = "approve" => call[c].pc \in {"persist", "approve"}
         /\ call[c].pc \in {"persist", "approve", "save", "reject"}
  <1>1. {"approve", "validate", "idle", "fail"} \subseteq Pc
    BY DEF Pc, Called
  <1>2. CASE Persist(c)
    BY <1>1, <1>2, WellGone, FileTypes DEF Persist, Update, At
  <1>3. CASE Approved(c)
    <2>1. [file EXCEPT !.review = "approved"] \in FileType /\ [file EXCEPT !.review = "approved"].there = file.there
      BY DEF TypeOK, FileType, Review
    <2>2. SetStatus(c, "approved", [file EXCEPT !.review = "approved"], "validate", "idle")
          /\ call[c].pc = "approve"
      BY <1>3 DEF Approved, At
    <2>3. Well(c) /\ call'[c].pc \in {call[c].pc, "validate", "idle"}
      BY <1>1, <2>1, <2>2, WellSet DEF Status
    <2>4. QED
      BY <2>2, <2>3
  <1>4. CASE SaveDraft(c)
    <2>1. /\ [Edited(file) EXCEPT !.review = "pending"] \in FileType
          /\ [Edited(file) EXCEPT !.review = "pending"].there = file.there
      BY FileTypes DEF FileType, Review
    <2>2. file' \in FileType /\ (file'.there => file.there)
      BY <1>4, <2>1, FileTypes DEF SaveDraft, Update
    <2>3. QED
      BY <1>1, <1>4, <2>2, WellGone DEF SaveDraft, At
  <1>5. CASE Rejected(c)
    <2>1. file' \in FileType /\ (file'.there => file.there)
      BY <1>5 DEF Rejected, Update, TypeOK, FileType, Review, Rows
    <2>2. QED
      BY <1>1, <1>5, <2>1, WellGone DEF Rejected, At
  <1>6. QED
    BY <1>2, <1>3, <1>4, <1>5

LEMMA DeleteSteps ==
  ASSUME TypeOK, NEW c \in Call, DeleteUnconfirmed(c)
  PROVE  Well(c) /\ call'[c].pc \in {"remove", "idle"} /\ (call'[c].pc = "remove" => ~file'.there)
  <1>1. {"remove", "idle"} \subseteq Pc
    BY DEF Pc
  <1>2. CASE file.there /\ ~file.confirmed
    BY <1>1, <1>2, WellGone, NoCallTypes DEF DeleteUnconfirmed
  <1>3. CASE ~(file.there /\ ~file.confirmed)
    BY <1>1, <1>3, WellGone, FileTypes DEF DeleteUnconfirmed
  <1>4. QED
    BY <1>2, <1>3

LEMMA DuplicateSteps ==
  ASSUME TypeOK, NEW c \in Call, Duplicates(c)
  PROVE  /\ Well(c) /\ call'[c].pc \in {"insert", "fail"}
         /\ call'[c].pc = "insert" => call'[c].seen.valid # "none"
  <1>1. "insert" \in Pc /\ "fail" \in Pc
    BY DEF Pc, Called
  <1>2. file' \in FileType /\ (file'.there => file.there)
    BY FileTypes DEF Duplicates
  <1>3. CASE Goto(c, "insert") /\ call[c].seen.valid # "none"
    <2>1. Well(c) /\ call'[c].pc = "insert"
      BY <1>1, <1>2, <1>3, WellGone
    <2>2. call'[c].seen = call[c].seen
      <3>1. call'[c] = [call[c] EXCEPT !.pc = "insert", !.checked = FALSE]
        BY <1>3, Gone
      <3>2. QED
        BY <3>1 DEF TypeOK, CallType
    <2>3. QED
      BY <1>3, <2>1, <2>2
  <1>4. CASE Goto(c, "fail")
    <2>1. Well(c) /\ call'[c].pc = "fail"
      BY <1>1, <1>2, <1>4, WellGone
    <2>2. QED
      BY <2>1
  <1>5. QED
    BY <1>3, <1>4 DEF Duplicates

\* Which steps change what.
LEMMA StepKinds ==
  ASSUME TypeOK, NEW c \in Call, Steps(c)
  PROVE  /\ Well(c) /\ UNCHANGED <<doc, started, cut>>
         /\ call'[c].pc = "insert" => Duplicates(c)
         /\ call'[c].pc = "remove" => DeleteUnconfirmed(c)
         /\ call'[c].pc \in {"persist", "approve", "save", "reject"}
              => call[c].pc \in {"persist", "approve", "save", "reject"}
         /\ UNCHANGED table \/ Insert(c)
         /\ UNCHANGED object \/ RemoveObject(c)
  <1>1. CASE \/ Ingest(c) \/ Reset(c) \/ Classify(c) \/ Route(c) \/ Park(c) \/ Parking(c)
             \/ RemoveObject(c)
    <2>1. Ordinary(c)
      BY <1>1, IngestSteps
    <2>2. /\ call[c].pc # "insert"
          /\ call[c].pc = "remove" => RemoveObject(c)
      BY <1>1 DEF Ingest, Reset, Classify, Route, Park, Parking, RemoveObject, At
    <2>3. RemoveObject(c) => call'[c].pc = "idle"
      BY Gone DEF RemoveObject
    <2>4. UNCHANGED <<doc, started, cut, table>> /\ (UNCHANGED object \/ RemoveObject(c))
      BY <1>1 DEF Ingest, Reset, Classify, Route, Park, Parking, RemoveObject
    <2>5. QED
      BY <2>1, <2>2, <2>3, <2>4 DEF Ordinary
  <1>2. CASE \/ Parse(c) \/ ReadSheet(c) \/ Parsed(c) \/ ReadDocument(c)
             \/ Normalize(c) \/ Normalizing(c) \/ Publish(c) \/ BlockParse(c) \/ FailExtract(c)
    <2>1. Ordinary(c)
      BY <1>2, ParseSteps
    <2>2. call[c].pc \notin {"insert", "remove"}
      BY <1>2 DEF Parse, ReadSheet, Parsed, ReadDocument, Normalize, Normalizing, Publish,
                  BlockParse, FailExtract, At
    <2>3. UNCHANGED <<doc, started, cut, table, object>>
      BY <1>2 DEF Parse, ReadSheet, Parsed, ReadDocument, Normalize, Normalizing, Publish,
                  BlockParse, FailExtract
    <2>4. QED
      BY <2>1, <2>2, <2>3 DEF Ordinary
  <1>3. CASE \/ Validate(c) \/ Validating(c) \/ CheckRows(c) \/ Invalid(c) \/ Validated(c)
             \/ Store(c) \/ Storing(c) \/ Insert(c) \/ Stored(c) \/ Compute(c) \/ Fail(c)
    <2>1. Ordinary(c)
      BY <1>3, StoreSteps
    <2>2. /\ call[c].pc # "remove"
          /\ call[c].pc = "insert" => Insert(c)
      BY <1>3 DEF Validate, Validating, CheckRows, Invalid, Validated, Store, Storing, Insert,
                  Stored, Compute, Fail, At
    <2>3. Insert(c) => call'[c].pc # "insert"
      <3>1. /\ Goto(c, "stored") => call'[c].pc = "stored"
            /\ Goto(c, "fail") => call'[c].pc = "fail"
        <4>1. ASSUME Goto(c, "stored") PROVE call'[c].pc = "stored"
          BY <4>1, Gone
        <4>2. ASSUME Goto(c, "fail") PROVE call'[c].pc = "fail"
          BY <4>2, Gone
        <4>3. QED
          BY <4>1, <4>2
      <3>2. Stumble(c, "fail") => call'[c].pc = "fail"
        BY Ways, WellStumbled
      <3>3. QED
        BY <3>1, <3>2 DEF Insert
    <2>4. UNCHANGED <<doc, started, cut, object>> /\ (UNCHANGED table \/ Insert(c))
      BY <1>3 DEF Validate, Validating, CheckRows, Invalid, Validated, Store, Storing, Insert,
                  Stored, Compute, Fail
    <2>5. QED
      BY <2>1, <2>2, <2>3, <2>4 DEF Ordinary
  <1>4. CASE Persist(c) \/ Approved(c) \/ SaveDraft(c) \/ Rejected(c)
    <2>1. UNCHANGED <<doc, started, cut, object, table>>
      BY <1>4 DEF Persist, Approved, SaveDraft, Rejected
    <2>2. QED
      BY <1>4, <2>1, ReviewSteps
  <1>5. CASE DeleteUnconfirmed(c)
    <2>1. UNCHANGED <<doc, started, cut, object, table>>
      BY <1>5 DEF DeleteUnconfirmed
    <2>2. QED
      BY <1>5, <2>1, DeleteSteps
  <1>6. CASE Duplicates(c)
    <2>1. UNCHANGED <<doc, started, cut, object, table>>
      BY <1>6 DEF Duplicates
    <2>2. QED
      BY <1>6, <2>1, DuplicateSteps
  <1>7. QED
    BY <1>1, <1>2, <1>3, <1>4, <1>5, <1>6 DEF Steps

-----------------------------------------------------------------------------
(* Requests and failures *)

LEMMA Started ==
  ASSUME TypeOK, NEW c \in Call, NEW op, NEW pc \in Pc, Start(c, op, pc)
  PROVE  /\ call' \in [Call -> CallType] /\ started' \in 0 .. MaxCalls /\ cut' \in BOOLEAN
         /\ call'[c].pc = pc /\ call'[c].seen = NoFile /\ call'[c].op = op /\ ~call'[c].alone
         /\ call'[c].clean => op = "retry" /\ Quiet
         /\ \A d \in Call \ {c} : /\ call'[d].pc = call[d].pc /\ call'[d].seen = call[d].seen
                                 /\ ~call'[d].clean
         /\ UNCHANGED <<doc, object, table>>
  <1>1. started' \in 0 .. MaxCalls
    BY ImportAssumption DEF Start, TypeOK
  <1>2. cut' \in BOOLEAN
    BY DEF Start, TypeOK, Quiet
  <1>3. [NoCall EXCEPT !.pc = pc, !.op = op, !.clean = (op = "retry" /\ Quiet)] \in CallType
    BY NoCallTypes DEF Start, CallType, Quiet
  <1>4. \A d \in Call : [call[d] EXCEPT !.clean = FALSE] \in CallType
    BY DEF TypeOK, CallType
  <1>5. /\ call'[c] = [NoCall EXCEPT !.pc = pc, !.op = op, !.clean = (op = "retry" /\ Quiet)]
        /\ \A d \in Call \ {c} : call'[d] = [call[d] EXCEPT !.clean = FALSE]
        /\ call' \in [Call -> CallType]
        /\ UNCHANGED <<doc, object, table>>
    BY <1>3, <1>4 DEF Start
  <1>6. /\ call'[c].pc = pc /\ call'[c].seen = NoFile /\ call'[c].op = op /\ ~call'[c].alone
        /\ call'[c].clean = (op = "retry" /\ Quiet)
    BY <1>5, NoCallTypes DEF NoCall
  <1>7. \A d \in Call \ {c} : /\ call'[d].pc = call[d].pc /\ call'[d].seen = call[d].seen
                             /\ ~call'[d].clean
    BY <1>5 DEF TypeOK, CallType
  <1>8. QED
    BY <1>1, <1>2, <1>5, <1>6, <1>7

\* A request, by the place where it begins.
Requests(c) ==
    \/ Confirm(c) \/ Cancel(c) \/ Import(c) \/ Retry(c) \/ Approve(c) \/ Save(c) \/ Reject(c)

LEMMA RequestSteps ==
  ASSUME TypeOK, NEW c \in Call, Requests(c)
  PROVE  \E op \in Request, pc \in {"ingest", "cancel", "persist", "save", "reject"} :
           /\ Start(c, op, pc) /\ pc \in Pc
           /\ file' \in FileType /\ file'.there = file.there
           /\ Confirm(c) \/ UNCHANGED file
           /\ op = "retry" => pc = "ingest" /\ UNCHANGED file
           /\ pc \in {"persist", "save", "reject"} => NeedsReview(file)
  <1>1. {"ingest", "cancel", "persist", "save", "reject"} \subseteq Pc
    BY DEF Pc
  <1>2. CASE Confirm(c)
    <2>1. file' \in FileType /\ file'.there = file.there
      BY <1>2 DEF Confirm, TypeOK, FileType
    <2>2. Start(c, "confirm", "ingest") /\ "confirm" \in Request
      BY <1>2 DEF Confirm, Start
    <2>3. QED
      BY <1>1, <1>2, <2>1, <2>2
  <1>3. CASE Cancel(c)
    BY <1>1, <1>3, FileTypes DEF Cancel, Start
  <1>4. CASE Import(c)
    BY <1>1, <1>4, FileTypes DEF Import, Start
  <1>5. CASE Retry(c)
    BY <1>1, <1>5, FileTypes DEF Retry, Start
  <1>6. CASE Approve(c)
    BY <1>1, <1>6, FileTypes DEF Approve, Start, NeedsReview
  <1>7. CASE Save(c)
    BY <1>1, <1>7, FileTypes DEF Save, Start
  <1>8. CASE Reject(c)
    BY <1>1, <1>8, FileTypes DEF Reject, Start, NeedsReview
  <1>9. QED
    BY <1>2, <1>3, <1>4, <1>5, <1>6, <1>7, <1>8 DEF Requests

\* What a failure leaves of a call: nothing, itself left alone or parking, or a
\* copy of another that runs on alone.
LEMMA Failed ==
  ASSUME TypeOK, NEW c \in Call,
         Die(c) \/ Abandon(c) \/ \E d \in Call \ {c} : GiveUp(c, d)
  PROVE  /\ UNCHANGED <<doc, file, object, table, started>> /\ cut' = TRUE
         /\ call' \in [Call -> CallType]
         /\ \A d \in Call :
              \/ call'[d] = call[d]
              \/ ~call'[d].clean /\ call'[d].pc \in {"idle", "park"} /\ call'[d].seen \in {call[d].seen, NoFile}
              \/ ~call'[d].clean /\ call[c].pc \in Called
                 /\ call'[d].pc = call[c].pc /\ call'[d].seen = call[c].seen
         /\ \A d \in Call : call'[d].clean => call'[d] = call[d] /\ d # c
  <1>1. CASE Die(c)
    <2>1. /\ \A d \in Call \ {c} : call'[d] = call[d]
          /\ call'[c] = NoCall /\ call' \in [Call -> CallType]
      BY <1>1, Gone DEF Die, Pc
    <2>2. ~NoCall.clean
      BY DEF NoCall
    <2>3. QED
      BY <1>1, <2>1, <2>2, NoCallTypes DEF Die
  <1>2. CASE Abandon(c)
    <2>1. call' = [call EXCEPT ![c] = [@ EXCEPT !.alone = TRUE, !.clean = FALSE]]
      BY <1>2 DEF Abandon, TypeOK, CallType
    <2>2. [call[c] EXCEPT !.alone = TRUE, !.clean = FALSE] \in CallType
      BY DEF TypeOK, CallType
    <2>3. QED
      BY <1>2, <2>1, <2>2 DEF Abandon, TypeOK, CallType
  <1>3. ASSUME NEW e \in Call \ {c}, GiveUp(c, e)
        PROVE  /\ UNCHANGED <<doc, file, object, table, started>> /\ cut' = TRUE
               /\ call' \in [Call -> CallType]
               /\ \A d \in Call :
                     \/ call'[d] = call[d]
                     \/ /\ ~call'[d].clean /\ call'[d].pc \in {"idle", "park"}
                        /\ call'[d].seen \in {call[d].seen, NoFile}
                     \/ ~call'[d].clean /\ call[c].pc \in Called
                        /\ call'[d].pc = call[c].pc /\ call'[d].seen = call[c].seen
               /\ \A d \in Call : call'[d].clean => call'[d] = call[d] /\ d # c
    <2> DEFINE left == [call[c] EXCEPT !.pc = "park", !.checked = FALSE, !.clean = FALSE]
               copy == [call[c] EXCEPT !.alone = TRUE, !.clean = FALSE]
    <2>1. /\ left \in CallType /\ left.pc = "park" /\ left.clean = FALSE /\ left.seen = call[c].seen
          /\ copy \in CallType /\ copy.pc = call[c].pc /\ copy.clean = FALSE /\ copy.seen = call[c].seen
      BY DEF TypeOK, CallType, Pc
    <2>2. call' = [[call EXCEPT ![c] = left] EXCEPT ![e] = copy]
      BY <1>3 DEF GiveUp, TypeOK, CallType
    <2> HIDE DEF left, copy
    <2>3. /\ call' \in [Call -> CallType] /\ call'[c] = left /\ call'[e] = copy
          /\ \A d \in Call \ {c, e} : call'[d] = call[d]
      BY <1>3, <2>1, <2>2 DEF TypeOK
    <2>4. call[c].pc \in Called
      BY <1>3 DEF GiveUp, Called
    <2>5. QED
      BY <1>3, <2>1, <2>3, <2>4 DEF GiveUp
  <1>4. QED
    BY <1>1, <1>2, <1>3

LEMMA NextTypes == TypeInv /\ [Next]_vars => TypeInv'
  <1> SUFFICES ASSUME TypeInv, [Next]_vars PROVE TypeInv'
    OBVIOUS
  <1> USE DEF TypeInv
  <1>1. ASSUME NEW c \in Call, Steps(c)
        PROVE  TypeInv'
    <2>1. Well(c) /\ UNCHANGED <<doc, started, cut>>
      BY <1>1, StepKinds
    <2>2. object' \in BOOLEAN
      BY <1>1, StepKinds DEF RemoveObject, TypeOK
    <2>3. table' \in [Rows -> Nat] /\ table'["none"] = 0
      <3>1. CASE UNCHANGED table
        BY <3>1 DEF TypeOK
      <3>2. CASE Insert(c)
        <4>1. call[c].seen.valid \in Rows /\ call[c].seen.valid # "none"
          BY <3>2 DEF Insert, SomethingToInsert, TypeOK, CallType, FileType
        <4>2. table' \in {table, [table EXCEPT ![call[c].seen.valid] = @ + 1]}
          BY <3>2 DEF Insert
        <4>3. QED
          BY <4>1, <4>2 DEF TypeOK, Rows
      <3>3. QED
        BY <1>1, <3>1, <3>2, StepKinds
    <2>4. SomethingToInsert'
      <3> SUFFICES ASSUME NEW d \in Call, call'[d].pc = "insert"
                   PROVE  call'[d].seen.valid # "none"
        BY DEF SomethingToInsert, At
      <3>1. CASE d = c
        BY <1>1, <3>1, StepKinds, DuplicateSteps
      <3>2. CASE d # c
        BY <2>1, <3>2 DEF Well, SomethingToInsert, At
      <3>3. QED
        BY <3>1, <3>2
    <2>5. QED
      BY <2>1, <2>2, <2>3, <2>4 DEF TypeOK, Well
  <1>2. ASSUME NEW c \in Call, Requests(c)
        PROVE  TypeInv'
    <2>1. PICK op \in Request, pc \in {"ingest", "cancel", "persist", "save", "reject"} :
             Start(c, op, pc) /\ pc \in Pc /\ file' \in FileType
      BY <1>2, RequestSteps
    <2>2. /\ call' \in [Call -> CallType] /\ started' \in 0 .. MaxCalls /\ cut' \in BOOLEAN
          /\ UNCHANGED <<doc, object, table>>
      BY <2>1, Started
    <2>3. SomethingToInsert'
      BY <2>1, Started DEF SomethingToInsert, At
    <2>4. QED
      BY <2>1, <2>2, <2>3 DEF TypeOK
  <1>3. ASSUME NEW c \in Call, Die(c) \/ Abandon(c) \/ \E d \in Call \ {c} : GiveUp(c, d)
        PROVE  TypeInv'
    <2>1. SomethingToInsert'
      BY <1>3, Failed DEF SomethingToInsert, At
    <2>2. QED
      BY <1>3, <2>1, Failed DEF TypeOK
  <1>4. CASE Delete
    BY <1>4, NoCallTypes DEF Delete, TypeOK, SomethingToInsert, At
  <1>5. CASE UNCHANGED vars
    BY <1>5 DEF vars, TypeOK, SomethingToInsert, At
  <1>6. QED
    BY <1>1, <1>2, <1>3, <1>4, <1>5 DEF Next, Requests

LEMMA AlwaysTyped == Spec => []TypeInv
  BY InitTypes, NextTypes, PTL DEF Spec

\* The state is well-typed, and there are only raw and edited rows to insert.
THEOREM TypeCorrect == Spec => []TypeOK
  <1>1. TypeInv => TypeOK
    BY DEF TypeInv
  <1>2. QED
    BY <1>1, AlwaysTyped, PTL

-----------------------------------------------------------------------------
(* The document *)

LEMMA NextDocument == TypeInv /\ DocumentInv /\ [Next]_vars => DocumentInv'
  <1> SUFFICES ASSUME TypeInv, DocumentInv, [Next]_vars PROVE DocumentInv'
    OBVIOUS
  <1> USE DEF TypeInv
  <1>1. ASSUME NEW c \in Call, Steps(c)
        PROVE  DocumentInv'
    <2>1. Well(c) /\ (UNCHANGED object \/ RemoveObject(c))
      BY <1>1, StepKinds
    <2>2. RemoveObject(c) => ~file'.there
      BY DEF RemoveObject, DocumentInv, RemovesOrphans, At
    <2>3. ASSUME NEW d \in Call, call'[d].pc = "remove"
          PROVE  ~file'.there
      <3>1. CASE d = c
        BY <1>1, <2>3, <3>1, StepKinds, DeleteSteps
      <3>2. CASE d # c
        BY <2>1, <2>3, <3>2 DEF Well, DocumentInv, RemovesOrphans, At
      <3>3. QED
        BY <3>1, <3>2
    <2>4. QED
      BY <2>1, <2>2, <2>3 DEF Well, DocumentInv, DocumentKept, RemovesOrphans, At
  <1>2. ASSUME NEW c \in Call, Requests(c)
        PROVE  DocumentInv'
    <2>1. PICK op \in Request, pc \in {"ingest", "cancel", "persist", "save", "reject"} :
             Start(c, op, pc) /\ pc \in Pc /\ file'.there = file.there
      BY <1>2, RequestSteps
    <2>2. /\ call'[c].pc = pc /\ UNCHANGED object
          /\ \A d \in Call \ {c} : call'[d].pc = call[d].pc
      BY <2>1, Started
    <2>3. QED
      BY <2>1, <2>2 DEF DocumentInv, DocumentKept, RemovesOrphans, At
  <1>3. ASSUME NEW c \in Call, Die(c) \/ Abandon(c) \/ \E d \in Call \ {c} : GiveUp(c, d)
        PROVE  DocumentInv'
    <2>1. "remove" \notin Called
      BY DEF Called, Parsing
    <2>2. QED
      BY <1>3, <2>1, Failed DEF DocumentInv, DocumentKept, RemovesOrphans, At
  <1>4. CASE Delete
    BY <1>4, NoCallTypes DEF Delete, DocumentInv, DocumentKept, RemovesOrphans, At
  <1>5. CASE UNCHANGED vars
    BY <1>5 DEF vars, DocumentInv, DocumentKept, RemovesOrphans, At
  <1>6. QED
    BY <1>1, <1>2, <1>3, <1>4, <1>5 DEF Next, Requests

\* A file that has its row has its document, whatever cancel, confirm and the
\* deletion of the row do to each other.
THEOREM KeepsDocument == Spec => []DocumentKept
  <1>1. Init => DocumentInv
    BY NoCallTypes DEF Init, DocumentInv, DocumentKept, RemovesOrphans, At
  <1>2. DocumentInv => DocumentKept
    BY DEF DocumentInv
  <1>3. Spec => []DocumentInv
    BY <1>1, AlwaysTyped, NextDocument, PTL DEF Spec
  <1>4. QED
    BY <1>2, <1>3, PTL

-----------------------------------------------------------------------------
(* Rows of expenses *)

LEMMA NextImports == TypeInv /\ ImportedOnce /\ [Next]_vars => ImportedOnce'
  <1> SUFFICES ASSUME TypeInv, ImportedOnce, [Next]_vars PROVE ImportedOnce'
    OBVIOUS
  <1> USE DEF TypeInv
  <1>1. CASE UNCHANGED <<doc, table>>
    BY <1>1 DEF ImportedOnce
  <1>2. ASSUME NEW c \in Call, Steps(c)
        PROVE  ImportedOnce'
    <2>1. UNCHANGED doc /\ (UNCHANGED table \/ Insert(c))
      BY <1>2, StepKinds
    <2>2. CASE Insert(c)
      <3> DEFINE rows == call[c].seen.valid
      <3>1. rows \in Rows
        BY DEF TypeOK, CallType, FileType
      <3>2. \/ UNCHANGED table
            \/ ~(doc.expenses /\ table[rows] > 0) /\ table' = [table EXCEPT ![rows] = @ + 1]
        BY <2>2 DEF Insert
      <3> HIDE DEF rows
      <3>3. CASE UNCHANGED table
        BY <1>1, <2>1, <3>3
      <3>4. CASE ~(doc.expenses /\ table[rows] > 0) /\ table' = [table EXCEPT ![rows] = @ + 1]
        BY <2>1, <3>1, <3>4 DEF ImportedOnce, TypeOK
      <3>5. QED
        BY <3>2, <3>3, <3>4
    <2>3. QED
      BY <1>1, <2>1, <2>2
  <1>3. ASSUME NEW c \in Call, Requests(c)
        PROVE  UNCHANGED <<doc, table>>
    BY <1>3, RequestSteps, Started
  <1>4. ASSUME NEW c \in Call, Die(c) \/ Abandon(c) \/ \E d \in Call \ {c} : GiveUp(c, d)
        PROVE  UNCHANGED <<doc, table>>
    BY <1>4, Failed
  <1>5. CASE Delete \/ UNCHANGED vars
    BY <1>1, <1>5 DEF Delete, vars
  <1>6. QED
    BY <1>1, <1>2, <1>3, <1>4, <1>5 DEF Next, Requests

\* The unique key keeps the rows of a file of expenses from being inserted
\* twice, by however many calls that have looked for duplicates before.
THEOREM OnlyOnce == Spec => []ImportedOnce
  <1>1. Init => ImportedOnce
    BY DEF Init, ImportedOnce
  <1>2. QED
    BY <1>1, AlwaysTyped, NextImports, PTL DEF Spec

-----------------------------------------------------------------------------
(* Files that need no review *)

LEMMA PlainSet ==
  ASSUME NEW c \in Call, NEW to, NEW patched, NEW next, NEW otherwise,
         file \in FileType, patched \in FileType, Plain(file), Plain(patched),
         SetStatus(c, to, patched, next, otherwise)
  PROVE  Plain(file')
  <1>1. file' \in {file, [patched EXCEPT !.status = to]}
    BY DEF SetStatus
  <1>2. Plain([patched EXCEPT !.status = to])
    BY DEF Plain, NeedsReview, FileType
  <1>3. QED
    BY <1>1, <1>2

LEMMA PlainFiles ==
  ASSUME file \in FileType, Plain(file)
  PROVE  /\ Plain(Blocked(file))
         /\ \A r \in Rows : Plain([file EXCEPT !.parsed = r]) /\ Plain([file EXCEPT !.valid = r])
         /\ Plain([file EXCEPT !.status = "failed"]) /\ Plain([file EXCEPT !.status = "uploaded"])
         /\ Plain([file EXCEPT !.review = "not_required"])
         /\ Plain([file EXCEPT !.final = "none"])
         /\ [file EXCEPT !.parsed = "raw", !.payload = TRUE] \in FileType
         /\ Plain([file EXCEPT !.parsed = "raw", !.payload = TRUE])
         /\ Plain([file EXCEPT !.confirmed = TRUE])
  BY DEF Plain, NeedsReview, FileType, Blocked, Rows

LEMMA PlainNoFile == Plain(NoFile)
  BY DEF Plain, NeedsReview, NoFile, NewFile

\* No step of a call gives a file a review that it does not need.
LEMMA PlainSteps ==
  ASSUME TypeInv, NEW c \in Call, Steps(c), doc.kind # "review", Plain(file),
         Plain(call[c].seen), call[c].pc \notin {"persist", "approve", "save", "reject"}
  PROVE  Plain(file')
  <1>1. /\ file \in FileType /\ Blocked(file) \in FileType
        /\ \A r \in Rows : /\ [file EXCEPT !.parsed = r] \in FileType
                           /\ [file EXCEPT !.valid = r] \in FileType
                           /\ [file EXCEPT !.final = r] \in FileType
        /\ {"none", "raw", "edited"} \subseteq Rows
    BY FileTypes DEF TypeInv
  <1>2. CASE UNCHANGED file
    BY <1>2
  <1>3. CASE DeleteUnconfirmed(c)
    BY <1>3, PlainNoFile DEF DeleteUnconfirmed
  <1>4. CASE Reset(c) \/ Classify(c) \/ FailExtract(c) \/ Invalid(c) \/ Fail(c)
    BY <1>1, <1>4, PlainFiles DEF Reset, Classify, FailExtract, Invalid, Fail, SetFailed, Update
  <1>5. CASE Parking(c) \/ BlockParse(c)
    BY <1>1, <1>5, PlainFiles, PlainSet DEF Parking, BlockParse
  <1>6. CASE Parse(c) \/ Parsed(c) \/ Normalizing(c) \/ Validating(c) \/ Validated(c)
             \/ Storing(c) \/ Compute(c)
    BY <1>1, <1>6, PlainSet DEF Parse, Parsed, Normalizing, Validating, Validated, Storing, Compute
  <1>7. CASE ReadSheet(c)
    BY <1>1, <1>7, PlainFiles DEF ReadSheet, Update, Stumble
  <1>8. CASE ReadDocument(c)
    <2>1. \/ UNCHANGED file
          \/ SetStatus(c, "pdf_parsed", [file EXCEPT !.parsed = "none"],
                       After(c, "parse", TRUE), "blocked")
      BY <1>8 DEF ReadDocument, Stumble
    <2>2. QED
      BY <1>1, <1>2, <2>1, PlainFiles, PlainSet
  <1>9. CASE Publish(c)
    <2> DEFINE r == [file EXCEPT !.parsed = "raw", !.payload = TRUE]
    <2>1. r \in FileType /\ Plain(r)
      BY <1>1, PlainFiles
    <2>2. \/ UNCHANGED file
          \/ SetStatus(c, "validated", r, After(c, "normalize", TRUE), "unread")
      BY <1>9 DEF Publish, Stumble, Plain
    <2> HIDE DEF r
    <2>3. QED
      BY <1>1, <1>2, <2>1, <2>2, PlainSet
  <1>10. CASE CheckRows(c)
    <2>1. RowsToValidate(call[c].seen) \in Rows
      BY DEF TypeInv, TypeOK, CallType, FileType, RowsToValidate
    <2>2. file' \in {file, [file EXCEPT !.valid = RowsToValidate(call[c].seen)],
                     [file EXCEPT !.valid = "none"]}
      BY <1>10 DEF CheckRows, Update
    <2>3. QED
      BY <1>1, <2>1, <2>2, PlainFiles
  <1>11. CASE Stored(c)
    <2>1. call[c].seen.final = "none"
      BY DEF Plain
    <2>2. QED
      BY <1>1, <1>11, <2>1, PlainFiles, PlainSet DEF Stored
  <1>12. CASE \/ Ingest(c) \/ Route(c) \/ Park(c) \/ RemoveObject(c) \/ Normalize(c)
              \/ Validate(c) \/ Store(c) \/ Duplicates(c) \/ Insert(c)
    BY <1>2, <1>12 DEF Ingest, Route, Park, RemoveObject, Normalize, Validate, Store, Duplicates,
                       Insert, Stumble
  <1>13. ~(Persist(c) \/ Approved(c) \/ SaveDraft(c) \/ Rejected(c))
    BY DEF Persist, Approved, SaveDraft, Rejected, At
  <1>14. QED
    BY <1>3, <1>4, <1>5, <1>6, <1>7, <1>8, <1>9, <1>10, <1>11, <1>12, <1>13 DEF Steps

LEMMA NextUnreviewed == TypeInv /\ Unreviewed /\ [Next]_vars => Unreviewed'
  <1> SUFFICES ASSUME TypeInv, Unreviewed, [Next]_vars PROVE Unreviewed'
    OBVIOUS
  <1>1. CASE doc'.kind = "review"
    BY <1>1 DEF Unreviewed
  <1>2. CASE doc.kind # "review"
    <2>1. /\ Plain(file)
          /\ \A d \in Call : /\ Plain(call[d].seen)
                             /\ call[d].pc \notin {"persist", "approve", "save", "reject"}
      BY <1>2 DEF Unreviewed
    <2>2. ASSUME NEW c \in Call, Steps(c)
          PROVE  Unreviewed'
      <3>1. Plain(file')
        BY <1>2, <2>1, <2>2, PlainSteps
      <3>2. /\ Well(c)
            /\ call'[c].pc \in {"persist", "approve", "save", "reject"}
                 => call[c].pc \in {"persist", "approve", "save", "reject"}
        BY <2>2, StepKinds DEF TypeInv
      <3>3. \A d \in Call : /\ Plain(call'[d].seen)
                            /\ call'[d].pc \notin {"persist", "approve", "save", "reject"}
        BY <2>1, <3>2, PlainNoFile DEF Well
      <3>4. QED
        BY <3>1, <3>3 DEF Unreviewed
    <2>3. ASSUME NEW c \in Call, Requests(c)
          PROVE  Unreviewed'
      <3>1. PICK op \in Request, pc \in {"ingest", "cancel", "persist", "save", "reject"} :
               /\ Start(c, op, pc) /\ pc \in Pc /\ (Confirm(c) \/ UNCHANGED file)
               /\ pc \in {"persist", "save", "reject"} => NeedsReview(file)
        BY <2>3, RequestSteps DEF TypeInv
      <3>2. Plain(file')
        BY <2>1, <3>1, PlainFiles DEF Confirm, TypeInv, TypeOK
      <3>3. pc \notin {"persist", "approve", "save", "reject"}
        BY <2>1, <3>1 DEF Plain
      <3>4. \A d \in Call : /\ Plain(call'[d].seen)
                            /\ call'[d].pc \notin {"persist", "approve", "save", "reject"}
        BY <2>1, <3>1, <3>3, Started, PlainNoFile DEF TypeInv
      <3>5. QED
        BY <3>2, <3>4 DEF Unreviewed
    <2>4. ASSUME NEW c \in Call, Die(c) \/ Abandon(c) \/ \E d \in Call \ {c} : GiveUp(c, d)
          PROVE  Unreviewed'
      <3>1. \A d \in Call : /\ Plain(call'[d].seen)
                            /\ call'[d].pc \notin {"persist", "approve", "save", "reject"}
        BY <2>1, <2>4, Failed, PlainNoFile DEF TypeInv
      <3>2. file' = file
        BY <2>4, Failed DEF TypeInv
      <3>3. QED
        BY <2>1, <3>1, <3>2 DEF Unreviewed
    <2>5. CASE Delete
      BY <2>1, <2>5, PlainNoFile DEF Delete, Unreviewed
    <2>6. CASE UNCHANGED vars
      BY <2>6, <2>1 DEF vars, Unreviewed
    <2>7. QED
      BY <2>2, <2>3, <2>4, <2>5, <2>6 DEF Next, Requests
  <1>3. doc' = doc
    <2>1. ASSUME NEW c \in Call, Steps(c) PROVE doc' = doc
      BY <2>1, StepKinds DEF TypeInv
    <2>2. ASSUME NEW c \in Call, Requests(c) PROVE doc' = doc
      BY <2>2, RequestSteps, Started DEF TypeInv
    <2>3. ASSUME NEW c \in Call, Die(c) \/ Abandon(c) \/ \E d \in Call \ {c} : GiveUp(c, d)
          PROVE  doc' = doc
      BY <2>3, Failed DEF TypeInv
    <2>4. QED
      BY <2>1, <2>2, <2>3 DEF Next, Requests, Delete, vars
  <1>4. QED
    BY <1>1, <1>2, <1>3

-----------------------------------------------------------------------------
(* A forced retry that nothing disturbs *)

Repaired == IF doc.kind = "review" THEN file.status = "review_required" /\ file.parsed = "raw"
            ELSE table["raw"] > 0

\* What a step leaves of a retry: an end that repairs, or what it has achieved.
Outcome(c) ==
    IF call[c].pc = "idle" THEN Repaired
    ELSE call[c].clean /\ file.there => Achieved(call[c].pc, file, call[c].seen)

CleanAt(c) ==
    /\ TypeInv /\ file.there /\ object
    /\ call[c].clean /\ call[c].op = "retry" /\ ~call[c].alone
    /\ Achieved(call[c].pc, file, call[c].seen)
    /\ doc.kind # "review" => Plain(file) /\ Plain(call[c].seen)

LEMMA GoneOn ==
  ASSUME TypeOK, NEW c \in Call, NEW pc, pc # "idle", Goto(c, pc)
  PROVE  call'[c].pc = pc /\ call'[c].seen = call[c].seen
  <1>1. call'[c] = [call[c] EXCEPT !.pc = pc, !.checked = FALSE]
    BY Gone
  <1>2. QED
    BY <1>1 DEF TypeOK, CallType

LEMMA AfterClean ==
  ASSUME NEW c \in Call, ~call[c].alone
  PROVE  /\ After(c, "parse", TRUE) = IF doc.kind = "sheet" THEN "validate" ELSE "normalize"
         /\ After(c, "normalize", TRUE) = "route"
         /\ After(c, "validate", TRUE) = "store"
  BY DEF After

LEMMA MayGoOn ==
  /\ IsAllowed("uploaded", "parsing") /\ IsAllowed("failed", "parsing")
  /\ IsAllowed("parsing", "parsed") /\ IsAllowed("parsing", "pdf_parsed")
  /\ IsAllowed("pdf_parsed", "validating") /\ IsAllowed("parsed", "validating")
  /\ IsAllowed("validated", "validating")
  /\ IsAllowed("validating", "review_required") /\ IsAllowed("validating", "validated")
  /\ IsAllowed("validated", "storing")
  BY DEF IsAllowed, Onward

\* A status that may be set is set, after a look at what it was.
LEMMA CleanSet ==
  ASSUME NEW c \in Call, CleanAt(c), NEW to, NEW patched, NEW next, NEW otherwise,
         SetStatus(c, to, patched, next, otherwise), IsAllowed(file.status, to),
         next # "idle", UNCHANGED <<doc, table>>, call[c].pc # "idle",
         file' = [patched EXCEPT !.status = to] /\ call'[c].pc = next /\ call'[c].seen = call[c].seen
           => Outcome(c)'
  PROVE  Outcome(c)'
  <1>1. TypeOK /\ file.there
    BY DEF CleanAt, TypeInv
  <1>2. CASE file' = file /\ call' = [call EXCEPT ![c].checked = TRUE]
    <2>1. call'[c].pc = call[c].pc /\ call'[c].seen = call[c].seen
      BY <1>1, <1>2 DEF TypeOK, CallType
    <2>2. Achieved(call[c].pc, file, call[c].seen)'
      BY <1>2, <2>1 DEF CleanAt, Achieved, Fresh, Extracted
    <2>3. QED
      BY <2>1, <2>2 DEF Outcome
  <1>3. CASE file' = [patched EXCEPT !.status = to] /\ Goto(c, next)
    BY <1>1, <1>3, GoneOn
  <1>4. QED
    BY <1>1, <1>2, <1>3, StatusSet

LEMMA CleanIngest ==
  ASSUME NEW c \in Call, CleanAt(c), Ingest(c) \/ Reset(c) \/ Classify(c) \/ Route(c)
  PROVE  Outcome(c)'
  <1> USE DEF CleanAt, Outcome, Achieved, Places
  <1>1. TypeOK /\ file \in FileType
    BY DEF TypeInv, TypeOK
  <1>2. CASE Ingest(c)
    <2>1. UNCHANGED <<doc, file, table>>
      BY <1>2 DEF Ingest
    <2>2. CASE file.status \notin {"uploaded", "failed"}
      <3>1. Goto(c, "reset")
        BY <1>2, <2>2 DEF Ingest
      <3>2. call'[c].pc = "reset"
        BY <1>1, <3>1, GoneOn
      <3>3. QED
        BY <3>2
    <2>3. CASE file.status \in {"uploaded", "failed"}
      <3>1. Goto(c, "classify")
        BY <1>2, <2>3 DEF Ingest
      <3>2. call'[c].pc = "classify"
        BY <1>1, <3>1, GoneOn
      <3>3. QED
        BY <2>1, <2>3, <3>2
    <2>4. QED
      BY <2>2, <2>3
  <1>3. CASE Reset(c)
    <2>1. call'[c].pc = "classify"
      BY <1>1, <1>3, GoneOn DEF Reset
    <2>2. file'.status = "uploaded"
      BY <1>1, <1>3 DEF Reset, Update, FileType
    <2>3. QED
      BY <2>1, <2>2
  <1>4. CASE Classify(c)
    <2>1. call'[c].pc = "parse"
      BY <1>1, <1>4, GoneOn DEF Classify
    <2>2. Fresh(file)' /\ file'.status = file.status
      BY <1>1, <1>4 DEF Classify, Update, FileType, Fresh
    <2>3. file.status \in {"uploaded", "failed"}
      BY <1>4 DEF Classify, At
    <2>4. QED
      BY <2>1, <2>2, <2>3
  <1>5. CASE Route(c)
    <2>1. UNCHANGED <<doc, file, table>> /\ call[c].pc = "route"
      BY <1>5 DEF Route, At
    <2>2. CASE NeedsReview(file)
      <3>1. call'[c].pc = "idle"
        BY <1>1, <1>5, <2>2, Gone DEF Route
      <3>2. doc.kind = "review"
        BY <2>2 DEF Plain
      <3>3. QED
        BY <2>1, <3>1, <3>2 DEF Repaired
    <2>3. CASE ~NeedsReview(file)
      <3>1. call'[c].pc = "validate"
        BY <1>1, <1>5, <2>3, GoneOn DEF Route
      <3>2. doc.kind # "review"
        BY <2>1, <2>3 DEF NeedsReview, Fresh
      <3>3. QED
        BY <2>1, <3>1, <3>2 DEF Extracted, Fresh
    <2>4. QED
      BY <2>2, <2>3
  <1>6. QED
    BY <1>2, <1>3, <1>4, <1>5

LEMMA CleanParse ==
  ASSUME NEW c \in Call, CleanAt(c),
         Parse(c) \/ ReadSheet(c) \/ Parsed(c) \/ ReadDocument(c) \/ Normalize(c)
           \/ Normalizing(c) \/ Publish(c)
  PROVE  Outcome(c)'
  <1>1. TypeOK /\ file \in FileType /\ ~call[c].alone /\ object
    BY DEF TypeInv, TypeOK, CleanAt
  <1>2. ASSUME NEW pc, Stumble(c, pc), pc \in Pc \ {"idle"}
        PROVE  Outcome(c)'
    <2>1. call'[c].pc = pc /\ ~call'[c].clean
      BY <1>1, <1>2 DEF Stumble, TypeOK, CallType
    <2>2. QED
      BY <1>2, <2>1 DEF Outcome
  <1>3. CASE Parse(c)
    <2>1. /\ call[c].pc = "parse" /\ UNCHANGED <<doc, table>>
          /\ SetStatus(c, "parsing", file, "parsing", After(c, "extract", FALSE))
      BY <1>3 DEF Parse, At
    <2>2. file.status \in {"uploaded", "failed"} /\ Fresh(file)
      BY <2>1 DEF CleanAt, Achieved
    <2>3. file' = [file EXCEPT !.status = "parsing"] /\ call'[c].pc = "parsing"
            /\ call'[c].seen = call[c].seen => Outcome(c)'
      BY <1>1, <2>1, <2>2 DEF Outcome, Achieved, Places, Fresh, FileType
    <2>4. QED
      BY <2>1, <2>2, <2>3, MayGoOn, CleanSet
  <1>4. CASE ReadSheet(c)
    <2>1. /\ call[c].pc = "parsing" /\ UNCHANGED <<doc, table>> /\ doc.kind = "sheet"
          /\ \/ Update([file EXCEPT !.parsed = "raw"]) /\ Goto(c, "parsed")
             \/ Stumble(c, "unread")
      BY <1>1, <1>4 DEF ReadSheet, At
    <2>2. CASE Update([file EXCEPT !.parsed = "raw"]) /\ Goto(c, "parsed")
      <3>1. call'[c].pc = "parsed"
        BY <1>1, <2>2, GoneOn
      <3>2. file' = [file EXCEPT !.parsed = "raw"]
        BY <2>2 DEF Update, CleanAt
      <3>3. Fresh(file) /\ file.status = "parsing"
        BY <2>1 DEF CleanAt, Achieved
      <3>4. Extracted(file)' /\ file'.status = "parsing"
        BY <1>1, <2>1, <3>2, <3>3 DEF Extracted, Fresh, FileType
      <3>5. QED
        BY <2>1, <3>1, <3>4 DEF Outcome, Achieved, Places
    <2>3. CASE Stumble(c, "unread")
      BY <1>2, <2>3 DEF Pc, Called, Parsing
    <2>4. QED
      BY <2>1, <2>2, <2>3
  <1>5. CASE Parsed(c)
    <2>1. /\ call[c].pc = "parsed" /\ UNCHANGED <<doc, table>>
          /\ SetStatus(c, "parsed", file, After(c, "parse", TRUE), After(c, "parse", TRUE))
      BY <1>5 DEF Parsed, At
    <2>2. file.status = "parsing" /\ Extracted(file) /\ doc.kind = "sheet"
      BY <2>1 DEF CleanAt, Achieved
    <2>3. After(c, "parse", TRUE) = "validate"
      BY <1>1, <2>2, AfterClean
    <2>4. file' = [file EXCEPT !.status = "parsed"] /\ call'[c].pc = "validate"
            /\ call'[c].seen = call[c].seen => Outcome(c)'
      BY <1>1, <2>1, <2>2 DEF Outcome, Achieved, Places, Extracted, Fresh, FileType
    <2>5. QED
      BY <2>1, <2>2, <2>3, <2>4, MayGoOn, CleanSet
  <1>6. CASE ReadDocument(c)
    <2>1. /\ call[c].pc = "parsing" /\ UNCHANGED <<doc, table>> /\ doc.kind # "sheet"
          /\ \/ SetStatus(c, "pdf_parsed", [file EXCEPT !.parsed = "none"],
                          After(c, "parse", TRUE), "blocked")
             \/ Stumble(c, "blocked")
      BY <1>1, <1>6 DEF ReadDocument, At
    <2>2. file.status = "parsing" /\ Fresh(file)
      BY <2>1 DEF CleanAt, Achieved
    <2>3. After(c, "parse", TRUE) = "normalize"
      BY <1>1, <2>1, AfterClean
    <2>4. file' = [[file EXCEPT !.parsed = "none"] EXCEPT !.status = "pdf_parsed"]
            /\ call'[c].pc = "normalize" /\ call'[c].seen = call[c].seen => Outcome(c)'
      BY <1>1, <2>1, <2>2 DEF Outcome, Achieved, Places, Fresh, FileType
    <2>5. CASE SetStatus(c, "pdf_parsed", [file EXCEPT !.parsed = "none"],
                         After(c, "parse", TRUE), "blocked")
      BY <2>1, <2>2, <2>3, <2>4, <2>5, MayGoOn, CleanSet
    <2>6. CASE Stumble(c, "blocked")
      BY <1>2, <2>6 DEF Pc, Called, Parsing
    <2>7. QED
      BY <2>1, <2>5, <2>6
  <1>7. CASE Normalize(c)
    <2>1. call[c].pc = "normalize" /\ UNCHANGED <<doc, file, table>>
      BY <1>7 DEF Normalize, At
    <2>2. file.status = "pdf_parsed" /\ Fresh(file) /\ doc.kind # "sheet"
      BY <2>1 DEF CleanAt, Achieved
    <2>3. Keep(c, "normalizing")
      BY <1>7, <2>2 DEF Normalize, CleanAt
    <2>4. call'[c].pc = "normalizing" /\ call'[c].seen = file
      BY <1>1, <2>3, Kept DEF Pc, Called
    <2>5. QED
      BY <2>1, <2>2, <2>4 DEF Outcome, Achieved, Places, Fresh
  <1>8. CASE Normalizing(c)
    <2>1. /\ call[c].pc = "normalizing" /\ UNCHANGED <<doc, table>>
          /\ SetStatus(c, "validating", file, "publish", After(c, "extract", FALSE))
      BY <1>8 DEF Normalizing, At
    <2>2. file.status = "pdf_parsed" /\ Fresh(file) /\ Fresh(call[c].seen) /\ doc.kind # "sheet"
      BY <2>1 DEF CleanAt, Achieved
    <2>3. file' = [file EXCEPT !.status = "validating"] /\ call'[c].pc = "publish"
            /\ call'[c].seen = call[c].seen => Outcome(c)'
      BY <1>1, <2>1, <2>2 DEF Outcome, Achieved, Places, Fresh, FileType
    <2>4. QED
      BY <2>1, <2>2, <2>3, MayGoOn, CleanSet
  <1>9. CASE Publish(c)
    <2> DEFINE r == [file EXCEPT !.parsed = "raw", !.payload = TRUE]
               r1 == [r EXCEPT !.review = "pending"]
    <2>1. call[c].pc = "publish" /\ UNCHANGED <<doc, table>>
      BY <1>9 DEF Publish, At
    <2>2. /\ file.status = "validating" /\ Fresh(file) /\ Fresh(call[c].seen)
          /\ NeedsReview(call[c].seen) <=> doc.kind = "review"
      BY <2>1 DEF CleanAt, Achieved, Fresh, NeedsReview
    <2>3. /\ r.parsed = "raw" /\ r.review = file.review /\ r1.parsed = "raw" /\ r1.review = "pending"
          /\ r \in FileType /\ r1 \in FileType
      BY <1>1 DEF FileType, Rows, Review
    <2> HIDE DEF r, r1
    <2>4. CASE NeedsReview(call[c].seen)
               /\ SetStatus(c, "review_required", r1, After(c, "normalize", TRUE), "unread")
      <3>1. file' = [r1 EXCEPT !.status = "review_required"] /\ call'[c].pc = "route"
              /\ call'[c].seen = call[c].seen => Outcome(c)'
        BY <2>1, <2>2, <2>3, <2>4 DEF Outcome, Achieved, Places, Fresh, FileType
      <3>2. QED
        BY <1>1, <2>1, <2>2, <2>4, <3>1, MayGoOn, AfterClean, CleanSet
    <2>5. CASE ~NeedsReview(call[c].seen)
               /\ SetStatus(c, "validated", r, After(c, "normalize", TRUE), "unread")
      <3>1. file' = [r EXCEPT !.status = "validated"] /\ call'[c].pc = "route"
              /\ call'[c].seen = call[c].seen => Outcome(c)'
        BY <2>1, <2>2, <2>3, <2>5 DEF Outcome, Achieved, Places, Extracted, Fresh, FileType
      <3>2. QED
        BY <1>1, <2>1, <2>2, <2>5, <3>1, MayGoOn, AfterClean, CleanSet
    <2>6. CASE Stumble(c, "blocked")
      BY <1>2, <2>6 DEF Pc, Called, Parsing
    <2>7. CASE Stumble(c, After(c, "normalize", TRUE))
      BY <1>1, <1>2, <2>7, AfterClean DEF Pc
    <2>8. QED
      BY <1>9, <2>4, <2>5, <2>6, <2>7 DEF Publish, r, r1
  <1>10. QED
    BY <1>3, <1>4, <1>5, <1>6, <1>7, <1>8, <1>9

LEMMA CleanStore ==
  ASSUME NEW c \in Call, CleanAt(c),
         Validate(c) \/ Validating(c) \/ CheckRows(c) \/ Validated(c) \/ Store(c)
           \/ Storing(c) \/ Duplicates(c) \/ Insert(c) \/ Stored(c) \/ Compute(c) \/ Fail(c)
  PROVE  Outcome(c)'
  <1>1. TypeOK /\ file \in FileType /\ ~call[c].alone
    BY DEF TypeInv, TypeOK, CleanAt
  <1>2. CASE Validate(c)
    <2>1. call[c].pc = "validate" /\ UNCHANGED <<doc, file, table>>
      BY <1>2 DEF Validate, At
    <2>2. file.status \in {"parsed", "validated"} /\ Extracted(file)
      BY <2>1 DEF CleanAt, Achieved
    <2>3. Keep(c, "validating")
      BY <1>2, <2>2 DEF Validate, CleanAt
    <2>4. call'[c].pc = "validating" /\ call'[c].seen = file
      BY <1>1, <2>3, Kept DEF Pc, Called
    <2>5. QED
      BY <2>1, <2>2, <2>4 DEF Outcome, Achieved, Places, Extracted, Fresh
  <1>3. CASE Validating(c)
    <2>1. /\ call[c].pc = "validating" /\ UNCHANGED <<doc, table>>
          /\ SetStatus(c, "validating", file, "check", After(c, "validate", FALSE))
      BY <1>3 DEF Validating, At
    <2>2. /\ file.status \in {"parsed", "validated"} /\ Extracted(file)
          /\ call[c].seen.status # "approved" /\ Extracted(call[c].seen)
      BY <2>1 DEF CleanAt, Achieved
    <2>3. file' = [file EXCEPT !.status = "validating"] /\ call'[c].pc = "check"
            /\ call'[c].seen = call[c].seen => Outcome(c)'
      BY <1>1, <2>1, <2>2 DEF Outcome, Achieved, Places, Extracted, Fresh, FileType
    <2>4. QED
      BY <2>1, <2>2, <2>3, MayGoOn, CleanSet
  <1>4. CASE CheckRows(c)
    <2>1. call[c].pc = "check" /\ UNCHANGED <<doc, table>>
      BY <1>4 DEF CheckRows, At
    <2>2. /\ file.status = "validating" /\ Extracted(file)
          /\ call[c].seen.status # "approved" /\ Extracted(call[c].seen)
      BY <2>1 DEF CleanAt, Achieved
    <2>3. RowsToValidate(call[c].seen) = "raw"
      BY <2>2 DEF RowsToValidate, CleanAt, Extracted, Plain
    <2>4. CASE Update([file EXCEPT !.valid = "raw"]) /\ Goto(c, "validated")
      <3>1. call'[c].pc = "validated"
        BY <1>1, <2>4, GoneOn
      <3>2. file' = [file EXCEPT !.valid = "raw"]
        BY <2>4 DEF Update, CleanAt
      <3>3. Extracted(file)' /\ file'.status = "validating" /\ file'.valid = "raw"
        BY <1>1, <2>1, <2>2, <3>2 DEF Extracted, Fresh, FileType
      <3>4. QED
        BY <3>1, <3>3 DEF Outcome, Achieved, Places
    <2>5. CASE call' = [call EXCEPT ![c].pc = "invalid", ![c].clean = FALSE]
      BY <1>1, <2>5 DEF Outcome, TypeOK, CallType
    <2>6. QED
      BY <1>4, <2>3, <2>4, <2>5 DEF CheckRows
  <1>5. CASE Validated(c)
    <2>1. /\ call[c].pc = "validated" /\ UNCHANGED <<doc, table>>
          /\ SetStatus(c, "validated", file, "store", "store")
      BY <1>1, <1>5, AfterClean DEF Validated, At
    <2>2. file.status = "validating" /\ Extracted(file) /\ file.valid = "raw"
      BY <2>1 DEF CleanAt, Achieved
    <2>3. file' = [file EXCEPT !.status = "validated"] /\ call'[c].pc = "store"
            /\ call'[c].seen = call[c].seen => Outcome(c)'
      BY <1>1, <2>1, <2>2 DEF Outcome, Achieved, Places, Extracted, Fresh, FileType
    <2>4. QED
      BY <2>1, <2>2, <2>3, MayGoOn, CleanSet
  <1>6. CASE Store(c)
    <2>1. call[c].pc = "store" /\ UNCHANGED <<doc, file, table>>
      BY <1>6 DEF Store, At
    <2>2. file.status = "validated" /\ Extracted(file) /\ file.valid = "raw"
      BY <2>1 DEF CleanAt, Achieved
    <2>3. Storable(file)
      BY <2>2 DEF Storable, CleanAt, Extracted, Plain
    <2>4. call'[c].pc = "storing" /\ call'[c].seen = file
      BY <1>1, <1>6, <2>3, Kept DEF Store, Pc, Called
    <2>5. QED
      BY <2>1, <2>2, <2>4 DEF Outcome, Achieved, Places, Extracted
  <1>7. CASE Storing(c)
    <2>1. /\ call[c].pc = "storing" /\ UNCHANGED <<doc, table>>
          /\ SetStatus(c, "storing", file, "duplicates", "idle")
      BY <1>7 DEF Storing, At
    <2>2. file.status = "validated" /\ call[c].seen.valid = "raw" /\ doc.kind # "review"
      BY <2>1 DEF CleanAt, Achieved
    <2>3. call'[c].pc = "duplicates" /\ call'[c].seen = call[c].seen => Outcome(c)'
      BY <2>1, <2>2 DEF Outcome, Achieved, Places
    <2>4. QED
      BY <2>1, <2>2, <2>3, MayGoOn, CleanSet
  <1>8. CASE Duplicates(c)
    <2>1. call[c].pc = "duplicates" /\ UNCHANGED <<doc, file, table>>
      BY <1>8 DEF Duplicates, At
    <2>2. call[c].seen.valid = "raw" /\ doc.kind # "review"
      BY <2>1 DEF CleanAt, Achieved
    <2>3. CASE Goto(c, "insert")
      BY <1>1, <2>1, <2>2, <2>3, GoneOn DEF Outcome, Achieved, Places
    <2>4. CASE table["raw"] > 0 /\ Goto(c, "fail")
      BY <1>1, <2>1, <2>2, <2>4, GoneOn DEF Outcome, Achieved, Places
    <2>5. QED
      BY <1>8, <2>2, <2>3, <2>4 DEF Duplicates
  <1>9. CASE Insert(c)
    <2>1. call[c].pc = "insert" /\ UNCHANGED doc
      BY <1>9 DEF Insert, At
    <2>2. call[c].seen.valid = "raw" /\ doc.kind # "review"
      BY <2>1 DEF CleanAt, Achieved
    <2>3. CASE table' = [table EXCEPT !["raw"] = @ + 1] /\ Goto(c, "stored")
      <3>1. table'["raw"] > 0
        BY <1>1, <2>3 DEF TypeOK, Rows
      <3>2. call'[c].pc = "stored"
        BY <1>1, <2>3, GoneOn
      <3>3. QED
        BY <2>1, <2>2, <3>1, <3>2 DEF Outcome, Achieved, Places
    <2>4. CASE table["raw"] > 0 /\ Goto(c, "fail") /\ UNCHANGED table
      BY <1>1, <2>1, <2>2, <2>4, GoneOn DEF Outcome, Achieved, Places
    <2>5. CASE Stumble(c, "fail")
      <3>1. call'[c].pc = "fail" /\ ~call'[c].clean
        BY <1>1, <2>5 DEF Stumble, TypeOK, CallType
      <3>2. QED
        BY <3>1 DEF Outcome
    <2>6. QED
      BY <1>9, <2>2, <2>3, <2>4, <2>5 DEF Insert
  <1>10. CASE Stored(c) \/ Compute(c)
    <2>1. call[c].pc \in {"stored", "compute"} /\ UNCHANGED <<doc, table>>
      BY <1>10 DEF Stored, Compute, At
    <2>2. table["raw"] > 0 /\ doc.kind # "review"
      BY <2>1 DEF CleanAt, Achieved
    <2>3. call'[c].pc \in {"stored", "compute", "fail"}
      <3>1. ASSUME NEW to, NEW f, NEW next \in {"compute", "fail"}, SetStatus(c, to, f, next, next)
            PROVE  call'[c].pc \in {call[c].pc, next}
        BY <1>1, <3>1, GoneOn DEF SetStatus, TypeOK, CallType
      <3>2. QED
        BY <1>10, <2>1, <3>1 DEF Stored, Compute
    <2>4. QED
      BY <2>1, <2>2, <2>3 DEF Outcome, Achieved, Places
  <1>11. CASE Fail(c)
    <2>1. call[c].pc = "fail" /\ UNCHANGED <<doc, table>>
      BY <1>11 DEF Fail, At
    <2>2. table["raw"] > 0 /\ doc.kind # "review"
      BY <2>1 DEF CleanAt, Achieved
    <2>3. call'[c].pc = "idle"
      BY <1>1, <1>11, Gone DEF Fail, SetFailed
    <2>4. QED
      BY <2>1, <2>2, <2>3 DEF Outcome, Repaired
  <1>12. QED
    BY <1>2, <1>3, <1>4, <1>5, <1>6, <1>7, <1>8, <1>9, <1>10, <1>11

LEMMA CleanSteps ==
  ASSUME NEW c \in Call, CleanAt(c), Steps(c)
  PROVE  Outcome(c)'
  <1>1. call[c].pc \in Places
    BY DEF CleanAt, Achieved
  <1>2. ~ \/ DeleteUnconfirmed(c) \/ RemoveObject(c) \/ Park(c) \/ Parking(c) \/ BlockParse(c)
          \/ FailExtract(c) \/ Invalid(c) \/ Persist(c) \/ Approved(c) \/ SaveDraft(c) \/ Rejected(c)
    BY <1>1 DEF Places, DeleteUnconfirmed, RemoveObject, Park, Parking, BlockParse, FailExtract,
                Invalid, Persist, Approved, SaveDraft, Rejected, At
  <1>3. QED
    BY <1>2, CleanIngest, CleanParse, CleanStore DEF Steps

LEMMA BusySteps == \A c \in Call : Steps(c) => ~At(c, "idle")
  BY DEF Steps, At, DeleteUnconfirmed, RemoveObject, Ingest, Reset, Classify, Route, Park, Parking,
         Parse, ReadSheet, Parsed, ReadDocument, Normalize, Normalizing, Publish, BlockParse,
         FailExtract, Validate, Validating, CheckRows, Invalid, Validated, Store, Storing,
         Duplicates, Insert, Stored, Compute, Fail, Persist, Approved, SaveDraft, Rejected

LEMMA BusyFailures ==
  \A c \in Call : Die(c) \/ Abandon(c) \/ (\E d \in Call \ {c} : GiveUp(c, d)) => ~At(c, "idle")
  BY DEF At, Die, Abandon, GiveUp, Called, Parsing

LEMMA CleanFacts ==
  ASSUME TypeInv, DocumentInv, RetryInv, NEW c \in Call, call[c].clean, file.there
  PROVE  CleanAt(c) /\ Achieved(call[c].pc, file, call[c].seen)
  BY DEF CleanAt, DocumentInv, DocumentKept, RetryInv, Unreviewed, CleanProgress

LEMMA NextRetry == TypeInv /\ DocumentInv /\ RetryInv /\ [Next]_vars => RetryInv'
  <1> SUFFICES ASSUME TypeInv, DocumentInv, RetryInv, [Next]_vars,
                      NEW c \in Call, call'[c].clean
               PROVE  /\ call'[c].op = "retry" /\ ~call'[c].alone /\ call'[c].pc # "idle"
                      /\ \A d \in Call \ {c} : call'[d].pc = "idle"
                      /\ file'.there => Achieved(call[c].pc, file, call[c].seen)'
    BY NextUnreviewed DEF RetryInv, CleanProgress, At
  <1>1. call[c].clean =>
          /\ call[c].op = "retry" /\ ~call[c].alone /\ call[c].pc # "idle"
          /\ \A d \in Call \ {c} : call[d].pc = "idle"
          /\ file.there => Achieved(call[c].pc, file, call[c].seen)
    BY DEF RetryInv, CleanProgress, At
  <1>2. ASSUME NEW d \in Call, Steps(d)
        PROVE  /\ call'[c].op = "retry" /\ ~call'[c].alone /\ call'[c].pc # "idle"
               /\ \A e \in Call \ {c} : call'[e].pc = "idle"
               /\ file'.there => Achieved(call[c].pc, file, call[c].seen)'
    <2>1. Well(d) /\ call[d].pc # "idle"
      BY <1>2, StepKinds, BusySteps DEF TypeInv, At
    <2>2. d = c
      BY <1>1, <2>1 DEF Well
    <2>3. /\ call'[c].op = "retry" /\ ~call'[c].alone /\ call'[c].pc # "idle"
          /\ \A e \in Call \ {c} : call'[e].pc = "idle"
      BY <1>1, <2>1, <2>2 DEF Well
    <2>4. ASSUME file'.there
          PROVE  Achieved(call[c].pc, file, call[c].seen)'
      <3>1. call[c].clean /\ file.there
        BY <2>1, <2>2, <2>4 DEF Well
      <3>2. Outcome(c)'
        BY <1>2, <2>2, <3>1, CleanFacts, CleanSteps
      <3>3. QED
        BY <2>3, <2>4, <3>2 DEF Outcome
    <2>5. QED
      BY <2>3, <2>4
  <1>3. ASSUME NEW d \in Call, Requests(d)
        PROVE  /\ call'[c].op = "retry" /\ ~call'[c].alone /\ call'[c].pc # "idle"
               /\ \A e \in Call \ {c} : call'[e].pc = "idle"
               /\ file'.there => Achieved(call[c].pc, file, call[c].seen)'
    <2>1. PICK op \in Request, pc \in {"ingest", "cancel", "persist", "save", "reject"} :
             Start(d, op, pc) /\ pc \in Pc /\ (op = "retry" => pc = "ingest")
      BY <1>3, RequestSteps DEF TypeInv
    <2>2. /\ call'[d].pc = pc /\ call'[d].op = op /\ ~call'[d].alone
          /\ call'[d].clean => op = "retry" /\ Quiet
          /\ \A e \in Call \ {d} : call'[e].pc = call[e].pc /\ ~call'[e].clean
      BY <2>1, Started DEF TypeInv
    <2>3. c = d /\ op = "retry" /\ pc = "ingest" /\ Quiet
      BY <2>1, <2>2
    <2>4. Achieved(call[c].pc, file, call[c].seen)'
      BY <2>2, <2>3 DEF Achieved, Places
    <2>5. QED
      BY <2>2, <2>3, <2>4 DEF Quiet, At
  <1>4. ASSUME NEW d \in Call, Die(d) \/ Abandon(d) \/ \E e \in Call \ {d} : GiveUp(d, e)
        PROVE  FALSE
    <2>1. c # d /\ call[c].clean
      BY <1>4, Failed DEF TypeInv
    <2>2. QED
      BY <1>1, <1>4, <2>1, BusyFailures DEF At
  <1>5. CASE Delete
    BY <1>1, <1>5, NoCallTypes DEF Delete
  <1>6. CASE UNCHANGED vars
    BY <1>1, <1>6 DEF vars, Achieved, Fresh, Extracted
  <1>7. QED
    BY <1>2, <1>3, <1>4, <1>5, <1>6 DEF Next, Requests

\* A retry that ends, undisturbed, has repaired the file.
LEMMA StepRepairs ==
  TypeInv /\ DocumentInv /\ RetryInv /\ [Next]_vars =>
    [\A c \in Call : call[c].clean /\ file.there /\ At(c, "idle")' /\ ~cut' =>
         IF doc.kind = "review" THEN file'.status = "review_required" /\ file'.parsed = "raw"
         ELSE table'["raw"] > 0]_vars
  <1> SUFFICES ASSUME TypeInv, DocumentInv, RetryInv, Next, NEW c \in Call,
                      call[c].clean, file.there, call'[c].pc = "idle", ~cut'
               PROVE  IF doc.kind = "review"
                        THEN file'.status = "review_required" /\ file'.parsed = "raw"
                        ELSE table'["raw"] > 0
    BY DEF At
  <1>1. /\ call[c].pc # "idle" /\ \A d \in Call \ {c} : call[d].pc = "idle"
    BY DEF RetryInv, CleanProgress, At
  <1>2. ASSUME NEW d \in Call, Steps(d)
        PROVE  IF doc.kind = "review"
                 THEN file'.status = "review_required" /\ file'.parsed = "raw"
                 ELSE table'["raw"] > 0
    <2>1. d = c
      BY <1>1, <1>2, BusySteps DEF At
    <2>2. Outcome(c)' /\ doc' = doc
      BY <1>2, <2>1, CleanFacts, CleanSteps, StepKinds DEF TypeInv
    <2>3. QED
      BY <2>2 DEF Outcome, Repaired
  <1>3. ASSUME NEW d \in Call, Requests(d)
        PROVE  FALSE
    <2>1. PICK op \in Request, pc \in {"ingest", "cancel", "persist", "save", "reject"} :
             Start(d, op, pc) /\ pc \in Pc
      BY <1>3, RequestSteps DEF TypeInv
    <2>2. call'[d].pc = pc /\ \A e \in Call \ {d} : call'[e].pc = call[e].pc
      BY <2>1, Started DEF TypeInv
    <2>3. QED
      BY <1>1, <2>1, <2>2
  <1>4. ASSUME NEW d \in Call, Die(d) \/ Abandon(d) \/ \E e \in Call \ {d} : GiveUp(d, e)
        PROVE  FALSE
    BY <1>4, Failed DEF TypeInv
  <1>5. ~Delete
    BY <1>1 DEF Delete
  <1>6. QED
    BY <1>2, <1>3, <1>4, <1>5 DEF Next, Requests

\* A forced retry brings a file in whatever state to inserted rows or to a
\* review, when it meets no failure and no other request.
THEOREM RetryWorks == Spec => RetryRepairs
  <1>1. Init => DocumentInv /\ RetryInv
    <2>1. /\ Plain(file) /\ \A c \in Call : Plain(call[c].seen)
          /\ \A c \in Call : call[c].pc = "idle" /\ ~call[c].clean
          => RetryInv
      BY DEF RetryInv, Unreviewed, CleanProgress
    <2>2. ASSUME Init
          PROVE  /\ Plain(file)
                 /\ \A c \in Call : call[c].pc = "idle" /\ ~call[c].clean /\ call[c].seen = NoFile
      BY <2>2 DEF Init, Plain, NeedsReview, NewFile, NoCall
    <2>3. Init => DocumentInv
      BY NoCallTypes DEF Init, DocumentInv, DocumentKept, RemovesOrphans, At
    <2>4. QED
      BY <2>1, <2>2, <2>3, PlainNoFile
  <1>2. Spec => [](TypeInv /\ DocumentInv /\ RetryInv)
    BY <1>1, AlwaysTyped, NextDocument, NextRetry, PTL DEF Spec
  <1>3. QED
    BY <1>2, StepRepairs, PTL DEF Spec, RetryRepairs

=============================================================================
