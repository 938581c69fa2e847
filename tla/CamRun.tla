------------------------------- MODULE CamRun -------------------------------
(***************************************************************************)
(* The runs of the CAM engine for one recovery period and scope: requests  *)
(* that calculate a run, call by call, the review that leads to its        *)
(* posting, and the edits of expenses that make what it was calculated     *)
(* from outdated.                                                          *)
(*                                                                         *)
(* run-cam-calculation-v2 is a sequence of database calls without a lock   *)
(* across them; what it read in one it uses in the next.  Each procedure   *)
(* of the review is a transaction that locks the run first, so it is a     *)
(* step.  The transaction of an edit marks the runs in its last statement  *)
(* and keeps them locked until it commits.                                 *)
(***************************************************************************)
EXTENDS Naturals, FiniteSets

CONSTANTS
    Run,       \* rows of cam_runs
    Call,      \* requests to run-cam-calculation-v2
    Type,      \* run types
    MaxEdits   \* bound: edits of published expenses

ASSUME RunAssumption == MaxEdits \in Nat /\ "none" \notin Run

Preview == "preview"
Mode    == {"preview", "posting_eligible"}
Status  == {"draft", "readiness_failed", "ready", "calculating", "calculated", "under_review",
            "submitted", "approved", "posted", "superseded", "voided"}
Final   == {"posted", "superseded", "voided"}

\* What the engine reads: the edits that are in it, and whether it finds in it
\* anything that blocks.  The second depends on the mode and on a setup that
\* may change at any time and marks no run: it is chosen when it is read.
Source == [edits : 0..MaxEdits, blocks : BOOLEAN]

NoResult == [none |-> TRUE]
\* open: there are open blocking exceptions.
Result   == [source : Source, mode : Mode, open : BOOLEAN]

NoRun == [status |-> "absent"]
\* born: the edits that had marked the runs when this one was created.
RunRow == [type : Type, status : Status, result : Result \cup {NoResult},
           stale : BOOLEAN, born : 0..MaxEdits]

VARIABLES
    run,     \* cam_runs, with results and exceptions
    edits,   \* the edits of what is published for the period
    leases,  \* whether the engine returns lease results
    edit,    \* the runs an open edit has marked and holds locked; {"none"} if there is none
    swaps,   \* supersede_cam_run: the pairs of runs that passed its checks
    call     \* the requests

vars == <<run, edits, leases, edit, swaps, call>>
data == <<edits, leases, edit>>

NoEdit == {"none"}
Idle   == [pc |-> "idle"]
\* waits: whether the run as get_or_create_draft_cam_run returned it still
\* has to become ready.
IsCall(m) ==
    \/ m \in [pc : {"evaluate", "read", "unready"}, run : Run, waits : BOOLEAN, mode : Mode]
    \/ m \in [pc : {"mark", "persist"}, run : Run, waits : BOOLEAN, mode : Mode, seen : Source]

Init ==
    /\ run = [r \in Run |-> NoRun]
    /\ edits = 0
    /\ leases \in BOOLEAN
    /\ edit = NoEdit
    /\ swaps = {}
    /\ call = [c \in Call |-> Idle]

Exists(r) == run[r] # NoRun
Active(r) == Exists(r) /\ run[r].status \notin {"voided", "superseded"}
\* No open edit holds the row.
Free(r)   == Exists(r) /\ r \notin edit
Marked    == edits + (IF edit = NoEdit THEN 0 ELSE 1)

-----------------------------------------------------------------------------
(* enforce_cam_run_immutability_and_transitions *)

Transition ==
    ({"draft"}            \X {"readiness_failed", "ready", "voided"}) \cup
    ({"readiness_failed"} \X {"ready", "draft", "voided"}) \cup
    ({"ready"}            \X {"calculating", "readiness_failed", "voided"}) \cup
    ({"calculating"}      \X {"calculated", "readiness_failed"}) \cup
    ({"calculated"}       \X {"under_review", "calculating", "voided"}) \cup
    ({"under_review"}     \X {"submitted", "calculated", "voided"}) \cup
    ({"submitted"}        \X {"approved", "under_review", "voided"}) \cup
    ({"approved"}         \X {"posted", "under_review", "voided"}) \cup
    ({"posted"}           \X {"superseded"})

Permitted(from, to) == <<from, to>> \in Transition \/ (from = to /\ from \notin Final)

SetStatus(r, to) ==
    /\ Free(r)
    /\ Permitted(run[r].status, to)
    /\ run' = [run EXCEPT ![r].status = to]

-----------------------------------------------------------------------------
(* run-cam-calculation-v2 *)

Goto(c, new) == call' = [call EXCEPT ![c] = new]
Ends(c)      == Goto(c, Idle)

\* get_or_create_draft_cam_run; only a preview is always a new run.
Waits(status) == status \in {"draft", "readiness_failed"}

Series(t) == {r \in Run : Active(r) /\ run[r].type = t}

Load(c) ==
    /\ call[c].pc = "idle"
    /\ \E t \in Type \ {Preview}, m \in Mode : \E r \in Series(t) :
          Goto(c, [pc |-> "evaluate", run |-> r, waits |-> Waits(run[r].status), mode |-> m])
    /\ UNCHANGED <<run, data, swaps>>

Create(c) ==
    /\ call[c].pc = "idle"
    /\ \E t \in Type, m \in Mode, r \in Run :
          /\ ~Exists(r)
          /\ t = Preview \/ Series(t) = {}
          /\ run' = [run EXCEPT ![r] = [type |-> t, status |-> "draft", result |-> NoResult,
                                        stale |-> FALSE, born |-> Marked]]
          /\ Goto(c, [pc |-> "evaluate", run |-> r, waits |-> Waits("draft"), mode |-> m])
    /\ UNCHANGED <<data, swaps>>

\* buildCamRunInputV2: the run, then the readiness, then the sources.
Evaluate(c) ==
    /\ call[c].pc = "evaluate"
    /\ run[call[c].run].status \notin Final
    /\ \E pc \in {"read", "unready"} : Goto(c, [call[c] EXCEPT !.pc = pc])
    /\ UNCHANGED <<run, data, swaps>>

ReadSources(c) ==
    LET me == call[c] IN
    /\ me.pc = "read"
    /\ \E seen \in Source :
          /\ seen.edits = edits
          /\ Goto(c, [pc |-> "mark", run |-> me.run, waits |-> me.waits, mode |-> me.mode, seen |-> seen])
    /\ UNCHANGED <<run, data, swaps>>

\* A cap that needs an index nobody has approved.
CapUnresolved(c) ==
    /\ call[c].pc = "read"
    /\ Goto(c, [call[c] EXCEPT !.pc = "unready"])
    /\ UNCHANGED <<run, data, swaps>>

\* The error of this update is not looked at.
NotReady(c) ==
    /\ call[c].pc = "unready"
    /\ \/ SetStatus(call[c].run, "readiness_failed")
       \/ ~Permitted(run[call[c].run].status, "readiness_failed") /\ UNCHANGED run
    /\ Ends(c)
    /\ UNCHANGED <<data, swaps>>

MarkReady(c) ==
    LET me == call[c] IN
    /\ me.pc = "mark"
    /\ IF me.waits THEN SetStatus(me.run, "ready") ELSE UNCHANGED run
    /\ Goto(c, [me EXCEPT !.pc = "persist"])
    /\ UNCHANGED <<data, swaps>>

\* persist_cam_run_results.  The row is "calculating" only within it.
Calculated(me) ==
    [source |-> me.seen, mode |-> me.mode, open |-> me.seen.blocks]

AlreadyPersisted(c) ==
    LET me == call[c]  row == run[me.run] IN
    /\ me.pc = "persist"
    /\ Free(me.run)
    /\ row.status = "calculated"
    /\ row.result.source = me.seen /\ row.result.mode = me.mode
    /\ Ends(c)
    /\ UNCHANGED <<run, data, swaps>>

PersistFrom(c, statuses, status) ==
    LET me == call[c]  row == run[me.run] IN
    /\ me.pc = "persist"
    /\ Free(me.run)
    /\ row.status \in statuses
    /\ ~(row.status = "calculated" /\ row.result.source = me.seen /\ row.result.mode = me.mode)
    /\ run' = [run EXCEPT ![me.run].result = Calculated(me), ![me.run].status = status]
    /\ Ends(c)
    /\ UNCHANGED <<data, swaps>>

\* Mutant of Outcome: names the verdict of the engine, not a status.
OutcomeNamed(me) == IF Calculated(me).open THEN "readiness_failed" ELSE "ready_to_post"

Outcome(me) == IF Calculated(me).open THEN "readiness_failed" ELSE "calculated"

\* Mutants of Persist: relies on the check at the start of the request; and
\* stores the exceptions but not what follows from them.
PersistAnyStatus(c) ==
    PersistFrom(c, Status \ Final,
                IF run[call[c].run].status \in {"ready", "calculated"} THEN Outcome(call[c])
                ELSE run[call[c].run].status)
PersistAnyway(c) == PersistFrom(c, {"ready", "calculating", "calculated"}, "calculated")

Persist(c) == PersistFrom(c, {"ready", "calculating", "calculated"}, Outcome(call[c]))

\* Refused by a check, timed out or killed between two calls.
Dies(c) == call[c].pc # "idle" /\ Ends(c) /\ UNCHANGED <<run, data, swaps>>

-----------------------------------------------------------------------------
(* cam-run-workflow-v2 *)

Reviews(r, from, to) ==
    /\ Free(r)
    /\ run[r].status \in from
    /\ run' = [run EXCEPT ![r].status = to]
    /\ UNCHANGED <<data, swaps, call>>

Submit(r)        == Reviews(r, {"calculated"}, "submitted") /\ run[r].result.mode = "posting_eligible"
ReturnToDraft(r) == Reviews(r, {"under_review", "submitted"}, "calculated")
Reject(r)        == Reviews(r, {"submitted"}, "under_review")

Clean(r) == run[r].result.mode = "posting_eligible" /\ ~run[r].result.open

Approve(r) == Reviews(r, {"submitted"}, "approved") /\ Clean(r)

\* The update of the lease results after that of the run is refused by
\* enforce_cam_run_ledger_immutability: a run that has any is not posted.
Post(r) == Reviews(r, {"approved"}, "posted") /\ Clean(r) /\ ~leases

\* resolve_cam_run_exception, of the last open exception.
Resolve(r) ==
    /\ Free(r)
    /\ run[r].status \notin Final
    /\ run[r].result # NoResult /\ run[r].result.open
    /\ run' = [run EXCEPT ![r].result.open = FALSE]
    /\ UNCHANGED <<data, swaps, call>>

\* supersede_cam_run looks at both runs without a lock, then updates one.
CheckSwap(old, new) ==
    /\ Exists(old) /\ run[old].status = "posted"
    /\ Exists(new) /\ run[new].status = "posted"
    /\ swaps' = swaps \cup {<<old, new>>}
    /\ UNCHANGED <<run, data, call>>

Supersede(old, new) ==
    /\ <<old, new>> \in swaps
    /\ swaps' = swaps \ {<<old, new>>}
    /\ SetStatus(old, "superseded") \/ (~Permitted(run[old].status, "superseded") /\ UNCHANGED run)
    /\ UNCHANGED <<data, call>>

ReviewNext(r) ==
    Exists(r) /\ (\/ Submit(r) \/ ReturnToDraft(r) \/ Reject(r) \/ Approve(r) \/ Post(r) \/ Resolve(r))

-----------------------------------------------------------------------------
(* What the runs are calculated from *)

\* The trigger of an edit, and resolve_cam_expense_input_category: the last
\* statement that writes marks the runs that nobody has approved.
MarkRuns(statuses) ==
    /\ edit = NoEdit
    /\ edits < MaxEdits
    /\ edit' = {r \in Run : Exists(r) /\ run[r].status \in statuses}
    /\ UNCHANGED <<run, edits, leases, swaps, call>>

\* Mutant of EditMarks: marks the runs that have results.
EditMarksCalculated == MarkRuns({"calculated", "under_review", "submitted"})

EditMarks == MarkRuns(Status \ (Final \cup {"approved"}))

EditCommits ==
    /\ edit # NoEdit
    /\ run' = [r \in Run |-> IF r \in edit THEN [run[r] EXCEPT !.stale = TRUE] ELSE run[r]]
    /\ edits' = edits + 1
    /\ edit' = NoEdit
    /\ UNCHANGED <<leases, swaps, call>>

-----------------------------------------------------------------------------
CallNext(c) ==
    \/ Load(c) \/ Create(c) \/ Evaluate(c) \/ ReadSources(c) \/ CapUnresolved(c)
    \/ NotReady(c) \/ MarkReady(c) \/ AlreadyPersisted(c) \/ Persist(c) \/ Dies(c)

Next ==
    \/ \E c \in Call : CallNext(c)
    \/ \E r \in Run : ReviewNext(r)
    \/ \E old, new \in Run : CheckSwap(old, new) \/ Supersede(old, new)
    \/ EditMarks \/ EditCommits

Spec == Init /\ [][Next]_vars

-----------------------------------------------------------------------------
(* Type correctness. *)
TypeOK ==
    /\ run \in [Run -> RunRow \cup {NoRun}]
    /\ edits \in 0..MaxEdits
    /\ leases \in BOOLEAN
    /\ edit = NoEdit \/ edit \in SUBSET Run
    /\ swaps \in SUBSET (Run \X Run)
    /\ DOMAIN call = Call
    /\ \A c \in Call : call[c] = Idle \/ IsCall(call[c])

\* The ledger: late calculations, not-ready answers and stale status updates
\* of requests never change what is under review, and no run skips a step.
LedgerPhase(row) ==
    IF row = NoRun THEN "absent"
    ELSE IF row.status \in {"draft", "readiness_failed", "ready", "calculating", "calculated"}
         THEN "open" ELSE row.status

LedgerResult(row) == IF row = NoRun THEN NoResult ELSE row.result

Submittable(result) ==
    result # NoResult /\ result.mode = "posting_eligible" /\ ~result.open

Ledger == INSTANCE CamLedger WITH
    Sound  <- Submittable,
    phase  <- [r \in Run |-> LedgerPhase(run[r])],
    result <- [r \in Run |-> LedgerResult(run[r])]

KeepsLedger == Ledger!Spec

\* Whoever looks at a run that nobody has approved sees by its flag that an
\* expense was edited after it was calculated, also when the calculation was
\* under way during the edit.  Only a run created while an edit was about to
\* commit is not told of that one.
StaleShowsEdits ==
    \A r \in Run :
        Exists(r) /\ run[r].status \notin Final \cup {"approved"}
            /\ run[r].result # NoResult /\ ~run[r].stale
        => run[r].result.source.edits = edits \/ edits <= run[r].born

=============================================================================
