------------------------------- MODULE Budget -------------------------------
(***************************************************************************)
(* One budget, that of a scope and a year, and the requests of             *)
(* compute-budget that generate, review, reject, approve and lock it.  Each *)
(* request is a function invocation that talks to the database call by      *)
(* call, so any number of them interleave; approve_and_lock_budget and      *)
(* publish_computation_snapshot are single transactions.                    *)
(*                                                                         *)
(* Money is what it was computed from.  `Figures' are the totals of the     *)
(* budget row: those of a planning set (expense basis, CAM estimate and     *)
(* revenue snapshot, all frozen), or those of the live rows of leases,      *)
(* revenues and expenses.  Different origins stand for different totals.    *)
(* A statement and the trigger it fires are one step.                       *)
(***************************************************************************)
EXTENDS Naturals, Sequences

CONSTANTS
    Request,    \* bound: requests alive at the same time
    Plan,       \* sets of planning snapshots a user can choose
    Live,       \* the live rows, as a source of figures
    MaxWrites,  \* bound: writes of the budget row
    MaxEdits    \* bound: edits of amounts in the live rows

Source == Plan \cup {Live}

ASSUME BudgetAssumption ==
    /\ Live \notin Plan
    /\ {"lock", "none"} \cap Source = {}
    /\ MaxWrites \in Nat /\ MaxEdits \in Nat

Figures == [source : Source, edits : 0 .. MaxEdits]

\* ai_generated and under_review are treated as draft everywhere, and signed is
\* written nowhere.  No handler writes approved any more; old rows have it.
Status == {"absent", "draft", "reviewed", "approved", "locked"}

\* The row of budgets: `stamp' is updated_at, distinct for distinct writes.
BudgetRow == [status : Status, figures : Figures, stamp : 0 .. MaxWrites]

\* The completed computation snapshot of the budget.  Of its inputs, the
\* fingerprint: the source (of live rows, only their ids), or a lock.
Snapshot   == [inputs : Source \cup {"lock"}, figures : Figures]
NoSnapshot == [inputs |-> "none"]

\* An approval, and as history the figures that its approver had read.
Baseline == [figures : Figures, seen : Figures]

Pc == {"idle", "check", "upsert", "match", "delete", "insert", "publish", "done",
       "review", "reject", "approve", "lock", "latest", "baseline"}

\* What an invocation holds: the figures it computed, the budget as it was read
\* (for an approval: as it was read with the updated_at that is sent along)
\* and, as history, whether since the upsert all calls succeeded and nobody else
\* wrote.
Invocation == [pc : Pc, figures : Figures, read : BudgetRow, undisturbed : BOOLEAN]

NoFigures == [source |-> Live, edits |-> 0]
NoBudget  == [status |-> "absent", figures |-> NoFigures, stamp |-> 0]
Idle      == [pc |-> "idle", figures |-> NoFigures, read |-> NoBudget, undisturbed |-> FALSE]

VARIABLES
    budget,     \* the row of budgets
    lines,      \* budget_line_items: for each plan, how often its rows are there
    published,  \* the completed snapshot of the series
    baselines,  \* the approval baselines, oldest first
    edits,      \* edits of amounts that kept the rows and the upstream snapshots
    request

vars == <<budget, lines, published, baselines, edits, request>>

Init ==
    /\ budget \in {NoBudget, [NoBudget EXCEPT !.status = "approved"]}
    /\ lines = [p \in Plan |-> 0]
    /\ published = NoSnapshot
    /\ baselines = <<>>
    /\ edits = 0
    /\ request = [r \in Request |-> Idle]

-----------------------------------------------------------------------------
(* Steps of an invocation *)

At(r, pc)       == request[r].pc = pc
After(r, pc)    == [request[r] EXCEPT !.pc = pc]
Become(r, next) == request' = [request EXCEPT ![r] = next]
Goto(r, pc)     == Become(r, After(r, pc))
Finish(r)       == Become(r, Idle)
\* A call failed with an error that is only logged.
Shrug(r, pc)    == Become(r, [After(r, pc) EXCEPT !.undisturbed = FALSE])
\* A call that changed a table: the others are no longer undisturbed.
Wrote(r, next) ==
    request' = [q \in Request |-> IF q = r THEN next ELSE [request[q] EXCEPT !.undisturbed = FALSE]]

\* What is neither generated nor rejected: BLOCKED_FROM of a rejection, without
\* signed, and the same two tests of a generation.
BlockedFrom == {"approved", "locked"}

\* Every write of the row sets updated_at.
Save(status, figures) ==
    /\ budget.stamp < MaxWrites
    /\ budget' = [status |-> status, figures |-> figures, stamp |-> budget.stamp + 1]

\* Faulty variant: the trigger is missing.
Unprotected(figures) == FALSE

\* trg_protect_locked_budget compares the totals, the year and the scope.
Protected(figures) == budget.status = "locked" /\ figures # budget.figures

\* The amount of a live row is edited.
EditAmount ==
    /\ edits < MaxEdits
    /\ edits' = edits + 1
    /\ UNCHANGED <<budget, lines, published, baselines, request>>

-----------------------------------------------------------------------------
(* generate: from the live rows or from a planning set *)

Load(r, s) ==
    /\ At(r, "idle")
    /\ Become(r, [Idle EXCEPT !.pc = "check",
                              !.figures = [source |-> s, edits |-> IF s = Live THEN edits ELSE 0]])
    /\ UNCHANGED <<budget, lines, published, baselines, edits>>

\* The error of the read is not looked at: if it fails there is no budget yet.
CheckStatus(r) ==
    /\ At(r, "check")
    /\ \/ budget.status \in BlockedFrom /\ Finish(r)
       \/ /\ budget.status \notin BlockedFrom
          /\ Become(r, [After(r, "upsert") EXCEPT !.read = budget])
       \/ Become(r, [After(r, "upsert") EXCEPT !.read = NoBudget])
    /\ UNCHANGED <<budget, lines, published, baselines, edits>>

\* The upsert on (org, scope, scope_id, year) asks for no status.
Upsert(r) ==
    LET figures == request[r].figures IN
    /\ At(r, "upsert")
    /\ \/ /\ ~Protected(figures)
          /\ Save("draft", figures)
          /\ Wrote(r, [After(r, IF figures.source = Live THEN "match" ELSE "delete")
                         EXCEPT !.undisturbed = TRUE])
       \/ Protected(figures) /\ Finish(r) /\ UNCHANGED budget
    /\ UNCHANGED <<lines, published, baselines, edits>>

\* findMatchingCompletedSnapshot: with the same inputs the answer is the
\* published one, whatever was just computed, unless the search fails.
MatchSnapshot(r) ==
    /\ At(r, "match")
    /\ \/ published.inputs = Live /\ Finish(r)
       \/ Goto(r, "publish")
    /\ UNCHANGED <<budget, lines, published, baselines, edits>>

\* Faulty variant: the rows of the same planning set only.
EmptiedOwn(r) == [lines EXCEPT ![request[r].figures.source] = 0]

\* The delete names the rows by the budget.
Emptied(r) == [p \in Plan |-> 0]

\* Both statements are refused for a locked budget, if there are rows at all,
\* and neither's error ends the request.
DeleteLines(r) ==
    /\ At(r, "delete")
    /\ \/ /\ budget.status # "locked" \/ \A p \in Plan : lines[p] = 0
          /\ lines' = Emptied(r)
          /\ Wrote(r, After(r, "insert"))
       \/ Shrug(r, "insert") /\ UNCHANGED lines
    /\ UNCHANGED <<budget, published, baselines, edits>>

InsertLines(r) ==
    /\ At(r, "insert")
    /\ \/ /\ budget.status # "locked"
          /\ lines' = [lines EXCEPT ![request[r].figures.source] = @ + 1]
          /\ Wrote(r, After(r, "publish"))
       \/ Shrug(r, "publish") /\ UNCHANGED lines
    /\ UNCHANGED <<budget, published, baselines, edits>>

\* publish_computation_snapshot supersedes the completed snapshot, unless its
\* inputs are the same; saveSnapshot swallows an error.
Publish(r) ==
    LET figures == request[r].figures IN
    /\ At(r, "publish")
    /\ \/ /\ published' = IF published.inputs = figures.source THEN published
                          ELSE [inputs |-> figures.source, figures |-> figures]
          /\ Wrote(r, After(r, "done"))
       \/ Shrug(r, "done") /\ UNCHANGED published
    /\ UNCHANGED <<budget, lines, baselines, edits>>

\* The answer is sent.
Respond(r) ==
    /\ At(r, "done")
    /\ Finish(r)
    /\ UNCHANGED <<budget, lines, published, baselines, edits>>

-----------------------------------------------------------------------------
(* mark_reviewed, reject, approve, lock *)

\* resolveBudgetIdentity reads the row.  For an approval from the dashboard the
\* read is the page's, whose updated_at is sent as expected_updated_at; without
\* one the handler takes the updated_at it has just read.
Resolve(r, action) ==
    /\ At(r, "idle")
    /\ budget.status # "absent"
    /\ Become(r, [Idle EXCEPT !.pc = action, !.read = budget])
    /\ UNCHANGED <<budget, lines, published, baselines, edits>>

\* The update of a status action names the row by its id alone.
SetStatus(r, allowed, status) ==
    \/ /\ request[r].read.status \in allowed
       /\ Save(status, budget.figures)
       /\ Wrote(r, IF status = "locked" THEN After(r, "latest") ELSE Idle)
    \/ request[r].read.status \notin allowed /\ Finish(r) /\ UNCHANGED budget

MarkReviewed(r) ==
    /\ At(r, "review")
    /\ SetStatus(r, {"draft"}, "reviewed")
    /\ UNCHANGED <<lines, published, baselines, edits>>

Reject(r) ==
    /\ At(r, "reject")
    /\ SetStatus(r, Status \ BlockedFrom, "draft")
    /\ UNCHANGED <<lines, published, baselines, edits>>

\* Faulty variant: updated_at is not compared.
AnyVersion(r) == TRUE

\* The row is still the one whose updated_at was sent along.
SameVersion(r) == budget.stamp = request[r].read.stamp

\* approve_and_lock_budget, under a lock of the row.  It refuses callers without
\* authority, rows that are not reviewed and an updated_at that has changed.
Approve(r) ==
    /\ At(r, "approve")
    /\ \/ /\ budget.status = "reviewed"
          /\ SameVersion(r)
          /\ Save("locked", budget.figures)
          /\ baselines' = Append(baselines, [figures |-> budget.figures,
                                             seen |-> request[r].read.figures])
          /\ Wrote(r, Idle)
       \/ Finish(r) /\ UNCHANGED <<budget, baselines>>
    /\ UNCHANGED <<lines, published, edits>>

Lock(r) ==
    /\ At(r, "lock")
    /\ SetStatus(r, {"approved"}, "locked")
    /\ UNCHANGED <<lines, published, baselines, edits>>

\* The baseline of a lock copies the latest snapshot, or else the totals read,
\* also if the search fails.
ReadLatest(r) ==
    /\ At(r, "latest")
    /\ \/ Become(r, [After(r, "baseline") EXCEPT !.figures = request[r].read.figures])
       \/ /\ published # NoSnapshot
          /\ Become(r, [After(r, "baseline") EXCEPT !.figures = published.figures])
    /\ UNCHANGED <<budget, lines, published, baselines, edits>>

PublishBaseline(r) ==
    /\ At(r, "baseline")
    /\ \/ published' = [inputs |-> "lock", figures |-> request[r].figures] /\ Wrote(r, Idle)
       \/ Finish(r) /\ UNCHANGED published
    /\ UNCHANGED <<budget, lines, baselines, edits>>

\* Any other call fails, or the invocation dies between two calls.
Die(r) ==
    /\ ~At(r, "idle")
    /\ Finish(r)
    /\ UNCHANGED <<budget, lines, published, baselines, edits>>

-----------------------------------------------------------------------------

Generates(r) ==
    \/ \E s \in Source : Load(r, s)
    \/ CheckStatus(r) \/ Upsert(r) \/ MatchSnapshot(r)
    \/ DeleteLines(r) \/ InsertLines(r) \/ Publish(r) \/ Respond(r)

Decides(r) ==
    \/ \E action \in {"review", "reject", "approve", "lock"} : Resolve(r, action)
    \/ MarkReviewed(r) \/ Reject(r) \/ Approve(r)
    \/ Lock(r) \/ ReadLatest(r) \/ PublishBaseline(r)

Next == EditAmount \/ \E r \in Request : Generates(r) \/ Decides(r) \/ Die(r)

Spec == Init /\ [][Next]_vars

-----------------------------------------------------------------------------
(* Properties *)

\* All state has the shape the code gives it, and only a request that plans
\* touches the line items.
TypeOK ==
    /\ budget \in BudgetRow
    /\ lines \in [Plan -> Nat]
    /\ published \in Snapshot \cup {NoSnapshot}
    /\ baselines \in Seq(Baseline)
    /\ edits \in 0 .. MaxEdits
    /\ request \in [Request -> Invocation]
    /\ \A r \in Request : request[r].pc \in {"delete", "insert"} => request[r].figures.source \in Plan

\* "The budget was modified after you reviewed it": an approval signs the
\* figures that were read with the updated_at it carries, though the budget may
\* have been regenerated, reviewed and rejected any number of times since.
SignedAsSeen ==
    \A i \in 1 .. Len(baselines) : baselines[i].figures = baselines[i].seen

\* "Cannot modify financial values of a locked budget": no generation changes
\* the figures of a locked budget, whenever it looked at the status.  The status
\* itself can be taken back only by a request that has not read the lock: it
\* read the row before it was locked, or its read failed and it believes that
\* there is no budget.  Whoever reads the locked row is turned away.
LockHolds ==
    [][budget.status = "locked" =>
         /\ budget'.figures = budget.figures
         /\ budget'.status # "locked" =>
              \E r \in Request :
                 /\ request'[r] # request[r]
                 /\ \/ request[r].read.stamp < budget.stamp
                    \/ request[r].read = NoBudget]_vars

\* "DELETE first so a re-generate does not accumulate stale rows": a planning
\* request whose calls all succeeded, and during which nobody else wrote, leaves
\* totals, line items and snapshot of its own planning set, whatever interrupted
\* and competing requests had left before.
PlanAgrees ==
    \A r \in Request : LET figures == request[r].figures IN
        At(r, "done") /\ request[r].undisturbed /\ figures.source \in Plan =>
            /\ budget.figures = figures
            /\ published.figures = figures
            /\ lines = [p \in Plan |-> IF p = figures.source THEN 1 ELSE 0]

=============================================================================
