--------------------------- MODULE PipelineJobs ---------------------------
(***************************************************************************)
(* The table pipeline_jobs as the lease extraction pipeline uses it: the   *)
(* rows of one uploaded file and what the statements on them do.           *)
(*                                                                         *)
(* A row is identified by <<generation, stage>>: the idempotency key of    *)
(* both inserting RPCs is file:generation:stage:contract and is unique, so *)
(* a stage of a generation has at most one row for ever.                   *)
(***************************************************************************)
EXTENDS Naturals

CONSTANTS
    Stage,          \* stage names of the rows
    ExtractStage,   \* the row a generation starts with (stage parse, later normalize)
    Reducer,        \* the stage that combines the evidence sub-stages
    Substage,       \* the evidence sub-stages the reducer may requeue
    MaxAttempts,    \* pipeline_jobs.max_attempts
    MaxGen,         \* bound: generations started
    Invocation      \* bound: worker invocations alive at the same time

ASSUME StageAssumption ==
    /\ ExtractStage \in Stage
    /\ Reducer \in Stage \ {ExtractStage}
    /\ Substage \subseteq Stage \ {ExtractStage, Reducer}

ASSUME BoundAssumption == MaxAttempts \in Nat /\ MaxGen \in Nat

Gen == 1 .. MaxGen
Job == Gen \X Stage

GenOf(j)   == j[1]
StageOf(j) == j[2]

TerminalStatus == {"completed", "failed", "cancelled", "superseded"}
JobStatus      == {"absent", "queued", "running"} \cup TerminalStatus

Row == [status  : JobStatus,
        attempt : 0 .. MaxAttempts,
        cancel  : BOOLEAN,      \* cancel_requested_at IS NOT NULL
        delayed : BOOLEAN,      \* queued with available_at still ahead
        stale   : BOOLEAN]      \* running, untouched for more than ten minutes

NoRow  == [status |-> "absent", attempt |-> 0,
           cancel |-> FALSE, delayed |-> FALSE, stale |-> FALSE]
NewRow == [NoRow EXCEPT !.status = "queued"]

NoJob == <<0, ExtractStage>>

-----------------------------------------------------------------------------
(* Statements on rows *)

\* available_at is only read on queued rows, and a row that left the queue
\* with a delay ahead never comes back to it (RetiredForever).
WithStatus(r, s) == [r EXCEPT !.status = s, !.delayed = FALSE, !.stale = FALSE]

\* What start_lease_extraction_generation does to a row that already exists.
Retire(r) ==
    CASE r.status = "queued"  -> WithStatus(r, "superseded")
      [] r.status = "running" -> [r EXCEPT !.cancel = TRUE, !.stale = FALSE]
      [] OTHER                -> r

\* Faulty variants of the claim: no attempt budget, a running row taken over
\* before it is stale, and the claim by id alone that the RPC replaced.
ClaimableOverBudget(r) ==
    /\ ~r.cancel
    /\ \/ r.status = "queued" /\ ~r.delayed
       \/ r.status = "running" /\ r.stale
ClaimableWhileFresh(r) ==
    /\ ~r.cancel
    /\ r.attempt < MaxAttempts
    /\ r.status \in {"queued", "running"} /\ ~r.delayed
ClaimableById(r) == ~r.cancel /\ r.attempt < MaxAttempts

\* The claim as it was before rows could be reclaimed from dead workers.
ClaimableOnlyQueued(r) ==
    /\ ~r.cancel
    /\ r.attempt < MaxAttempts
    /\ r.status = "queued" /\ ~r.delayed

\* The WHERE clause of claim_pipeline_job.
Claimable(r) ==
    /\ ~r.cancel
    /\ r.attempt < MaxAttempts
    /\ \/ r.status = "queued" /\ ~r.delayed
       \/ r.status = "running" /\ r.stale

Claimed(r) == [WithStatus(r, "running") EXCEPT !.attempt = @ + 1]

\* enqueue_pipeline_job ignores the caller's generation and uses the file's.
\* The row that the unique key already names wins, whatever its status.
Enqueued(rows, g, s) ==
    IF rows[<<g, s>>].status = "absent" THEN [rows EXCEPT ![<<g, s>>] = NewRow] ELSE rows

=============================================================================
