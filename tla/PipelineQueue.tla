--------------------------- MODULE PipelineQueue ---------------------------
(***************************************************************************)
(* The durable job queue of the lease extraction pipeline: the rows of     *)
(* pipeline_jobs that belong to one uploaded file, the file's active       *)
(* generation, and the lease-extraction-worker invocations that load,      *)
(* claim, finish and requeue those rows.                                   *)
(*                                                                         *)
(* Every database statement is one action; what a worker remembers between *)
(* two statements is in `inv'.  What a worker computes is left to          *)
(* EnrichChain and LeaseExtraction, whose steps are steps of this module.  *)
(***************************************************************************)
EXTENDS PipelineJobs

Pc == {"idle", "exhausted", "stopping", "claiming", "working", "requeuing"}

Invocations == [pc : Pc, job : Job \cup {NoJob}, target : Job \cup {NoJob}]

Idle == [pc |-> "idle", job |-> NoJob, target |-> NoJob]

VARIABLES
    row,         \* [Job -> Row]
    activeGen,   \* uploaded_files.active_generation_id, 0 when NULL
    inv          \* [Invocation -> Invocations]

vars == <<row, activeGen, inv>>

Init ==
    /\ row = [j \in Job |-> NoRow]
    /\ activeGen = 0
    /\ inv = [i \in Invocation |-> Idle]

\* A worker holds a row from its claim until it writes a final status,
\* requeues the row or dies.
Holding   == {"working", "requeuing"}
Holds(i, j) == inv[i].pc \in Holding /\ inv[i].job = j
Held(j)     == \E i \in Invocation : Holds(i, j)

-----------------------------------------------------------------------------
(* Callers: ingest-file, cancel-upload, the workers and the status poll    *)

StartGeneration ==
    /\ activeGen < MaxGen
    /\ activeGen' = activeGen + 1
    /\ row' = [j \in Job |-> IF j = <<activeGen + 1, ExtractStage>> THEN NewRow ELSE Retire(row[j])]
    /\ UNCHANGED inv

Enqueue(s) ==
    /\ activeGen > 0
    /\ row' = Enqueued(row, activeGen, s)
    /\ UNCHANGED <<activeGen, inv>>

RequestCancel ==
    /\ row' = [j \in Job |-> IF row[j].status \in {"queued", "running"}
                               THEN [row[j] EXCEPT !.cancel = TRUE] ELSE row[j]]
    /\ UNCHANGED <<activeGen, inv>>

-----------------------------------------------------------------------------
(* A worker invocation, statement by statement *)

Return(i)   == inv' = [inv EXCEPT ![i] = Idle]
Write(j, s) == row' = [row EXCEPT ![j] = WithStatus(@, s)]

\* A dispatch arrives.  It may be late, lost (never taken) or a duplicate, so
\* any job may be posted at any time.  This first read of the row decides the
\* path; later statements act on the snapshot.
Load(i, j) ==
    /\ inv[i].pc = "idle"
    /\ row[j].status \in {"queued", "running"}
    /\ inv' = [inv EXCEPT ![i].job = j, ![i].pc =
                 IF row[j].attempt >= MaxAttempts THEN "exhausted"
                 ELSE IF row[j].cancel THEN "stopping" ELSE "claiming"]
    /\ UNCHANGED <<row, activeGen>>

\* MAX_ATTEMPTS_EXCEEDED: an update by id, with no condition on the status.
FailExhausted(i) ==
    /\ inv[i].pc = "exhausted"
    /\ Write(inv[i].job, "failed")
    /\ Return(i)
    /\ UNCHANGED activeGen

\* FILE_NOT_FOUND, also when the read of uploaded_files merely failed.
FailUnreadable(i) ==
    /\ inv[i].pc \in {"stopping", "claiming"}
    /\ Write(inv[i].job, "failed")
    /\ Return(i)
    /\ UNCHANGED activeGen

StopBeforeClaim(i) ==
    /\ inv[i].pc = "stopping"
    /\ Write(inv[i].job, "cancelled")
    /\ Return(i)
    /\ UNCHANGED activeGen

Claim(i) ==
    /\ inv[i].pc = "claiming"
    /\ LET j == inv[i].job IN
         IF Claimable(row[j])
           THEN row' = [row EXCEPT ![j] = Claimed(@)] /\ inv' = [inv EXCEPT ![i].pc = "working"]
           ELSE UNCHANGED row /\ Return(i)
    /\ UNCHANGED activeGen

\* parse -> normalize inside one invocation: the update has a condition on
\* the stage and the cancel flag and none on the status.
AdvanceToNormalize(i) ==
    /\ inv[i].pc = "working"
    /\ StageOf(inv[i].job) = ExtractStage
    /\ ~row[inv[i].job].cancel
    /\ Write(inv[i].job, "running")
    /\ UNCHANGED <<activeGen, inv>>

\* Every final write of a claimed row is an update by id.  `superseded' is
\* the legacy enrich row that was redirected to the bounded chain.
Finish(i, s) ==
    /\ inv[i].pc = "working"
    /\ Write(inv[i].job, s)
    /\ Return(i)
    /\ UNCHANGED activeGen

\* resetJobForRetryableReconciliation, with or without a delay.
Requeue(i, delay) ==
    /\ inv[i].pc = "working"
    /\ row' = [row EXCEPT ![inv[i].job] = [WithStatus(@, "queued") EXCEPT !.delayed = delay]]
    /\ Return(i)
    /\ UNCHANGED activeGen

\* The reducer found the result of sub-stage s missing although its row is
\* completed; the requeue is a read and then an update by id.
RequeueMissingRead(i, s) ==
    /\ inv[i].pc = "working"
    /\ StageOf(inv[i].job) = Reducer
    /\ s \in Substage
    /\ row[<<GenOf(inv[i].job), s>>].status = "completed"
    /\ inv' = [inv EXCEPT ![i].pc = "requeuing", ![i].target = <<GenOf(inv[i].job), s>>]
    /\ UNCHANGED <<row, activeGen>>

RequeueMissingWrite(i) ==
    /\ inv[i].pc = "requeuing"
    /\ Write(inv[i].target, "queued")
    /\ inv' = [inv EXCEPT ![i].pc = "working", ![i].target = NoJob]
    /\ UNCHANGED activeGen

\* The invocation is killed, or returns without writing the row's status.
Die(i) ==
    /\ inv[i].pc # "idle"
    /\ Return(i)
    /\ UNCHANGED <<row, activeGen>>

-----------------------------------------------------------------------------
(* Time *)

DelayElapses(j) ==
    /\ row[j].delayed
    /\ row' = [row EXCEPT ![j].delayed = FALSE]
    /\ UNCHANGED <<activeGen, inv>>

\* The longest calls of an invocation time out after 145 s (parse), 120 s
\* (the normalize chained to it), 145 s (normalize) and 120 s (a bounded
\* stage): edge-runtime-budgets.ts, lines 25-31.  So a row nobody has touched
\* for ten minutes is a row nobody holds.
GoStale(j) ==
    /\ row[j].status = "running"
    /\ ~row[j].stale
    /\ ~Held(j)
    /\ row' = [row EXCEPT ![j].stale = TRUE]
    /\ UNCHANGED <<activeGen, inv>>

-----------------------------------------------------------------------------
WorkerStep(i) ==
    \/ \E j \in Job : Load(i, j)
    \/ FailExhausted(i)
    \/ FailUnreadable(i)
    \/ StopBeforeClaim(i)
    \/ Claim(i)
    \/ AdvanceToNormalize(i)
    \/ \E s \in TerminalStatus : Finish(i, s)
    \/ \E delay \in BOOLEAN : Requeue(i, delay)
    \/ \E s \in Substage : RequeueMissingRead(i, s)
    \/ RequeueMissingWrite(i)
    \/ Die(i)

Next ==
    \/ StartGeneration
    \/ \E s \in Stage \ {ExtractStage} : Enqueue(s)
    \/ RequestCancel
    \/ \E i \in Invocation : WorkerStep(i)
    \/ \E j \in Job : DelayElapses(j) \/ GoStale(j)

Spec == Init /\ [][Next]_vars

-----------------------------------------------------------------------------
(* Properties *)

\* Rows, generation and invocations have the shape the code gives them; an
\* attempt counter never passes max_attempts.
TypeOK ==
    /\ row \in [Job -> Row]
    /\ activeGen \in 0 .. MaxGen
    /\ inv \in [Invocation -> Invocations]
    /\ \A i \in Invocation : inv[i].pc # "idle" => inv[i].job \in Job
    /\ \A i \in Invocation : inv[i].pc = "requeuing" => inv[i].target \in Job

\* Two worker invocations never run the same job: duplicate dispatches,
\* stale reclaims, requeues and unconditional writes included.
ClaimExclusive ==
    \A i1, i2 \in Invocation, j \in Job : Holds(i1, j) /\ Holds(i2, j) => i1 = i2

\* A row that a worker holds cannot be claimed: it is running and fresh, or a
\* duplicate invocation has blindly written failed or cancelled over it.
HeldRows ==
    \A i \in Invocation : inv[i].pc \in Holding =>
        /\ row[inv[i].job].status \in {"running", "failed", "cancelled"}
        /\ ~row[inv[i].job].stale

\* Between the reducer's read of a completed sub-stage and its update of that
\* row nobody can have claimed the row.
RequeueTargets ==
    \A i \in Invocation : inv[i].pc = "requeuing" =>
        /\ StageOf(inv[i].job) = Reducer
        /\ StageOf(inv[i].target) # Reducer
        /\ GenOf(inv[i].target) = GenOf(inv[i].job)
        /\ row[inv[i].target].status \in {"completed", "failed", "cancelled"}
        /\ ~Held(inv[i].target)

\* Rows of generations that have not started do not exist; the row of a busy
\* invocation does.
RowExistence ==
    /\ \A j \in Job : GenOf(j) > activeGen => row[j].status = "absent"
    /\ \A i \in Invocation : inv[i].pc # "idle" => row[inv[i].job].status # "absent"

\* The inductive invariant behind ClaimExclusive.
QueueInv ==
    /\ TypeOK
    /\ ClaimExclusive
    /\ HeldRows
    /\ RequeueTargets
    /\ RowExistence

\* A row out of the queue for good: nobody holds it and no reducer is about to
\* put it back.
Retired(j) ==
    /\ row[j].status \in {"superseded", "failed", "cancelled"}
    /\ ~Held(j)
    /\ \A i \in Invocation : inv[i].pc = "requeuing" => inv[i].target # j

\* Once a queued row was superseded by a newer generation it never runs again:
\* it is retired at once ...
SupersededIsRetired ==
    \A j \in Job : row[j].status = "superseded" => Retired(j)

\* ... and no dispatch, reclaim, requeue or late write brings a retired row
\* back.
RetiredForever == [][\A j \in Job : Retired(j) => Retired(j)']_vars

=============================================================================
