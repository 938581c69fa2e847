---------------------------- MODULE EnrichChain ----------------------------
(***************************************************************************)
(* The bounded enrichment chain of one uploaded lease file: each stage is  *)
(* a job of PipelineQueue; its worker calls the stage handler of           *)
(* normalize-pdf-output over HTTP, settles its row and enqueues the next   *)
(* stage.  The status poll of the user interface repairs the chain.        *)
(*                                                                         *)
(* Dispatches are fire and forget, so the model has no inbox: a dispatch   *)
(* that arrives is Load, for any open row at any time, and that dispatches *)
(* eventually arrive is fairness.  `Faults' says which misfortunes happen: *)
(*   "crash"      an invocation of the worker or the handler dies          *)
(*   "kill"       the handler exhausts its resources (HTTP 546, a limit)   *)
(*   "failure"    the handler answers an error                             *)
(*   "orphan"     the call times out or breaks while the handler runs on   *)
(*   "unreadable" the worker's read of uploaded_files fails                *)
(*   "cancel"     the user cancels the upload                              *)
(***************************************************************************)
EXTENDS PipelineJobs, Sequences, Functions

CONSTANTS
    Chain,      \* ENRICH_STAGE_SEQUENCE, abridged
    Needs,      \* [stage of the chain -> stages whose results it reads]
    Handler,    \* bound: handler invocations alive at the same time
    Faults

Bounded == Range(Chain)
First   == Chain[1]
Final   == Chain[Len(Chain)]

Nobody  == "nobody"     \* no caller waits for a handler

ASSUME ChainAssumption ==
    /\ Chain \in Seq(Stage) /\ Len(Chain) > 1
    /\ IsInjective(Chain)
    /\ Stage = Bounded \cup {ExtractStage} /\ ExtractStage \notin Bounded
    /\ Final \notin Substage \cup {Reducer}
    /\ Needs \in [Bounded -> SUBSET Bounded] /\ Needs[Reducer] = Substage
    /\ \A k \in DOMAIN Chain : Needs[Chain[k]] \subseteq {Chain[l] : l \in 1 .. k - 1}
    /\ Nobody \notin Invocation

Successor(s) == Chain[(CHOOSE k \in DOMAIN Chain : Chain[k] = s) + 1]

-----------------------------------------------------------------------------
(* State *)

\* normalized_output: the generation whose normalize wrote it and, for each
\* stage, the generation_id of its completed result (0 when there is none).
Output  == [gen : 0 .. MaxGen, result : [Bounded -> 0 .. MaxGen]]
\* ui_review_payload: the empty shell of a parked file, the minimal draft, or
\* what the final stage assembled.
Payload == [kind : {"none", "shell", "minimal", "enriched"}, gen : 0 .. MaxGen]

Blank   == [output  |-> [gen |-> 0, result |-> [s \in Bounded |-> 0]],
            payload |-> [kind |-> "none", gen |-> 0]]
Content == [output : Output, payload : Payload]

\* extracting: from uploaded to validating.  A lease always needs a review.
FileStatus == {"extracting", "review_required", "failed", "cancelled"}

\* What the worker can learn from the call: success, PRIOR_STAGE_MISSING with
\* retryable set, a resource-exhaustion-like failure, any other failure.
Outcome == {"ok", "missing", "resource", "error"}

HoldPc == {"working", "normalizing", "published", "refused", "dispatched", "calling",
           "replied", "fenced", "degrading", "merged", "missing", "reviving"}
\* The row is settled but the invocation still has something to do.
TailPc == {"failing", "cancelling", "parking", "checking", "redispatching", "advancing",
           "failed", "noting", "noted"}

Worker  == [pc : {"idle", "exhausted", "stopping", "claiming", "stale", "requeuing"}
                   \cup HoldPc \cup TailPc,
            job : Job \cup {NoJob}, target : Job \cup {NoJob},
            outcome : Outcome, missing : SUBSET Substage, seen : Content]
NoWorker == [pc |-> "idle", job |-> NoJob, target |-> NoJob,
             outcome |-> "ok", missing |-> {}, seen |-> Blank]

Handling  == [pc : {"idle", "prefence", "read", "compute", "write", "finalize"},
              job : Job \cup {NoJob}, caller : Invocation \cup {Nobody}, seen : Content]
NoHandler == [pc |-> "idle", job |-> NoJob, caller |-> Nobody, seen |-> Blank]

Poll   == [pc : {"idle", "read", "resume"}, gen : 0 .. MaxGen, output : Output]
NoPoll == [pc |-> "idle", gen |-> 0, output |-> Blank.output]

VARIABLES
    row, activeGen,   \* as in PipelineQueue
    content,          \* normalized_output and ui_review_payload of the file
    fileStatus,       \* uploaded_files.status
    enrichment,       \* uploaded_files.enrichment_status
    readiness,        \* uploaded_files.review_readiness
    worker, handler, poll

fileVars == <<content, fileStatus, enrichment, readiness>>
vars     == <<row, activeGen, fileVars, worker, handler, poll>>

Init ==
    /\ row = [j \in Job |-> NoRow]
    /\ activeGen = 0
    /\ content = Blank
    /\ fileStatus = "extracting"
    /\ enrichment = "pending"
    /\ readiness = "pending"
    /\ worker = [i \in Invocation |-> NoWorker]
    /\ handler = [h \in Handler |-> NoHandler]
    /\ poll = NoPoll

-----------------------------------------------------------------------------
(* Review readiness *)

\* evaluate_lease_extraction_readiness for the active generation of a document
\* that is classified and was given to the language model.
Verdict(rows, c, g) ==
    LET st(s) == rows[<<g, s>>].status IN
    IF \E s \in Bounded : st(s) = "failed" THEN "failed"
    ELSE IF \/ st(ExtractStage) # "completed"
            \/ st(Final) \in {"absent", "superseded"}
            \/ \E s \in Bounded : st(s) \in {"queued", "running"}
            \/ c.payload.kind = "none" THEN "pending"
    ELSE "ready"

\* Faulty variant: the generation of the caller is evaluated.
FinalizeOwn(g) == readiness' = Verdict(row, content, g)

\* finalize_lease_extraction_for_review locks the file and refuses a
\* generation that is not the active one.
Finalize(g) ==
    readiness' = IF g = activeGen THEN Verdict(row, content, g) ELSE readiness

-----------------------------------------------------------------------------
(* ingest-file and cancel-upload *)

\* A confirmed upload, or a re-extraction that was forced: output and payload
\* of the older generation stay until normalize overwrites them.
StartGeneration ==
    /\ activeGen < MaxGen
    /\ activeGen' = activeGen + 1
    /\ row' = [j \in Job |-> IF j = <<activeGen + 1, ExtractStage>> THEN NewRow ELSE Retire(row[j])]
    /\ fileStatus' = "extracting"
    /\ enrichment' = "pending"
    /\ readiness' = "pending"
    /\ UNCHANGED <<content, worker, handler, poll>>

RequestCancel ==
    /\ "cancel" \in Faults
    /\ row' = [j \in Job |-> IF row[j].status \in {"queued", "running"}
                               THEN [row[j] EXCEPT !.cancel = TRUE] ELSE row[j]]
    /\ UNCHANGED <<activeGen, fileVars, worker, handler, poll>>

-----------------------------------------------------------------------------
(* lease-extraction-worker: load, claim, cancellation *)

At(i, pc)    == worker[i].pc = pc
My(i)        == worker[i].job
MyGen(i)     == GenOf(My(i))
MyStage(i)   == StageOf(My(i))
Goto(i, pc)  == worker' = [worker EXCEPT ![i].pc = pc]
Return(i)    == worker' = [worker EXCEPT ![i] = NoWorker]
SetRow(j, s) == row' = [row EXCEPT ![j] = WithStatus(@, s)]

\* Faulty variant: the extraction is dispatched again like any other stage.
LoadAgain(i, j) ==
    /\ At(i, "idle")
    /\ row[j].status \in {"queued", "running"}
    /\ worker' = [worker EXCEPT ![i].job = j, ![i].pc =
                    IF row[j].attempt >= MaxAttempts THEN "exhausted"
                    ELSE IF row[j].cancel THEN "stopping" ELSE "claiming"]
    /\ UNCHANGED <<row, activeGen, fileVars, handler, poll>>

\* ingest-file dispatches the extraction once and nobody repeats that; for the
\* stages of the chain a dispatch may arrive any number of times.
Load(i, j) ==
    /\ At(i, "idle")
    /\ row[j].status \in {"queued", "running"}
    /\ StageOf(j) = ExtractStage => row[j].attempt = 0 /\ \A k \in Invocation : My(k) # j
    /\ worker' = [worker EXCEPT ![i].job = j, ![i].pc =
                    IF row[j].attempt >= MaxAttempts THEN "exhausted"
                    ELSE IF row[j].cancel THEN "stopping" ELSE "claiming"]
    /\ UNCHANGED <<row, activeGen, fileVars, handler, poll>>

\* failJobAndUpload: the job row, then the file.
FailExhausted(i) ==
    /\ At(i, "exhausted")
    /\ SetRow(My(i), "failed")
    /\ Goto(i, "failing")
    /\ UNCHANGED <<activeGen, fileVars, handler, poll>>

FailFile(i) ==
    /\ At(i, "failing")
    /\ fileStatus' = "failed"
    /\ Return(i)
    /\ UNCHANGED <<row, activeGen, content, enrichment, readiness, handler, poll>>

FailUnreadable(i) ==
    /\ "unreadable" \in Faults
    /\ worker[i].pc \in {"stopping", "claiming"}
    /\ SetRow(My(i), "failed")
    /\ Return(i)
    /\ UNCHANGED <<activeGen, fileVars, handler, poll>>

\* stopForCancellation, before the claim and at the checkpoint before a stage.
Stop(i) ==
    /\ At(i, "stopping") \/ (At(i, "working") /\ row[My(i)].cancel)
    /\ SetRow(My(i), "cancelled")
    /\ Goto(i, "cancelling")
    /\ UNCHANGED <<activeGen, fileVars, handler, poll>>

\* setStatus allows cancelled from every status here except failed.
CancelFile(i) ==
    /\ At(i, "cancelling")
    /\ fileStatus' = IF fileStatus = "failed" THEN "failed" ELSE "cancelled"
    /\ Return(i)
    /\ UNCHANGED <<row, activeGen, content, enrichment, readiness, handler, poll>>

\* Faulty variant: the claim by id alone that the RPC replaced.
ClaimById(i) ==
    /\ At(i, "claiming")
    /\ row' = [row EXCEPT ![My(i)] = Claimed(@)]
    /\ Goto(i, "working")
    /\ UNCHANGED <<activeGen, fileVars, handler, poll>>

Claim(i) ==
    /\ At(i, "claiming")
    /\ IF Claimable(row[My(i)])
         THEN row' = [row EXCEPT ![My(i)] = Claimed(@)] /\ Goto(i, "working")
         ELSE UNCHANGED row /\ Return(i)
    /\ UNCHANGED <<activeGen, fileVars, handler, poll>>

-----------------------------------------------------------------------------
(* The row every generation starts with: parse and normalize, with the long *)
(* reads and computations in one step each (LeaseExtraction has the rest). *)

Draft(kind, j) == [output  |-> [Blank.output EXCEPT !.gen = GenOf(j)],
                   payload |-> [kind |-> kind, gen |-> GenOf(j)]]

\* reconcileDurableNormalize: is there real content, of whatever generation?
Durable == content.payload.kind \in {"minimal", "enriched"}

\* The checkpoint before normalize, and its guard on the status of the file.
BeginNormalize(i) ==
    /\ At(i, "working") /\ MyStage(i) = ExtractStage /\ ~row[My(i)].cancel
    /\ fileStatus \in {"extracting", "review_required"}
    /\ fileStatus' = "extracting"
    /\ Goto(i, "normalizing")
    /\ UNCHANGED <<row, activeGen, content, enrichment, readiness, handler, poll>>

\* Output and payload are replaced, whatever generation is active by then: the
\* status allows it unless the file was cancelled meanwhile, which fails it.
Publish(i) ==
    /\ At(i, "normalizing")
    /\ IF fileStatus = "cancelled"
         THEN fileStatus' = "failed" /\ UNCHANGED content /\ Goto(i, "refused")
         ELSE fileStatus' = "review_required" /\ content' = Draft("minimal", My(i)) /\ Goto(i, "published")
    /\ UNCHANGED <<row, activeGen, enrichment, readiness, handler, poll>>

\* Normalize enqueues the first stage of the chain; the worker may do so again.
EnqueueFirst(i) ==
    /\ \/ At(i, "published") /\ Goto(i, "dispatched")
       \/ At(i, "redispatching") /\ Return(i)
    /\ row' = Enqueued(row, activeGen, First)
    /\ UNCHANGED <<activeGen, fileVars, handler, poll>>

\* The job is completed after the call, and when the call failed but the file
\* has durable content, of any generation.
FinishExtract(i) ==
    /\ \/ At(i, "dispatched") /\ Goto(i, "checking")
       \/ At(i, "refused") /\ Durable /\ Return(i)
       \/ /\ At(i, "working") /\ MyStage(i) = ExtractStage /\ ~row[My(i)].cancel
          /\ fileStatus \in {"failed", "cancelled"} /\ Durable
          /\ Goto(i, "checking")
    /\ SetRow(My(i), "completed")
    /\ UNCHANGED <<activeGen, fileVars, handler, poll>>

\* Without it, the call that answered 500 is to be retried later ...
RetryExtract(i) ==
    /\ At(i, "refused") /\ ~Durable
    /\ row' = [row EXCEPT ![My(i)] = [WithStatus(@, "queued") EXCEPT !.delayed = TRUE]]
    /\ Return(i)
    /\ UNCHANGED <<activeGen, fileVars, handler, poll>>

\* ... and the one that answered 422 parks the file for manual review: the row
\* first, then the file, with a shell for a draft, or failed if it is cancelled.
FailExtract(i) ==
    /\ At(i, "working") /\ MyStage(i) = ExtractStage /\ ~row[My(i)].cancel
    /\ fileStatus \in {"failed", "cancelled"} /\ ~Durable
    /\ SetRow(My(i), "failed")
    /\ Goto(i, "parking")
    /\ UNCHANGED <<activeGen, fileVars, handler, poll>>

Park(i) ==
    /\ At(i, "parking")
    /\ IF fileStatus = "cancelled"
         THEN fileStatus' = "failed" /\ UNCHANGED content
         ELSE fileStatus' = "review_required" /\ content' = Draft("shell", My(i))
    /\ Return(i)
    /\ UNCHANGED <<row, activeGen, enrichment, readiness, handler, poll>>

\* The defensive second dispatch.  Its query names no generation, and for more
\* than one row it answers an error, which is taken for no row.
CheckDispatch(i) ==
    LET found == {g \in Gen : row[<<g, First>>].status \in {"queued", "running", "completed"}} IN
    /\ At(i, "checking")
    /\ IF content.payload.kind # "minimal" \/ (\E g \in Gen : found = {g})
         THEN Return(i) ELSE Goto(i, "redispatching")
    /\ UNCHANGED <<row, activeGen, fileVars, handler, poll>>

-----------------------------------------------------------------------------
(* The worker on a stage of the chain *)

\* Checkpoint, then the call.
Call(i, h) ==
    /\ At(i, "working") /\ MyStage(i) \in Bounded /\ ~row[My(i)].cancel
    /\ handler[h].pc = "idle"
    /\ handler' = [handler EXCEPT ![h] = [NoHandler EXCEPT !.pc = "prefence", !.job = My(i), !.caller = i]]
    /\ Goto(i, "calling")
    /\ UNCHANGED <<row, activeGen, fileVars, poll>>

\* The caller gives up, on a timeout (counted as exhausted resources) or a
\* broken connection; the handler does not notice.
LoseCall(i, h, outcome) ==
    /\ "orphan" \in Faults
    /\ handler[h].pc # "idle" /\ handler[h].caller = i
    /\ handler' = [handler EXCEPT ![h].caller = Nobody]
    /\ worker' = [worker EXCEPT ![i].pc = "replied", ![i].outcome = outcome]
    /\ UNCHANGED <<row, activeGen, fileVars, poll>>

\* completeBoundedEnrichStage begins with the generation fence.
Fence(i) ==
    /\ At(i, "replied") /\ worker[i].outcome # "missing"
    /\ Goto(i, IF MyGen(i) = activeGen THEN "fenced" ELSE "stale")
    /\ UNCHANGED <<row, activeGen, fileVars, handler, poll>>

CancelStale(i) ==
    /\ At(i, "stale")
    /\ SetRow(My(i), "cancelled")
    /\ Return(i)
    /\ UNCHANGED <<activeGen, fileVars, handler, poll>>

\* The row is completed after the handler's success, or after the result of
\* an optional sub-stage was replaced by an empty one.
Complete(i) ==
    /\ At(i, "merged") \/ (At(i, "fenced") /\ worker[i].outcome = "ok")
    /\ SetRow(My(i), "completed")
    /\ IF MyStage(i) = Final THEN Return(i) ELSE Goto(i, "advancing")
    /\ UNCHANGED <<activeGen, fileVars, handler, poll>>

\* Faulty variant: the next stage gets the generation of the job.
AdvanceOwnGeneration(i) ==
    /\ At(i, "advancing")
    /\ row' = Enqueued(row, MyGen(i), Successor(MyStage(i)))
    /\ Return(i)
    /\ UNCHANGED <<activeGen, fileVars, handler, poll>>

Advance(i) ==
    /\ At(i, "advancing")
    /\ row' = Enqueued(row, activeGen, Successor(MyStage(i)))
    /\ Return(i)
    /\ UNCHANGED <<activeGen, fileVars, handler, poll>>

\* Faulty variant: the results of the other stages are not carried over.
MergedAlone(output, j) ==
    [output EXCEPT !.result = [s \in Bounded |-> IF s = StageOf(j) THEN GenOf(j) ELSE 0]]

\* mergeBoundedStageResult: all of the output as it was read, plus one entry.
Merged(output, j) == [output EXCEPT !.result[StageOf(j)] = GenOf(j)]

\* A resource-exhausted sub-stage is optional when there is a draft to review:
\* read the file ...
DegradeRead(i) ==
    /\ At(i, "fenced") /\ worker[i].outcome = "resource" /\ MyStage(i) \in Substage
    /\ content.payload.kind # "none"
    /\ worker' = [worker EXCEPT ![i].pc = "degrading", ![i].seen = content]
    /\ UNCHANGED <<row, activeGen, fileVars, handler, poll>>

\* ... and write back what was read, with an empty result for the sub-stage.
DegradeWrite(i) ==
    /\ At(i, "degrading")
    /\ content' = [worker[i].seen EXCEPT !.output = Merged(@, My(i))]
    /\ worker' = [worker EXCEPT ![i].pc = "merged", ![i].seen = Blank]
    /\ UNCHANGED <<row, activeGen, fileStatus, enrichment, readiness, handler, poll>>

\* Any other failure is terminal: the row, a note in the payload (read, then
\* written back), and the readiness verdict.
Fail(i) ==
    /\ At(i, "fenced")
    /\ \/ worker[i].outcome = "error"
       \/ /\ worker[i].outcome = "resource"
          /\ MyStage(i) \notin Substage \/ content.payload.kind = "none"
    /\ SetRow(My(i), "failed")
    /\ Goto(i, "failed")
    /\ UNCHANGED <<activeGen, fileVars, handler, poll>>

NoteRead(i) ==
    /\ At(i, "failed")
    /\ worker' = [worker EXCEPT ![i].pc = "noting", ![i].seen.payload = content.payload]
    /\ UNCHANGED <<row, activeGen, fileVars, handler, poll>>

NoteWrite(i) ==
    /\ At(i, "noting")
    /\ content' = [content EXCEPT !.payload = worker[i].seen.payload]
    /\ worker' = [worker EXCEPT ![i].pc = "noted", ![i].seen = Blank]
    /\ UNCHANGED <<row, activeGen, fileStatus, enrichment, readiness, handler, poll>>

FinalizeFailed(i) ==
    /\ At(i, "noted")
    /\ Finalize(MyGen(i))
    /\ Return(i)
    /\ UNCHANGED <<row, activeGen, content, fileStatus, enrichment, handler, poll>>

\* PRIOR_STAGE_MISSING from the reducer, which is not fenced: put the missing
\* sub-stages back one after the other, then the reducer with a delay.
BeginRequeue(i) ==
    /\ At(i, "replied") /\ worker[i].outcome = "missing"
    /\ Goto(i, "missing")
    /\ UNCHANGED <<row, activeGen, fileVars, handler, poll>>

RequeueMissingRead(i, s) ==
    LET status == row[<<MyGen(i), s>>].status IN
    /\ At(i, "missing") /\ s \in worker[i].missing
    /\ worker' = [worker EXCEPT
         ![i].missing = @ \ {s},
         ![i].target  = IF status \in {"failed", "cancelled", "superseded"} THEN NoJob ELSE <<MyGen(i), s>>,
         ![i].pc      = CASE status = "completed" -> "requeuing"
                          [] status \in {"absent", "queued", "running"} -> "reviving"
                          [] OTHER -> "missing"]
    /\ UNCHANGED <<row, activeGen, fileVars, handler, poll>>

RequeueMissingWrite(i) ==
    /\ At(i, "requeuing")
    /\ SetRow(worker[i].target, "queued")
    /\ Goto(i, "reviving")
    /\ UNCHANGED <<activeGen, fileVars, handler, poll>>

Revive(i) ==
    /\ At(i, "reviving")
    /\ row' = Enqueued(row, activeGen, StageOf(worker[i].target))
    /\ worker' = [worker EXCEPT ![i].pc = "missing", ![i].target = NoJob]
    /\ UNCHANGED <<activeGen, fileVars, handler, poll>>

Requeue(i) ==
    /\ At(i, "missing") /\ worker[i].missing = {}
    /\ row' = [row EXCEPT ![My(i)] = [WithStatus(@, "queued") EXCEPT !.delayed = TRUE]]
    /\ Return(i)
    /\ UNCHANGED <<activeGen, fileVars, handler, poll>>

\* The handler of a dead worker runs on.
Die(i) ==
    /\ "crash" \in Faults
    /\ ~At(i, "idle")
    /\ Return(i)
    /\ handler' = [h \in Handler |-> IF handler[h].caller = i
                                       THEN [handler[h] EXCEPT !.caller = Nobody] ELSE handler[h]]
    /\ UNCHANGED <<row, activeGen, fileVars, poll>>

-----------------------------------------------------------------------------
(* normalize-pdf-output: handleBoundedEnrichStage *)

HJob(h)   == handler[h].job
HGen(h)   == GenOf(HJob(h))
HStage(h) == StageOf(HJob(h))
HGoto(h, pc) == handler' = [handler EXCEPT ![h].pc = pc]

\* The answer reaches the caller, if it still waits.
Reply(h, outcome, missing) ==
    /\ handler' = [handler EXCEPT ![h] = NoHandler]
    /\ worker' = IF handler[h].caller = Nobody THEN worker
                 ELSE [worker EXCEPT ![handler[h].caller] =
                         [@ EXCEPT !.pc = "replied", !.outcome = outcome, !.missing = missing]]

PreFence(h) ==
    /\ handler[h].pc = "prefence"
    /\ IF HGen(h) = activeGen THEN HGoto(h, "read") /\ UNCHANGED worker ELSE Reply(h, "ok", {})
    /\ UNCHANGED <<row, activeGen, fileVars, poll>>

\* The only read of the output.  A result of the same generation is reused;
\* the results of the stages it needs are not asked for their generation.
Read(h) ==
    LET output  == content.output
        missing == {s \in Needs[HStage(h)] : output.result[s] = 0}
    IN
    /\ handler[h].pc = "read"
    /\ \/ output.gen = 0 /\ Reply(h, "error", {})
       \/ output.gen # 0 /\ output.result[HStage(h)] = HGen(h) /\ Reply(h, "ok", {})
       \/ /\ output.gen # 0 /\ output.result[HStage(h)] # HGen(h) /\ missing # {}
          /\ IF HStage(h) = Reducer THEN Reply(h, "missing", missing) ELSE Reply(h, "error", {})
       \/ /\ output.gen # 0 /\ output.result[HStage(h)] # HGen(h) /\ missing = {}
          /\ handler' = [handler EXCEPT ![h].pc = "compute", ![h].seen.output = output]
          /\ UNCHANGED worker
    /\ UNCHANGED <<row, activeGen, fileVars, poll>>

\* An exception, a failed persist; the isolate is killed.
ComputeFails(h, outcome) ==
    /\ \/ "failure" \in Faults /\ outcome = "error"
       \/ "kill" \in Faults /\ outcome = "resource"
    /\ handler[h].pc \in {"compute", "write"}
    /\ Reply(h, outcome, {})
    /\ UNCHANGED <<row, activeGen, fileVars, poll>>

\* The fence again, "before committing output", but not with it.
PostFence(h) ==
    /\ handler[h].pc = "compute"
    /\ IF HGen(h) = activeGen THEN HGoto(h, "write") /\ UNCHANGED worker ELSE Reply(h, "ok", {})
    /\ UNCHANGED <<row, activeGen, fileVars, poll>>

Persist(h) ==
    /\ handler[h].pc = "write"
    /\ content' = [output  |-> Merged(handler[h].seen.output, HJob(h)),
                   payload |-> IF HStage(h) = Final THEN [kind |-> "enriched", gen |-> HGen(h)]
                               ELSE content.payload]
    /\ enrichment' = IF HStage(h) = Final THEN "completed" ELSE enrichment
    /\ IF HStage(h) = Final THEN HGoto(h, "finalize") /\ UNCHANGED worker ELSE Reply(h, "ok", {})
    /\ UNCHANGED <<row, activeGen, fileStatus, readiness, poll>>

FinalizeChain(h) ==
    /\ handler[h].pc = "finalize"
    /\ Finalize(HGen(h))
    /\ Reply(h, "ok", {})
    /\ UNCHANGED <<row, activeGen, content, fileStatus, enrichment, poll>>

-----------------------------------------------------------------------------
(* pipeline-status: maybeResumeBoundedEnrichment *)

\* Faulty variant: a poll of a finished file resumes as well.
PollReadAlways ==
    /\ poll.pc = "idle" /\ activeGen > 0
    /\ poll' = [pc |-> "read", gen |-> activeGen, output |-> content.output]
    /\ UNCHANGED <<row, activeGen, fileVars, worker, handler>>

\* The record of the file as the request read it.
PollRead ==
    /\ poll.pc = "idle" /\ activeGen > 0
    /\ enrichment = "pending" \/ readiness = "pending"
    /\ poll' = [pc |-> "read", gen |-> activeGen, output |-> content.output]
    /\ UNCHANGED <<row, activeGen, fileVars, worker, handler>>

\* Open rows of the generation end the poll: it waits for the extraction, or
\* dispatches the first open stage of the chain again (see PollDispatches).
PollQuery ==
    /\ poll.pc = "read"
    /\ poll' = IF \/ \E s \in Stage : row[<<poll.gen, s>>].status \in {"queued", "running"}
                  \/ poll.output.gen = 0
                 THEN NoPoll ELSE [poll EXCEPT !.pc = "resume"]
    /\ UNCHANGED <<row, activeGen, fileVars, worker, handler>>

\* resolveNextBoundedEnrichStageToResume
Unresolved(output, g) ==
    IF output.result[Final] = g THEN {}
    ELSE {k \in DOMAIN Chain : output.result[Chain[k]] # g}

PollResume ==
    LET holes == Unresolved(poll.output, poll.gen) IN
    /\ poll.pc = "resume"
    /\ IF holes = {}
         THEN Finalize(poll.gen) /\ UNCHANGED row
         ELSE /\ row' = Enqueued(row, activeGen, Chain[CHOOSE k \in holes : \A l \in holes : k <= l])
              /\ UNCHANGED readiness
    /\ poll' = NoPoll
    /\ UNCHANGED <<activeGen, content, fileStatus, enrichment, worker, handler>>

-----------------------------------------------------------------------------
(* Time *)

DelayElapses(j) ==
    /\ row[j].delayed
    /\ row' = [row EXCEPT ![j].delayed = FALSE]
    /\ UNCHANGED <<activeGen, fileVars, worker, handler, poll>>

\* Ten minutes outlast every invocation, of the worker and of the handler.
GoStale(j) ==
    /\ row[j].status = "running" /\ ~row[j].stale
    /\ \A i \in Invocation : My(i) = j => worker[i].pc \in {"idle", "exhausted", "stopping", "claiming"} \cup TailPc
    /\ \A h \in Handler : HJob(h) # j
    /\ row' = [row EXCEPT ![j].stale = TRUE]
    /\ UNCHANGED <<activeGen, fileVars, worker, handler, poll>>

-----------------------------------------------------------------------------
\* What an invocation does when nothing happens to it from outside.
WorkerProceeds(i) ==
    \/ FailExhausted(i) \/ FailFile(i) \/ Stop(i) \/ CancelFile(i) \/ Claim(i)
    \/ BeginNormalize(i) \/ Publish(i) \/ EnqueueFirst(i) \/ FinishExtract(i) \/ CheckDispatch(i)
    \/ RetryExtract(i) \/ FailExtract(i) \/ Park(i)
    \/ \E h \in Handler : Call(i, h)
    \/ Fence(i) \/ CancelStale(i) \/ Complete(i) \/ Advance(i)
    \/ DegradeRead(i) \/ DegradeWrite(i)
    \/ Fail(i) \/ NoteRead(i) \/ NoteWrite(i) \/ FinalizeFailed(i)
    \/ BeginRequeue(i) \/ \E s \in Substage : RequeueMissingRead(i, s)
    \/ RequeueMissingWrite(i) \/ Revive(i) \/ Requeue(i)

HandlerProceeds(h) ==
    PreFence(h) \/ Read(h) \/ PostFence(h) \/ Persist(h) \/ FinalizeChain(h)

PollStep == PollRead \/ PollQuery \/ PollResume

Next ==
    \/ StartGeneration
    \/ RequestCancel
    \/ \E i \in Invocation :
         \/ \E j \in Job : Load(i, j)
         \/ FailUnreadable(i)
         \/ \E h \in Handler, outcome \in {"resource", "error"} : LoseCall(i, h, outcome)
         \/ Die(i)
         \/ WorkerProceeds(i)
    \/ \E h \in Handler :
         \/ \E outcome \in {"resource", "error"} : ComputeFails(h, outcome)
         \/ HandlerProceeds(h)
    \/ PollStep
    \/ \E j \in Job : DelayElapses(j) \/ GoStale(j)

Spec == Init /\ [][Next]_vars

\* The poll dispatches the first open stage of the chain when it has waited
\* in the queue or run unheard of for too long.
PollDispatches(j) ==
    /\ enrichment = "pending" \/ readiness = "pending"
    /\ GenOf(j) = activeGen /\ StageOf(j) \in Bounded
    /\ row[<<activeGen, ExtractStage>>].status \notin {"queued", "running"}
    /\ content.output.gen # 0
    /\ (row[j].status = "queued" /\ ~row[j].delayed) \/ row[j].stale
    /\ \A k, l \in DOMAIN Chain :
         Chain[k] = StageOf(j) /\ row[<<activeGen, Chain[l]>>].status \in {"queued", "running"} => k <= l

\* Invocations run on or die, time passes, and the user interface polls until
\* the verdict is there: a request reaches a worker again and again, and not
\* every worker dies between its load and its first statement.
Fairness ==
    /\ \A i \in Invocation : WF_vars(WorkerProceeds(i))
    /\ \A h \in Handler : WF_vars(HandlerProceeds(h))
    /\ \A j \in Job : WF_vars(DelayElapses(j)) /\ WF_vars(GoStale(j))
    /\ WF_vars(PollStep)
    /\ SF_vars(\E i \in Invocation, j \in Job : PollDispatches(j) /\ Load(i, j))
    /\ SF_vars(\E i \in Invocation : Claim(i))
    /\ SF_vars(\E i \in Invocation : FailExhausted(i))

FairSpec == Spec /\ Fairness

-----------------------------------------------------------------------------
(* The chain runs on the queue *)

\* What PipelineQueue sees of an invocation.
QueueView(w) ==
    CASE w.pc \in HoldPc \cup {"stale"} -> [pc |-> "working", job |-> w.job, target |-> NoJob]
      [] w.pc \in TailPc                -> [pc |-> "idle", job |-> NoJob, target |-> NoJob]
      [] OTHER                          -> [pc |-> w.pc, job |-> w.job, target |-> w.target]

Queue == INSTANCE PipelineQueue WITH inv <- [i \in Invocation |-> QueueView(worker[i])]

\* Whatever workers, handlers and polls do in between, rows, generation and
\* invocations change only as the queue allows: all its properties hold here.
UsesQueue == Queue!Spec

-----------------------------------------------------------------------------
(* Properties *)

\* All state has the shape the code gives it, and a caller that is named by a
\* handler waits for it.
TypeOK ==
    /\ row \in [Job -> Row]
    /\ activeGen \in 0 .. MaxGen
    /\ content \in Content
    /\ fileStatus \in FileStatus
    /\ enrichment \in {"pending", "completed"}
    /\ readiness \in {"pending", "ready", "failed"}
    /\ worker \in [Invocation -> Worker]
    /\ handler \in [Handler -> Handling]
    /\ poll \in Poll
    /\ \A h \in Handler : handler[h].caller # Nobody =>
         At(handler[h].caller, "calling") /\ My(handler[h].caller) = HJob(h)

\* "Enrichment required by default for every lease document": a file is only
\* ready for review and approval with the payload the final stage of its own
\* generation assembled from a complete set of results.
ReadyMeansAssembled ==
    readiness = "ready" =>
        /\ content.payload = [kind |-> "enriched", gen |-> activeGen]
        /\ \A s \in Bounded : content.output.result[s] = activeGen

\* The results of a generation only accumulate: no write of a later stage, a
\* duplicate, a reclaimed attempt or a degraded sub-stage drops one.
ResultsKept ==
    [][\A s \in Bounded : content.output.result[s] = activeGen /\ activeGen' = activeGen
         => content'.output.result[s] = activeGen]_vars

\* What a generation has published stands until the next one: no repeated
\* extraction and no late note of a failure puts a draft back over the enriched
\* payload, and no late finalization, by a poll that read the file long before
\* or a worker that failed a stage, takes the readiness back.
PublishedStands ==
    [][activeGen' = activeGen =>
         /\ content.payload = [kind |-> "enriched", gen |-> activeGen] => content'.payload = content.payload
         /\ readiness = "ready" => readiness' = "ready"]_vars

\* The verdict is about the active generation, whoever asks for it: a worker, a
\* handler or a poll still busy with an older one does not fail or finish it.
VerdictIsCurrent ==
    [][readiness' # readiness =>
         /\ readiness' = "failed" => \E s \in Bounded : row[<<activeGen, s>>].status = "failed"
         /\ readiness' = "ready"  => row[<<activeGen, ExtractStage>>].status = "completed"]_vars

\* Once the extraction has completed, the chain comes to a verdict, or to a
\* failed row, although workers die and dispatches get lost.
ChainSettles ==
    \A g \in Gen : row[<<g, ExtractStage>>].status = "completed" ~>
        readiness # "pending" \/ \E s \in Stage : row[<<g, s>>].status = "failed"

=============================================================================
