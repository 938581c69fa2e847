# A verification project for ProForma OS

ProForma OS is a commercial real-estate suite: a React client (`src/src`),
Supabase Edge Functions written in TypeScript (`src/supabase/functions`) and a
Postgres schema whose procedures are written in PL/pgSQL
(`src/supabase/migrations`).  Paths below are relative to the repository,
which is `src/`.  A migration that replaces an earlier version of a procedure
wins; the models translate the latest version.

The part with the hardest behaviour is the lease extraction pipeline: a file
is uploaded, a durable job queue drives workers through parse, normalize and a
chain of bounded enrichment stages, the client polls, and the user may cancel,
delete or re-extract at any time.  Nothing in it holds a lock across two
statements; Edge Functions are killed at a wall clock, calls between them are
fire-and-forget, and there is neither a heartbeat nor a background reaper.
The first modules are about this part, and the next about what an extraction
is for: the approval of the lease abstract, with everything that is derived from
it.  Then come the files that are not leases, what landlords recover of their
expenses (CAM: inputs, runs, calculation, ledger), the reminders of what a
lease obliges to, and the budget of a year.

## 1. Inventory

For each component: its state, its operations, how it is driven, and what
makes it correct.  Section 2 says in which order they are modelled.

### A. Upload lifecycle
State: `uploaded_files` (`confirmed_at`, `status`, the review columns, three
generations of rows) and the document in the storage bucket.  Operations:
`upload-handler` (row and signed URL), `confirm-upload` (an atomic update of the
unconfirmed row, then a call to `ingest-file`), `cancel-upload`,
`delete-uploaded-file`, `ingest-file`, which calls the functions of F and I one
after the other and may give up waiting for them while they go on.  The call to
`ingest-file` may be lost after the flip, and then a repeated confirmation
answers `already_confirmed` and starts nothing.  Correct when a file is
ingested once, a cancel that loses the race against a confirmation destroys
nothing, and a file that got stuck can be taken up again.

### B. File status machine
State: `uploaded_files.status`.  `_shared/pipeline-status.ts` holds the
transition table and `setStatus`, which reads the status, checks the table and
then updates the row by id.  `setFailed`, the reset of `ingest-file`'s
`force_reextract` and `stopForCancellation` write without the table.  Writers:
every Edge Function of the pipeline, several at a time, so that a transition
outside the table happens whenever somebody writes between the read and the
update.  Correct when what the status stands for holds nevertheless.

### C. Job queue and generations
State: `pipeline_jobs`, `uploaded_files.active_generation_id`.
Operations: `start_lease_extraction_generation`, `enqueue_pipeline_job`,
`claim_pipeline_job`, and the updates by id of the worker.  Dispatches are
lost, late or duplicated; a claim is atomic, every other statement of the
worker is an update by id.  Correct when a job has at most one worker, the
attempt budget holds, and a newer generation takes the older one's jobs out.

### D. lease-extraction-worker
State: what an invocation remembers between two statements.  It loads a job,
checks budget and cancellation, claims, calls `parse-document-azure`,
`normalize-pdf-output` (which may time out while the work goes on), reconciles
with the durable status of the file, completes, requeues, fails, parks for
manual review or acknowledges a cancellation.

### E. Bounded enrichment stages
State: `normalized_output.metadata.extractionDebug.bounded_stage_results` (one
entry per stage, with the generation that computed it), `ui_review_payload`,
and the rows of the stages.  The worker calls `handleBoundedEnrichStage` in
`normalize-pdf-output` (fence, read the file, reuse or compute, fence, write the
whole output back, after the final stage the payload and the verdict) and then
`completeBoundedEnrichStage` (fence, complete the row, enqueue and dispatch the
next stage; or degrade an optional sub-stage; or fail the row, note the failure
in the payload and ask for the verdict).  Hard: a stage's row and its result
are different statements, a timed-out handler runs on, the fence is a read
before a write, the enqueue uses the file's generation and not the caller's.
Correct when results only accumulate, stages start in order, generations do not
mix, failures become visible and the chain does not stop half-way.

### F. Parse and normalize functions
State: the file's status, `parsed_data`, `normalized_output`,
`ui_review_payload`, `review_required`.  `parse-file` reads spreadsheets;
`parse-document-azure` and `normalize-pdf-output` read documents, are called by
`ingest-file` or the worker, and outlive their timeouts.  `normalize-pdf-output`
accepts a file in `pdf_parsed` or `validating` only, decides on what it read
of the row when it began, and for a lease starts the enrichment chain.  A document
that gives nothing clears `review_required`.

### G. Readiness and finalizer
State: `review_readiness`, its reasons, `review_ready_generation_id`.
`evaluate_lease_extraction_readiness` looks at the active generation's rows,
the file and the payload; `finalize_lease_extraction_for_review` writes the answer.
Correct when a file is ready only for its active generation and with a
complete chain.

### H. pipeline-status and pipeline-health-check
The client polls `pipeline-status`, which repairs a stalled chain: it enqueues
the next bounded stage or dispatches a queued one again.  It never dispatches
parse or normalize again.  `pipeline-health-check` only reads.

### I. Review and validation handlers
`validate-data` and `store-data` take the rows of a file into the table of its
module; `review-approve` lets a person correct them first, and then calls both;
`compute-orchestrator` starts the computations that depend on them.
`document-field-review-action`, `operational-review-command`: decisions on
single fields and obligations.  `review-approve` also turns an
extraction into the draft of a lease; when it is run again it reads the field
reviews of the draft, rebuilds `extraction_data` and writes the reviews back,
and then links the lease to its file by reading and writing `extraction_data`
once more.  Correct when no decision of a reviewer is lost, rows that need a
review are stored only after one, and no row is stored twice.

### J. Lease approval workflow
State: `leases` (two status columns, `abstract_version`, the approval stamp,
`extraction_data.field_reviews`), `lease_abstract_versions`,
`lease_approval_workflow_runs` (one per idempotency key, with the stored
response), `lease_critical_dates`, `lease_expense_rule_sets`,
`lease_expense_rules`, `rent_schedules`, `lease_obligations`.  Operations:
`approve-lease-workflow` calls `approve_lease_workflow`, one transaction that
replays a stored response, reports an approved lease, or approves; after the
commit it backfills critical dates, publishes expense rules, calls
`compute-lease` and waits for it, and materializes obligations, each step
reporting its failure and going on.  Nothing resumes a request that died there:
the client calls again.  The client also starts `compute-lease` itself, several
calls at a time that nobody awaits.  Other writers of the lease:
`save_lease_review_draft`, `reject_lease_abstract`, `send_back_lease_review`,
`supersede_duplicate_lease`, `review-approve`.  Hard: retries that overlap the
request they repeat, writers that look at one status column each, a lease read
three statements before rent rows are inserted, a deletion and an insertion that
are no transaction.  Correct when a key approves once and is always answered
alike, an approved lease is locked, and what is derived belongs to an approval.

### K. Expense rule sets and CAM publication
`_shared/lease-expense-rule-*-workflow.ts` and their migrations: drafts,
publication, supersession of rule sets.

### L. Expense classification and CAM inputs
State: `expenses`, `expense_classifications`, `cam_expense_inputs` (the
versions of what an expense puts into CAM, each naming the one before),
`cam_pool_expense_assignments`, the answers stored for idempotency keys.
Operations: `update_expense_details`, `persist_expense_classification`,
`review_expense_classification`, `send_expense_classification_to_cam_workflow`,
`withdraw_cam_expense_input_workflow`, `assign_cam_input_to_pool`, and the
trigger that makes a new version when a published expense is edited.  All are
transactions at READ COMMITTED which read some rows without a lock and wait for
others in different orders; `now()` is the start of the transaction.  Correct
when an expense has one current version, a withdrawn one does not come back by
itself, and an outdated one can be told from a current one.

### M. CAM engine and runs
State: `cam_runs` (status, stale flag, inputs and hash of the snapshot),
results, `cam_ledger_entries`.  `run-cam-calculation-v2` reads readiness and
snapshot in two transactions, computes outside of any (`_shared/cam-engine-v2`)
and persists the results in a third; `cam-run-workflow-v2` submits, approves,
posts and supersedes.  Edits of expenses mark runs as stale.  Correct when a
posted ledger is never touched, and a result that rests on something edited
since says so.  The calculation slices the year at every date something
begins or ends, charges pools to leases by share, caps, stops and gross-ups, and
rounds so that a pool adds up.  Correct when nobody pays for a day he was not
there, terms for a year hold over the year, and nothing missing passes silently.

### N. Budgets
State: `budgets` (one row per organization, scope and year, with totals and status),
`budget_line_items`, `computation_snapshots` (one completed per series, approval
baselines beside it).  `compute-budget` has the actions generate (from the live rows
of leases, revenues and expenses, or from a set of frozen planning snapshots: check the
status, upsert the row, with a planning set delete and insert the line items, publish
the snapshot), mark_reviewed, reject, approve and lock, each a chain of separate calls;
errors of the line items and of the snapshot are logged and swallowed.  Approval is
`approve_and_lock_budget`, one transaction that compares the `updated_at` it was sent;
the other actions update the row by id.  Triggers protect a locked budget's
totals and line items (20260904000000, 20269900000061, 64 and 79).  Correct when
an approval signs what its approver read, a locked budget keeps its figures, and
totals, line items and snapshot agree.

### O. Tenant reconciliation
`tenant-reconciliation-command`: statements, disputes, settlement.

### P. Notifications
State: `notifications` (one per event, recipient and key),
`notification_deliveries` (one per notification, channel and destination).
`notification-dispatch-v9` goes through the recipients of an event: insert the
notification, and per channel look at the delivery row, send, and record.  There
is no backoff and no dead letter queue: who wants a retry dispatches the event
again.  `dispatch-critical-date-notifications` uses no key.  Correct when a
reminder that was recorded is not sent again, and one that was lost is sent by
the next run.

### Q. Integrations
`integration-webhook-delivery`, `integration-events-v1`, `calendar-sync-v9`,
`connector-management-v9`: at-least-once delivery, retry, revocation.

### R. Obligations and rent rules
State: `lease_obligations`, `lease_obligation_occurrences`.
`generate-obligation-occurrences` is started by a schedule every day, and by
users: it reads obligations and occurrences, upserts what falls into the window,
and awaits a dispatch (P) for each occurrence whose day it is.  Users close
occurrences meanwhile (`operational-review-command`).  Correct when nobody is
reminded of what is closed, and a day's failures can be made up for on that day.
CPI, percentage rent and management fees are date arithmetic and sums.

### S. Access and onboarding
`approve-request`, `invite-*`, `first-login`, `complete-onboarding`, roles.

### T. Billing
`stripe-webhook`, `create-checkout-session`: duplicated, reordered events.

### U, V. Portfolio intelligence, assistant
Read models and a chat front end on top of the other components.

### W. Cascade deletion
`delete-lease-cascade`, 20269900000081, 82 and 84: deletion in one transaction.

### X, Y. Client; export and address validation
Presentation and pure input and output.

## 2. Plan

In this order; an entry marked done is in this directory.

1. `PipelineJobs` (rows and their statements), `PipelineQueue` (the queue, every
   statement one action), `PipelineQueue_proofs`.  Done.
2. `EnrichChain`, which extends `PipelineJobs` and refines `PipelineQueue`: the
   chain, its stage handlers, the status poll, the readiness verdict.  Done.
3. `FileImport` (A, B, F, I): a file that is not a lease from its confirmation
   to the rows it ends as, `setStatus` as a read, a check and an update.  Done.
4. `LeaseApproval` and `LeaseApproval_proofs` (J, and the draft rebuild of I): the
   approval transaction, the steps after its commit, the other writers of the
   lease, rent computation.  Done.
5. `CamInputs` (L); `CamLedger`, what the ledger promises, and `CamRun` (M), which
   implements it.  Done.
6. `CamCalc` and `CamEngine` (M): the calculation as functions over bounded inputs
   and as the passes over pools and leases.  Done.
7. `Reminders` (P, R): the scheduler of obligations and the dispatch of an event
   with a key.  Done.
8. `LeaseExtraction`: the parse and normalize job of a lease with the statements of
   `FileImport`, the reconciliation with durable output, parking; `EnrichChain` has an
   abridged version of it, and a mapping from the one to the other is to be
   checked.
9. `Budget` and `Budget_proofs` (N): generation, review, approval and locking of a
   budget, call by call.  Done.
10. Webhooks (Q) and Stripe events (T), duplicated and reordered; onboarding (S).
11. Proofs of type correctness and of the properties of `EnrichChain`, `FileImport`,
    `CamInputs`, `CamRun` and `Reminders`, among them that `EnrichChain` implements
    `PipelineQueue` and `CamRun` implements `CamLedger`.  Done.
12. Proofs about `CamEngine`: sums over finite sets, the rounding boundary, the pools and
    what leases are charged, and the amounts by segment against the reference by day.  Done.
13. What the chain promises across generations: `ReadyMeansAssembled` and `ResultsKept`
    under weaker hypotheses than one generation (section 5).

## 3. Modules and the code

| Module | Models | Builds on |
|---|---|---|
| `PipelineJobs` | a row of `pipeline_jobs` and what a statement does to it: `NewRow`, `Claimable`, `Claimed`, `Retire`, `Enqueued`, `WithStatus` | |
| `PipelineQueue` | rows, generations and worker invocations of one file | `PipelineJobs` |
| `PipelineQueue_proofs` | theorems about `PipelineQueue` | `PipelineQueue`, `TLAPS` |
| `EnrichChain` | the enrichment chain of one file | `PipelineJobs`; `Queue == INSTANCE PipelineQueue` |
| `EnrichChain_proofs` | theorems about `EnrichChain` | `EnrichChain`, `TLAPS`; `QP == INSTANCE PipelineQueue_proofs` |
| `LeaseApproval` | the approval of one lease and what is derived from it | |
| `LeaseApproval_proofs` | theorems about `LeaseApproval` | `LeaseApproval`, `TLAPS` |
| `FileImport` | a file that is not a lease: confirm, cancel, delete, ingest, parse, normalize, validate, store, review | |
| `FileImport_proofs` | theorems about `FileImport` | `FileImport`, `TLAPS` |
| `CamInputs` | one expense: its classification, the versions of its CAM input, their pools | |
| `CamInputs_proofs` | theorems about `CamInputs` | `CamInputs`, `TLAPS` |
| `CamLedger` | what the ledger of CAM runs promises (abstract) | |
| `CamRun` | the runs of a period: calculation, review, posting, supersession, edits | `Ledger == INSTANCE CamLedger` |
| `CamCalc` | the functions of the calculation: segments, shares, policy steps, rounding | |
| `CamEngine` | the passes of a calculation over pools and leases | `CamCalc` |
| `Cam_proofs` | theorems about `CamRun`, that it implements `CamLedger`, and about `CamEngine` | `CamRun`, `CamEngine`, `TLAPS` |
| `Reminders` | obligations, their occurrences, notifications and deliveries | |
| `Reminders_proofs` | theorems about `Reminders` | `Reminders`, `TLAPS` |
| `Budget` | one budget: generation, review, rejection, approval, locking | |
| `Budget_proofs` | theorems about `Budget` | `Budget`, `TLAPS` |
| `MCPipelineQueue`, `MCEnrichChain`, `MCLeaseApproval`, `MCFileImport`, `MCCamInputs`, `MCCamRun`, `MCCamEngine`, `MCReminders`, `MCBudget` | instances for TLC | |

**State of the queue and the chain.** `row` is the table, indexed by generation and stage: the unique index
over file, generation and stage makes that a function.  A row has its
status, its attempt counter, the cancel flag, and two Booleans for time: `delayed`
(`available_at` lies ahead) and `stale` (`updated_at` is older than the ten
minutes of `claim_pipeline_job`).  `activeGen` is
`uploaded_files.active_generation_id`.  An invocation (`inv`, in `EnrichChain`
`worker` and `handler`) has a position and what it read earlier and still uses.
`content` is the pair of `normalized_output` and `ui_review_payload`, reduced to
who computed what: a result is the generation that stored it.

**Actions.** One action is one statement on the database, together with the
computation up to the next one.  Procedures (`start_lease_extraction_generation`,
`enqueue_pipeline_job`, `claim_pipeline_job`,
`finalize_lease_extraction_for_review`) lock the rows they use and are one action
each.  A read followed by a write of a TypeScript function is two actions
(`NoteRead`, `NoteWrite`; `DegradeRead`, `DegradeWrite`; `Read`, `Persist`;
`PollRead`, `PollResume`), and so is an update followed by a call
(`Complete`, `Advance`).  A worker that only holds the row and one that has
settled it are told apart by `HoldPc` and `TailPc`.

**Dispatches** are fetches nobody awaits.  There is no inbox: `Load` takes
any open row at any time, so a dispatch may be late or doubled, and one that is
lost is a `Load` that does not happen.  The exception is the extraction row in
`EnrichChain`, which `ingest-file` dispatches once.

**What is abridged in `EnrichChain`.** The chain of the code has fifteen stages; the
model has any sequence with sub-stages, the reducer that may answer
`PRIOR_STAGE_MISSING`, and a final stage, and TLC runs the shortest one.  Parse
and normalize are `BeginNormalize` (the checkpoint and the guard on the status)
and `Publish` (the core persist, which no generation fence protects), followed by
what the worker makes of the answer.  The file status keeps `extracting` (from
`uploaded` to `validating`), `review_required`, `failed` and `cancelled`.  There is
one poll at a time.

**`LeaseApproval`.** `lease` has the two status columns, the version and whether the
approval stamp is set.  `run[k]` is the stored response of a key, reduced to the
version it names and `already_approved`.  Field reviews are model values, and
what is derived from them (`dates`, `obligations`) is identified by them; rule sets by
the request that made them; rent rows by the call that inserted them and the
version it held.  `Approve`, `AlreadyApproved` and `Replay` are the three outcomes of
`approve_lease_workflow`, one transaction each; the procedures of the other
writers are one action each, and everything in an Edge Function is one action
per statement: `request` is a call of `approve-lease-workflow`, `compute` one of
`compute-lease`, `rerun` one of `review-approve`.  A lease may yield no rent rows (its
rent starts after its end, `_shared/rent-schedule.ts:441`); the code then deletes the old
ones, skips the insertion (`compute-lease/index.ts:299`) and no call fails (`none`).  Left out: the snapshot and its
validation (a request that fails it never reaches the transaction), the
projections that `compute-lease` returns, recovery policies, the repair of rules
that exist, the cascade of a supersession to rules, edits of single fields.

**`FileImport`.** `file` is the row of `uploaded_files`: existence, confirmation,
status, the review columns as one value (`NeedsReview` is `review_required`), and
which rows `parsed_data`, `valid_data` and `reviewed_output.final_records` hold, as
extracted or as a reviewer edited them.  `call` is a request with the functions it
awaits; `seen` is the record a function read when it began.  A function whose caller
has gone goes on `alone`, and a parser that `ingest-file` gave up runs beside it
(`GiveUp`).  `SetStatus` is two steps, the look and the update.  An extraction that finds
nothing in a file that shows values (`ShowsValues`) is answered as a success and leaves the
file `validating` (`normalize-pdf-output/index.ts:4035-4060`), which is one way of `Publish`.  Rows in `table`
are counted per kind; the duplicate check and the unique index of expenses
compare contents, so edited rows are others than raw ones.  Left out:
`defer_store`, formats nobody can read, leases (their status goes through C to
H), logging.  `Compute` ends in `failed` since the code does: see below.

**`CamInputs`.** A procedure is split at each wait for a row lock: `call` is an open
transaction, what it has read stays in it, and `Aborts` covers everything the
database or a check refuses, deadlocks included.  A version of the input is a record
in a sequence, assignments are in halves of its amount, times are a counter.  Every update
of a classification sets its time, also where the statement does not name `updated_at`: a
trigger does (`20260512090000_lease_workflow_foundation.sql:128-142`).  Left
out: edits of columns nothing tracks, the publication of amounts from lease rules,
the resolver that proposes categories (its refusals are aborts), the moving of a
property.

**`CamRun`** has a run's status, results, stale flag and the requests that work on
it, one action per database call; each review procedure locks the run and is one
action, supersession is two (it looks at both runs without a lock), an edit is two
(it marks runs, then commits).  A source is the number of edits that are in it
and whether the engine finds anything that blocks.  `prepareCamAutomatically` runs
between the reads and changes setup only, which is chosen when it is read.  Left out:
restatement and adjustment runs (their procedures raise, since they name columns that
do not exist), statements and exports.

**`CamCalc` and `CamEngine`.** Days are numbers; money is in internal units of which
four, instead of ten thousand, make one of the ledger; areas are whole.  Averages are
rounded per scope and floating point is left out.  Kept are the policy steps that
lease terms are turned into (share or directly assigned amount, gross-up, base
year, stop, cap, administrative fee); nothing creates floors, deductibles,
amortizations, management fees, exclusions or other rounding scopes.  The code
goes through pools and leases in the order of the snapshot, whose query fixes
none; the model takes any.

`WellFormed` is what the tables admit, and what the theorems assume of an input.
Windows do not end before they begin and measurements of a scope do not overlap
(CHECK and EXCLUDE constraints), `variability` is one of four values
(`20269900000020:26`), and no assigned amount is negative: no command that writes
amounts of expenses takes one that is.  The sign of lease terms, targets,
adjustments and posted years is checked nowhere, so these are integers.

`DayByDay` is the reference of the whole calculation: for each day, what is in force on
that day, with neither segments nor months.  `ShareOn`, `CostsOn` and `OnTheDay` compute
it from the tables' rows, in fractions of `Scale`.  It speaks of leases whose policies
have a share and no other terms (`Shares`), of pools where no scope is measured anew
within a segment (`Steady`), and of a `Scale` that makes whole numbers of the
fractions (`Fits`; in the run it always does where the other two hold).  The difference is
bounded by `Tolerance`: in a segment, half a unit for each cost that is prorated to it, and
half a unit for each share that is taken of these costs, of which there are no more than
costs.

**`Reminders`** has one action per database call or send of the scheduler and the
dispatch it awaits.  All code that creates obligations writes them due once, on one
date; only that rule is modelled.  `Send` has every answer of the code: a provider that is
not configured answers `failed` also where there is no address, and an email address that
cannot be looked up is taken for none.  The provider's view is history (`accepted`).  Who
is to be notified is data.  Users' commands are one action each, check and update.

**`Budget`.** Figures are where they came from: a planning set, whose snapshots are
frozen, or the live rows after so many edits; different origins stand for different
totals.  `request` is an invocation with what it computed and what it read;
there is one action per database call, the two procedures are one each, and a
statement and the trigger it fires are one step.  (The trigger on line items reads the
budget's status without a lock, so an insertion may in fact overlap an approval; no
property speaks of the line items of a locked budget.)  The live rows are
read by several queries, which the model has as one `Load`.  `ai_generated` and
`under_review` are `draft`; `signed` is written nowhere and `approved` by no code
any more, but old rows have it, so a budget may begin there.  `EditAmount` is an edit that the
fingerprint of the live rows, made of row ids and upstream snapshot ids, does not
see.  The reads whose errors the code drops (of the status before an upsert, of a matching
or of the latest snapshot) may fail and are then taken for "there is none".  `undisturbed` is history.  Left out: expected snapshot
ids, which no client sends, and the hash and lineage of versions.

**Not modelled.** The legacy `enrich` stage, which only rows from before the
bounded chain have; the answer `WORKER_CONFIG_MISSING`; single statements that
the database refuses; failures inside parse and normalize; the reasons for a
`pending` verdict that come from the classification of the document; what
language model and parser return.  Section 1 lists the components that have no
module yet.

## 4. Runs

`MCPipelineQueue` has two generations, a sub-stage, its reducer and the extraction
stage, two invocations and two attempts per job; the constraint bounds the claims
of the first generation and leaves the second one alone once it has superseded
the first.

| Run | Instance | Question |
|---|---|---|
| `queue` | as above | Do duplicates, reclaims, requeues, cancels and a new generation leave a job with one worker, its budget, and a retired row retired? |
| `chain` | 1 generation, 2 workers, 2 handlers, 2 attempts; crash, kill, failure | Do results only accumulate, does ready mean completely assembled, does what was published stand? |
| `chain_generations` | 2 generations, 2 workers, 1 handler, 1 attempt; failure, cancel | Across a re-extraction or a cancel, is every step one that `PipelineQueue` allows, and the verdict about the active generation? |
| `chain_live` | 1 generation, 1 worker, 1 handler, 2 attempts; crash, kill, lost calls, unreadable file; fairness | Does the chain come to a verdict or a failed row, by steps that `PipelineQueue` allows? |
| `approval` | a request, its retry, another reviewer's request, 2 rent computations, 1 re-run; failures | Does a key approve once, does an approval stay, does everything derived belong to one? |
| `cam_inputs` | 2 transactions at a time, 5 in all; 2 keys, 2 amounts, 2 pools | Do the versions of a CAM input stay one chain, does a pulled-back one stay back, can an outdated one be told? |
| `cam_run` | 2 runs (standard or preview), 2 requests at a time, 1 edit | Is every step one that `CamLedger` allows; does whoever looks at a run see that an edit has outdated it? |
| `cam_engine` | some 6000 inputs: 3 leases, 2 pools, 2 expenses, 6 days | Are amounts by segment what a reference by day says, are terms those of a year, does rounding add up, what does a ready result presuppose? |
| `reminders` | 1 obligation, 2 recipients, 2 runs at a time, 3 in all, 2 days; deaths, refusals, lost answers | Is nobody reminded of what is closed, does nobody get a message twice, does a clean run repair what failed ones left? |
| `imports` | 3 requests of every kind, 2 at a time, 3 kinds of files; deaths, time limits, failures | Does a cancel spare a confirmed document, are rows of expenses inserted once, does a forced retry repair? |
| `imports_gate` | imports and retries only | Expected violation: is what needed a review stored only after an approval? |
| `budget` | 2 requests at a time, 2 planning sets, 5 writes of the row, 1 edit; deaths, swallowed errors | Does an approval sign what was read, does a locked budget keep its figures, do totals, line items and snapshot agree? |

Why these bounds are enough for the questions: the hazards are about two
parties, a worker or handler that went on for too long and the one that took
over from it, so two invocations, two attempts and two generations contain the
first occurrence of each.  Three stages contain a first, a middle and a last
one, and the sub-stage with its reducer is the only place where the chain goes
back.  `chain_generations` leaves out duplicates of a job that is being
worked on (`NoDuplicates`), which `chain` has, and has cancels of the first generation
only, while at most one worker is busy and with no re-extraction after it
(`CancelAlone`, `CancelLast`).

`approval` has the smallest set of requests with a retry and a competitor.  Its
bounds: two requests overlap after their commit only as long as they publish
expense rules; later they share the rent schedule alone, on which two calls of
`compute-lease` overlap (the client starts one).  `review-approve` runs only
before the first version and while no rent is computed: the field reviews, the one
thing it writes, are read by nobody else.  Once a version exists, only an approved
or a superseded lease is explored further; it can be superseded and approved
again for as long as there are keys.  The theorems of section 5 have none of these
bounds.

`cam_inputs`: five transactions publish an input, edit its expense, publish the next
version, withdraw or review one and assign it to a pool, with any two of them
open together; a third open one would wait for the same row lock as the second.
`cam_run`: `OneOpen` admits one run that is not posted beside posted ones, since runs
meet only when one supersedes another; two requests on the one are what the
status checks of its procedures are for.  In `cam_engine` each of five families of
inputs (`Starting`, `Rounding`, `Terming`, `Missing`, `Open`) varies what it is named
for and keeps the rest of a plain input; six days in two months contain a
segment that ends within a month, at its end and after it, and three leases are
the fewest among which the leftover of rounding is not shared evenly.
`reminders` has the day before the due date, on which the reminder is due, and the day
itself, on which runs of the day before may still write, and a third run that is clean
after two that overlapped.  `imports`: the third request is the forced retry, or the save that
falls between the writes of an approval.
`budget`: five writes are a generation, its review and approval, and two by requests
that were under way, as many as are under way at a time; two planning
sets and the live rows are a set of its own, another one and the source without line
items.  The theorems have none of these bounds.

`MCPipelineQueue.cfg` and `MCBudget.cfg` check deadlock.  The other systems come to rest: a file with a
verdict and no generation left, a lease nobody touches any more, transactions or
requests used up, all inputs calculated.

### Properties that hold

`ClaimExclusive`, `RetiredForever` (queue);
`ReadyMeansAssembled`, `ResultsKept`, `PublishedStands`, `VerdictIsCurrent`, `UsesQueue`, `ChainSettles` (chain); `AnswerMatchesHistory`,
`AnswerKept`, `ApprovedIsLocked`, `RentAuthoritative`, `ScheduleKept`,
`DerivedFromAnswers` (approval); `OneChain`, `StaleSourceShows`, `PulledBackStays`
(CAM inputs); `KeepsLedger`, `StaleShowsEdits` (CAM runs); `DayByDay`, `YearlyTerms`,
`RoundedTies`, `ReadyMeansComplete` (calculation); `ClosedIsQuiet`, `RecordedOnce`,
`CleanRunRepairs` (reminders); `DocumentKept`, `ImportedOnce`, `RetryRepairs`
(imports); `SignedAsSeen`, `PlanAgrees`, `LockHolds` (budget).  Each is stated next to its definition, with the conditions under
which the code keeps it.  Each has a mutant, a definition with a plausible bug,
for which TLC finds it violated; mutants stand before the definition they replace
and say what is wrong with them.

`SupersededIsRetired` and `QueueInv` of `PipelineQueue`, `ColumnsAgree` of
`LeaseApproval`, and `TypeOK` of `LeaseApproval` and `Budget` have no run of their own:
they are proved.

### Fairness

`Fairness` assumes of the code's environment what the code relies on: an
invocation runs on or dies (`Die` is an action, so it may do either), ten minutes
and delays pass, the client polls while there is no verdict, and among the
dispatches of the poll infinitely many arrive and infinitely many reach the
claim or the end of the budget.  The last is strong fairness: a row that is
dispatched again and again does not lose every worker before its first
statement.  Nothing is assumed of dispatches that are sent only once.

### Disagreements between code and comments

One run is expected to end in a violation.  `imports_gate`: two overlapping imports of
one document store the rows of a document that needs a review without one, since
the columns that say so are cleared and set by either (`ReviewGate`, against the
comment at `store-data/index.ts:478-480`).  The following the models show as well,
without a run of their own; names of functions are those under
`supabase/functions`.

**Chain.**
- A handler whose caller timed out writes back the output as it was before the
  retry, drops what the retry and later stages stored, and the chain may never
  come to a verdict.  With "orphan" among the `Faults` of `MCEnrichChain.cfg` TLC shows
  it as a violation of `ResultsKept`.  That property holds where no call is given up
  while its handler runs.
- A bounded stage that runs out of attempts fails the file, which has its core
  results, against "Guarantee 7" of `pipeline-status`.  Its `review_readiness` stays
  `pending` for ever, since the finalizer is not called on that path.
- A cancel during a stage does not stop the chain: the worker goes on and enqueues
  the next one.  A cancel between two stages finds no open row to flag.
- A worker of an old generation that has passed its fence enqueues the next stage
  under the new generation, in the middle of a chain that has not begun.
- A row of an old generation that its reducer puts back after the re-extraction is
  claimed again (nothing compares generations in `claim_pipeline_job`).
- A running worker of the old generation takes the flag that supersedes it for a
  cancel and sets the file, which the new generation is extracting, to
  `cancelled`.
- A normalize of the old generation publishes over the new one, since the core
  persist is not fenced.
- A failed final row with two workers is overwritten with `cancelled` when the one
  that still holds it notices a cancel, and the file then counts as ready.

**Approval.**
- A re-run of `review-approve` writes back the field reviews it read before a reviewer
  saved others.
- An approval that is retried while its first request is computing the rent has
  its schedule inserted twice (`compute-lease/index.ts:270` and `:298`), which
  `lease-approval-rent-schedule-atomicity.property.test.ts:187-191` excludes for
  calls one after another.
- A superseded lease is not locked, so that a request with a new key approves it
  again.
- A computation of a lease that yields no rent rows deletes the schedule that was there.
  No call fails; the approval answers `NO_AUTHORITATIVE_RENT_SCHEDULE_ROWS`
  (`lease-approval-workflow.ts:70`), but stands.  `ScheduleKept` names this as the one way,
  besides a failure between the two statements, in which a reported schedule goes.
- A request that finds the lease approved by somebody else adds critical dates and
  obligations from its own reviews.
- Two requests that publish at the same time make two rule sets, of which one
  stays empty.

**Imports.**
- `triggerComputePipeline` looks at `ok` in what `setStatus` returns
  (`compute-orchestrator.ts:399-402`), and `setStatus` returns only `error`.  Every stored
  file therefore ends as `failed` and no compute job runs, against "If ALL jobs
  succeed → status = completed" (`:374`).  A retry after that inserts the rows of
  modules that have no unique key again.
- `setStatus` looks at the status in one statement and writes in another, so two
  functions break the table of transitions ("prevents accidental status
  regression", `pipeline-status.ts:51`).
- A save between the two writes of an approval leaves its draft rows to be stored,
  and a rejection may land between them; a save drops `store_result`.
- A call that dies leaves the file in its status until a forced retry.  A
  confirmation whose import call is lost answers `already_confirmed` from then on.

**CAM inputs.**
- Two assignments of one input to two pools, in two transactions, together assign
  more than its amount: the trigger that "prevents double recovery" adds up what
  is committed (`20269900000016:94-114`).  An input assigned beyond its amount cannot be
  edited any more.
- A publication that meets an edit leaves the old amount published
  (`StaleSourceShows` says that one can tell); an edit's new version has lost its
  variability; `persist_expense_classification` writes back a row that it read before.
- Rejecting, or marking as not applicable, leaves a published input published, and
  its `approve` passes by the gate of the publication.
- An assignment may land on a version that was superseded or withdrawn meanwhile.

**CAM runs.**
- `stale` is never reset, and submission, approval and posting do not consult it.
  Withdrawal, publication, assignments and the setup mark no run, nor does an edit
  mark a run that is created between its marking and its commit.
- A request that finds the setup not ready on a calculated run answers
  `readiness_failed`; the row stays calculated and may be submitted.  Readiness and
  snapshot are two reads.
- Posting a run with any lease result rolls back: the run is set to posted first, and
  the trigger that keeps posted results from changing then refuses the update of
  its results (`20269900000025:213`; `cam-release-wiring.spec.js:192-205` expects a posted
  run).
- A run may supersede itself, and two runs each other; a preview whose mode is
  `posting_eligible` can be posted.

**Calculation.**
- Gross-up is spread over fixed categories too (`run-cam-engine.ts:386`, against
  `gross-up.ts:1`), and a direct amount is charged once per pool.
- The snapshot has neither history nor base years, so a noncumulative cap passes
  everything, with a warning, and a base year needs its amount in the terms.
- Caps, stops and bases are prorated by segment, and an area that changes within a
  segment is averaged, which `DayByDay` leaves out (`Steady`).

**Reminders.**
- A reminder goes out only if a run happens on its day.  Nothing is generated after
  the due date, so reminders of overdue obligations, which the milestones list, are
  never sent (`obligation-engine.ts:133`).
- An occurrence that is closed between the read and the upsert of a run is opened
  again.
- A lost answer of the provider, a death before the record, and an overlapping
  retry that overwrites `sent` each have the message sent again.

**Budget.**
- A reject or mark_reviewed that read the budget before its approval updates it by
  id, and takes the status of the locked budget back; so does a generation that comes
  to the same totals.  The trigger compares totals, year and scope, not the status,
  against its heading "block financial changes or status regression"
  (`20269900000064:53`).
- A generation that begins after the approval does so as well if its read of the status
  fails: the error is dropped and no budget is taken to exist (`compute-budget/index.ts:652`
  and `:1375`, against "A locked budget cannot be overwritten", `:1373`).  `LockHolds` says
  that nobody who has read the lock can, and that nobody changes the figures.
- A planning request that dies after the upsert leaves new totals with the old line
  items, or with none, and that budget can be approved and locked; two that overlap
  insert the line items of both.  A generation from live rows does not touch
  the line items of an earlier planning set.
- Overlapping generations leave a completed snapshot with other figures than the
  budget's.  A generation whose live rows are the same, with edited amounts, is
  answered with the old snapshot's line items beside its new totals.
- mark_reviewed and reject carry no `expected_updated_at`, and two of the client's
  pages approve without one, whereupon the handler compares with what it has just
  read: what was on the screen is not checked.

## 5. Proofs

`PipelineQueue_proofs` proves for every set of stages, sub-stages and
invocations, every attempt budget and any number of generations:

- `TypeCorrect`: `Spec => []TypeOK`.  The attempt counter stays within the budget
  because only `Claimed` raises it and only a `Claimable` row is claimed.
- `Exclusive`: `Spec => []ClaimExclusive`, through
- `QueueInvHolds`: `Spec => []QueueInv`.  `ClaimExclusive` alone is not inductive: a
  row that a worker holds could be claimable, and the row a reducer is about to
  put back could be held by another worker.  `HeldRows` (a held row is not
  claimable: running and fresh, or written over with a final status),
  `RequeueTargets` (nobody holds the row a reducer is about to requeue, and nobody
  can claim it) and `RowExistence` (rows of later generations do not exist yet)
  close the gap.  That a held row does not go stale is the guard of `GoStale`, the
  one assumption about time: the longest call of an invocation (145 s) is far
  below ten minutes.
- `SupersededOut`: `Spec => []SupersededIsRetired`, which follows from `QueueInv`.
- `NoRevival`: `Spec => RetiredForever`, an action property, from the same invariant.

The step proofs group the actions by what they do to the table: callers
(`CallersKeepInv`), a row released by its worker (`ReleaseStep`), a claim
(`ClaimStep`), a requeue of a sub-stage (`RequeueMissingStep`).  The constants are
assumed to be what `BoundAssumption` and the assumptions of `PipelineJobs` say; TLC
evaluates these in every run.

`LeaseApproval_proofs` proves for any keys, requests, calls, re-runs and reviews,
with and without failures, and without the bounds of the runs:

- `TypeCorrect`: `Spec => []TypeOK`.
- `ApprovalInvHolds`: `Spec => []ApprovalInv`, the conjunction of the invariants of the
  run, `ColumnsAgree` and two that make it inductive.  `AnswerMatchesHistory` needs
  `ColumnsAgree` (an approved lease has a version, so `already_approved` names one);
  `RentAuthoritative` needs both and `HeldVersions` (a call that has read the lease
  holds a version that exists, and the history only grows); `DerivedFromAnswers`
  needs `RequestsAnswered` (a request past the transaction has an answer, and the
  rule set it found exists).
- `OneVersionPerKey`, `ColumnsAlwaysAgree`, `RentIsAuthoritative`, `ScheduleIsKept`,
  `DerivedAfterCommit` follow from it.
- `AnswersAreKept`: `Spec => AnswerKept` and `Locking`: `Spec => ApprovedIsLocked`, action
  properties.

Who writes what is settled first (`LeaseStepFrame` to `RequestFrame`, `HistoryWriters`),
so that a step lemma looks only at the actions that can disturb it.  The one
assumption is `RequestAssumption`: a request has a key and a key has reviews.

`Budget_proofs` proves for any requests, planning sets, writes and edits:

- `TypeCorrect`: `Spec => []TypeOK`.
- `ApprovalsSignWhatWasSeen`: `Spec => []SignedAsSeen`.  That equal stamps mean equal
  figures is not inductive by itself: `ReadsStamped` adds that no request has read
  a stamp above the row's, and that one with the row's stamp holds its figures.
- `LocksHold`: `Spec => LockHolds`.  The figures are the trigger's doing; that only a
  request that does not know of the lock takes the status back needs `LockInv`: whoever may
  still write draft or reviewed over a locked row has read an older one, or none
  (`MoversUnaware`), and a locked row has been written (`LocksWritten`).  With `ReadsStamped`
  whoever read the row as it is knows its status.
- `UndisturbedPlansAgree`: `Spec => []PlanAgrees`, from `PlanInv`: what an undisturbed
  request has established of totals, line items and snapshot at each of its positions
  (`Undisturbed`), and that a completed snapshot with the fingerprint of a planning set
  has its figures (`PlansFrozen`), since such a set is frozen.

The lemma `Steps` sorts every step by what it writes, so that each of these looks at
the writers only.  The one assumption is `BudgetAssumption`: the live rows are not a
planning set, neither is the mark of a lock or of a missing snapshot, and the
bounds are numbers.

`EnrichChain_proofs` proves for any chain, sub-stages and needs, any numbers of workers
and handlers, any attempt budget, any number of generations and under all faults:

- `TypeCorrect`: `Spec => []TypeOK`, through `ChainInv`, which adds what a worker or a
  handler remembers at its position (`Fits`, `Handles`), that a caller waits for one handler
  (`Callers`) and that rows of later generations do not exist (`RowsTyped`).
- `ImplementsQueue`: `Spec => UsesQueue`.  Each step lemma shows that the step keeps
  `ChainInv` and is a step of the queue under the view of `QueueView`, or none.
- `OneWorkerPerStage` and `NoRevivalInChain`: the theorems of `PipelineQueue_proofs`, carried
  over by `QP == INSTANCE PipelineQueue_proofs` and `ImplementsQueue`.
- `VerdictsAreCurrent`: `Spec => VerdictIsCurrent`.

Under `OneGeneration` (one extraction, nobody cancels, and no call is given up while its
handler runs on; workers and handlers may die, be killed or fail, and reads may fail) and for
any chain, workers, handlers and attempts it proves `AssembledWhenReady`
(`Spec => []ReadyMeansAssembled`), `ResultsStay` (`Spec => ResultsKept`) and `PublishedStays`
(`Spec => PublishedStands`).  The hypotheses are met by the run `chain`, and the code does not
keep the properties without them: section 4 tells what an orphaned handler, a
cancel of a failed final row and a worker of an older generation do.  Their
invariant is `OneInv`:
  - `InOrder`: a stage begins when all before it have their results, and a completed
    row has its result.  Hence at most one stage at a time lacks its result (`OneHole`),
    and whoever writes the output back writes no older one over a newer one.
  - `Handled`: one handler at a time works on a stage, for the worker that holds the
    row or for one that died, and what it has read is the output as it is.  This rests
    on `OneWorkerPerStage` (`Exclusive`) and on the guard of `GoStale`: the row of a dead
    worker is not reclaimed before its handler is gone.
  - `ExtractionOnce`, `Spared`: the extraction drafts once, nothing is cancelled.
  - `Knows`: what a worker knows, by its position, of its row, of the result of its
    stage and of the file it has read.
  - `Published`, `Settled`, `Polled`: the payload is enriched exactly when the final stage
    has its result; once the verdict is there, nobody is left who would give another;
    a poll knows no more than the file tells.

`ChainAssumption` says that the stages of the chain are different, that the extraction is
none of them, and that a stage needs results of earlier ones only
(`normalize-pdf-output/index.ts:3071-3146`).  That the poll finds the first stage without a
result is the existence of a least number, from the well-foundedness of the naturals.

`FileImport_proofs` proves for any number of requests, any kinds of files and all faults:

- `TypeCorrect`; `SomethingToInsert` is what it needs besides: rows about to be inserted are there.
- `KeepsDocument`: `Spec => []DocumentKept`, with `RemovesOrphans`: who is about to remove the
  document has seen the row go, and no row comes back.
- `OnlyOnce`: `Spec => []ImportedOnce`, since for expenses the insertion itself refuses what
  is there; the two checks before it are not needed.
- `RetryWorks`: `Spec => RetryRepairs`, through `Achieved`: what an undisturbed forced
  retry has established of the row at each of its places.  It needs `Unreviewed`: of a
  file that needs no review there is nothing that a reviewer did.

`CamInputs_proofs` proves for any number of transactions, keys, amounts and pools:

- `TypeCorrect`, and `OneCurrent`: `Spec => []OneChain`.  It is inductive with `OneEditor` (one
  transaction at a time holds the lock of the expense) and `EditsLive` (the version
  that an edit has locked stays published until it commits).
- `StaysPulledBack`: `Spec => PulledBackStays`.
- `StaleShown`: `Spec => []StaleSourceShows`.  Times are what it is about: an open transaction
  has a time of its own that no row carries yet (`OwnTimes`, `Unstamped`, `NoFuture`), so that
  an expense that still has the stamp a publication has read has the amount, too
  (`SeenTruly`).

`Cam_proofs` proves of `CamRun`, for any runs, requests and edits:

- `TypeCorrect`.
- `LedgerKept`: `Spec => KeepsLedger`, that `CamRun` implements `CamLedger`: every step changes at
  most one row, in one of the ways of `RowStep`, and each of these is a step of the ledger or
  none.  `CleanResults` (who is past the calculation has results that nothing
  blocks) is the invariant it needs, for the submission and the resolution.
- `StaleShows`: `Spec => []StaleShowsEdits`, with `MarkingCovers` (a run that an open edit has
  not marked was created after its marking), `CallsTold` and `ResultsTold` (the flag or
  the birth of a run tells of every edit that what was read or persisted lacks).

`RunAssumption` says that the number of edits is bounded and `"none"` is no run.

Of `CamEngine` it proves every property of the run `cam_engine`, for any leases, pools,
expenses, days, months, ratio of units and well-formed inputs:

- `EngineTypes`: `EngineSpec => []EngineTypeOK`.  Amounts are numbers, and none before or after
  rounding is negative unless a term, a target or a posted year is (`NoneNegative`).
  That takes the whole of pass 2, from the prorated costs over gross-up, base, stop and
  cap to the fee, and that the units which the rounding boundary gives away are enough.
- `LedgerAmounts`: `EngineSpec => []RoundedTies`.  The units left over are fewer than the
  leases, and the strict order by remainder and lease gives each lease a place of its
  own, so that as many leases get one as there are units.
- `ReadyIsComplete`: `EngineSpec => []ReadyMeansComplete`, with `ExceptionsKept`: what a pool or
  a lease lacks is among the exceptions from its pass on, whatever is assembled or charged
  later (`Kept`).  From segments to days: nothing begins or ends within a segment, so that
  what holds on one of its days holds on all.
- `OwedInvariance`: `EngineSpec => []OwingInv`: what a lease owes a pool is what its policies
  recover there in the segments (`Owing`), however pools and leases are ordered.
- `YearlyAmounts`: `EngineSpec => []YearlyTerms`, from it: a year's share of each segment adds up to
  its share of the days, but for half a unit for each segment.
- `DailyAmounts`: `EngineSpec => []DayByDay`, from it as well.  A sum over days and policies is
  split into the places (a policy in a segment) of `PlacesOf` (`DaysOfPlaces`); in a place each
  cost is prorated by the days it has there, which is the sum of these days up to half a
  unit (`CostsOfPlace`, an exchange of two sums, `SumSwap`); the share is the same on
  each of them, since areas do not change (`PlaceNear`); and no cost is shared by two policies
  of a lease in one segment (`CostsOfPlaces`), which bounds the number of roundings.

The invariant is `EngineInv`: the segments are those of the input, raw amounts are functions
on leases, and a pool is rounded once, from amounts that no longer change.  Amounts
are sums over finite sets.  That a sum exists, what one more element adds to
it, and how sums are compared, split and exchanged is proved by induction over the
size of a set (`SetInduct`), with a function from its subsets to BOOLEAN where the
library has an operator as a parameter.  The proof of `DailyAmounts` corrected its
property twice: the bound had counted one share for each segment, where there may be one for each
category of costs, and shares above the whole or a `Scale` that does not fit had not been
excluded.  `CalcAssumption`, `LeaseAssumption` and `InputsAssumption` (every input is
`WellFormed`) are what it rests on.

`Reminders_proofs` proves for any obligations, recipients, channels that reach them,
milestones and runs:

- `TypeCorrect`.  That a message is taken at most once per start of a run, which is part
  of the type (the bound of the counter), is the longest argument: a run that may still
  send a message has its start to pay for it (`SentByStarts`).
- `ClosedStaysQuiet`: `Spec => ClosedIsQuiet`, since a run works on what was not closed when it
  began or was opened again since (`AskedFor`).
- `RecordsHold`: `Spec => RecordedOnce`, since what a run that is alone has read of a delivery is
  still so (`Solo`, `SeesAlone`).
- `CleanRunWorks`: `Spec => CleanRunRepairs`: each obligation of the day is among the rows to be
  saved, on the list, in hand or done (`SeenTo`), and so is each recipient of the one in
  hand (`ToldInTurn`).

What stays with TLC:

- `ChainSettles`: liveness under fairness.
- Everything about two generations beyond the queue and `VerdictIsCurrent`: there the
  code keeps less, and what it does is told in section 4.
