------------------------ MODULE PipelineQueue_proofs ------------------------
(***************************************************************************)
(* Proofs about PipelineQueue, for every set of stages, sub-stages and     *)
(* invocations, every attempt budget and every number of generations.      *)
(***************************************************************************)
EXTENDS PipelineQueue, TLAPS

-----------------------------------------------------------------------------
(* Rows *)

\* The statements on a row keep its type.
LEMMA RowTypes ==
    /\ NoRow \in Row
    /\ NewRow \in Row
    /\ \A r \in Row, s \in JobStatus : WithStatus(r, s) \in Row
    /\ \A r \in Row : Retire(r) \in Row
    /\ \A r \in Row : Claimable(r) => Claimed(r) \in Row
<1> USE BoundAssumption DEF Row, JobStatus, TerminalStatus
<1>1. NoRow \in Row
  BY DEF NoRow
<1>2. NewRow \in Row
  BY <1>1 DEF NewRow, NoRow
<1>3. \A r \in Row, s \in JobStatus : WithStatus(r, s) \in Row
  BY DEF WithStatus
<1>4. \A r \in Row : Retire(r) \in Row
  BY <1>3 DEF Retire, WithStatus
<1>5. ASSUME NEW r \in Row, Claimable(r) PROVE Claimed(r) \in Row
  <2>1. r.attempt \in 0 .. MaxAttempts /\ r.attempt < MaxAttempts
    BY <1>5 DEF Claimable
  <2>2. r.attempt + 1 \in 0 .. MaxAttempts
    BY <2>1
  <2>3. WithStatus(r, "running") \in Row /\ WithStatus(r, "running").attempt = r.attempt
    BY <1>3 DEF WithStatus
  <2> QED
    BY <2>2, <2>3 DEF Claimed
<1> QED
  BY <1>1, <1>2, <1>3, <1>4, <1>5

\* An unconditional update by id keeps the type of the table.
LEMMA WriteType ==
    ASSUME row \in [Job -> Row], NEW j \in Job, NEW s \in JobStatus, Write(j, s)
    PROVE  row' \in [Job -> Row]
  BY RowTypes DEF Write

\* So does the end of an invocation for the table of invocations.
LEMMA ReturnType ==
    ASSUME inv \in [Invocation -> Invocations], NEW i \in Invocation, Return(i)
    PROVE  inv' \in [Invocation -> Invocations]
  BY DEF Return, Idle, Invocations, Pc

-----------------------------------------------------------------------------
(* Type correctness *)

\* Initially no row exists and every invocation is idle.
LEMMA InitType == Init => TypeOK
  BY BoundAssumption, RowTypes DEF Init, TypeOK, Idle, Invocations, Pc

\* A job is a pair of a generation and a stage; NoJob is none.
LEMMA JobFacts ==
    /\ NoJob \notin Job
    /\ \A j \in Job : j = <<GenOf(j), StageOf(j)>> /\ GenOf(j) \in Gen /\ StageOf(j) \in Stage
    /\ \A g \in Gen, s \in Stage : /\ <<g, s>> \in Job
                                   /\ GenOf(<<g, s>>) = g
                                   /\ StageOf(<<g, s>>) = s
  BY BoundAssumption DEF NoJob, Job, Gen, GenOf, StageOf

\* Every statement keeps rows, generation and snapshots well typed.
LEMMA NextType == TypeOK /\ [Next]_vars => TypeOK'
<1> SUFFICES ASSUME TypeOK, [Next]_vars PROVE TypeOK'
  OBVIOUS
<1> USE BoundAssumption, StageAssumption DEF TypeOK
<1>j. /\ \A i \in Invocation : inv[i] \in Invocations
      /\ \A i \in Invocation : inv[i].pc # "idle" => inv[i].job \in Job
  BY DEF Invocations
<1>s. TerminalStatus \subseteq JobStatus /\ {"queued", "running"} \subseteq JobStatus
  BY DEF JobStatus, TerminalStatus
<1>1. CASE StartGeneration
  BY <1>1, RowTypes DEF StartGeneration
<1>2. ASSUME NEW s \in Stage \ {ExtractStage}, Enqueue(s) PROVE TypeOK'
  <2>1. <<activeGen, s>> \in Job
    BY <1>2, JobFacts DEF Enqueue, Gen
  <2> QED
    BY <1>2, <2>1, RowTypes DEF Enqueue, Enqueued
<1>3. CASE RequestCancel
  <2>1. \A r \in Row : [r EXCEPT !.cancel = TRUE] \in Row
    BY DEF Row
  <2> QED
    BY <1>3, <2>1 DEF RequestCancel
<1>4. ASSUME NEW i \in Invocation, NEW j \in Job, Load(i, j) PROVE TypeOK'
  <2>1. inv' \in [Invocation -> Invocations] /\ inv'[i].job = j /\ inv'[i].pc # "requeuing"
    BY <1>4, <1>j DEF Load, Invocations, Pc
  <2>2. \A k \in Invocation \ {i} : inv'[k] = inv[k]
    BY <1>4 DEF Load
  <2> QED
    BY <1>4, <2>1, <2>2 DEF Load
<1>5. ASSUME NEW i \in Invocation, NEW s \in JobStatus, inv[i].pc # "idle",
             Write(inv[i].job, s), Return(i), UNCHANGED activeGen
      PROVE  TypeOK'
  <2>1. row' \in [Job -> Row]
    BY <1>5, <1>j, WriteType
  <2>2. inv' \in [Invocation -> Invocations] /\ inv'[i].pc = "idle"
    BY <1>5, ReturnType DEF Return, Idle
  <2>3. \A k \in Invocation \ {i} : inv'[k] = inv[k]
    BY <1>5 DEF Return
  <2> QED
    BY <1>5, <2>1, <2>2, <2>3
<1>6. ASSUME NEW i \in Invocation, Claim(i) PROVE TypeOK'
  <2>1. CASE Claimable(row[inv[i].job])
    <3>1. inv[i].job \in Job /\ Claimed(row[inv[i].job]) \in Row
      BY <1>6, <1>j, <2>1, RowTypes DEF Claim
    <3>2. row' \in [Job -> Row]
      BY <1>6, <2>1, <3>1 DEF Claim
    <3>3. inv' \in [Invocation -> Invocations] /\ inv'[i].pc = "working" /\ inv'[i].job = inv[i].job
      BY <1>6, <2>1, <1>j DEF Claim, Invocations, Pc
    <3>4. \A k \in Invocation \ {i} : inv'[k] = inv[k]
      BY <1>6, <2>1 DEF Claim
    <3> QED
      BY <1>6, <3>1, <3>2, <3>3, <3>4 DEF Claim
  <2>2. CASE ~Claimable(row[inv[i].job])
    BY <1>6, <2>2, ReturnType DEF Claim, Return, Idle
  <2> QED
    BY <2>1, <2>2
<1>7. ASSUME NEW i \in Invocation, AdvanceToNormalize(i) PROVE TypeOK'
  BY <1>7, <1>j, <1>s, WriteType DEF AdvanceToNormalize
<1>8. ASSUME NEW i \in Invocation, NEW delay \in BOOLEAN, Requeue(i, delay) PROVE TypeOK'
  <2>1. \A r \in Row : [WithStatus(r, "queued") EXCEPT !.delayed = delay] \in Row
    BY RowTypes, <1>s DEF Row
  <2>2. row' \in [Job -> Row]
    BY <1>8, <1>j, <2>1 DEF Requeue
  <2>3. inv' \in [Invocation -> Invocations] /\ inv'[i].pc = "idle"
    BY <1>8, ReturnType DEF Requeue, Return, Idle
  <2>4. \A k \in Invocation \ {i} : inv'[k] = inv[k]
    BY <1>8 DEF Requeue, Return
  <2> QED
    BY <1>8, <2>2, <2>3, <2>4 DEF Requeue
<1>9. ASSUME NEW i \in Invocation, NEW s \in Substage, RequeueMissingRead(i, s) PROVE TypeOK'
  <2>1. <<GenOf(inv[i].job), s>> \in Job
    BY <1>9, <1>j, JobFacts DEF RequeueMissingRead
  <2>2. /\ inv' \in [Invocation -> Invocations]
        /\ inv'[i].job = inv[i].job
        /\ inv'[i].target = <<GenOf(inv[i].job), s>>
    BY <1>9, <1>j, <2>1 DEF RequeueMissingRead, Invocations, Pc
  <2>3. \A k \in Invocation \ {i} : inv'[k] = inv[k]
    BY <1>9 DEF RequeueMissingRead
  <2> QED
    BY <1>9, <1>j, <2>1, <2>2, <2>3 DEF RequeueMissingRead
<1>10. ASSUME NEW i \in Invocation, RequeueMissingWrite(i) PROVE TypeOK'
  <2>1. row' \in [Job -> Row]
    BY <1>10, <1>s, WriteType DEF RequeueMissingWrite
  <2>2. inv' \in [Invocation -> Invocations] /\ inv'[i].job = inv[i].job /\ inv'[i].pc = "working"
    BY <1>10, <1>j DEF RequeueMissingWrite, Invocations, Pc
  <2>3. \A k \in Invocation \ {i} : inv'[k] = inv[k]
    BY <1>10 DEF RequeueMissingWrite
  <2> QED
    BY <1>10, <1>j, <2>1, <2>2, <2>3 DEF RequeueMissingWrite
<1>11. ASSUME NEW i \in Invocation, Die(i) PROVE TypeOK'
  BY <1>11, ReturnType DEF Die, Return, Idle
<1>12. ASSUME NEW j \in Job, DelayElapses(j) \/ GoStale(j) PROVE TypeOK'
  <2>1. \A r \in Row : [r EXCEPT !.delayed = FALSE] \in Row /\ [r EXCEPT !.stale = TRUE] \in Row
    BY DEF Row
  <2>2. CASE DelayElapses(j)
    BY <2>1, <2>2 DEF DelayElapses
  <2>3. CASE GoStale(j)
    BY <2>1, <2>3 DEF GoStale
  <2> QED
    BY <1>12, <2>2, <2>3
<1>13. CASE UNCHANGED vars
  BY <1>13 DEF vars
<1>14. ASSUME NEW i \in Invocation, WorkerStep(i) PROVE TypeOK'
  <2>1. CASE FailExhausted(i) \/ FailUnreadable(i) \/ StopBeforeClaim(i)
    BY <1>5, <1>s, <2>1 DEF FailExhausted, FailUnreadable, StopBeforeClaim, TerminalStatus
  <2>2. CASE \E s \in TerminalStatus : Finish(i, s)
    BY <1>5, <1>s, <2>2 DEF Finish
  <2> QED
    BY <1>14, <2>1, <2>2, <1>4, <1>6, <1>7, <1>8, <1>9, <1>10, <1>11 DEF WorkerStep
<1> QED
  BY <1>1, <1>2, <1>3, <1>12, <1>13, <1>14 DEF Next

\* TypeOK holds in every reachable state; in particular no row is ever
\* claimed more than max_attempts times (claim_pipeline_job).
THEOREM TypeCorrect == Spec => []TypeOK
<1>1. Init => TypeOK
  BY InitType
<1>2. TypeOK /\ [Next]_vars => TypeOK'
  BY NextType
<1> QED
  BY <1>1, <1>2, PTL DEF Spec

-----------------------------------------------------------------------------
(* Mutual exclusion of workers *)

\* What the induction on QueueInv uses of the current state.
LEMMA HeldFacts ==
    ASSUME QueueInv
    PROVE  /\ \A i \in Invocation, j \in Job : Holds(i, j) =>
                 row[j].status \in {"running", "failed", "cancelled"} /\ ~row[j].stale
           /\ \A j \in Job : Claimable(row[j]) =>
                 /\ ~Held(j)
                 /\ \A i \in Invocation : inv[i].pc = "requeuing" => inv[i].target # j
           /\ \A j \in Job : row[j].status \in {"absent", "queued", "completed", "superseded"} => ~Held(j)
  BY DEF QueueInv, HeldRows, RequeueTargets, Holds, Held, Claimable

\* Statements of callers and the clock: no invocation moves, held rows keep
\* their status, and so do rows a reducer may be about to requeue.
LEMMA CallerStep ==
    ASSUME QueueInv, TypeOK', RowExistence', inv' = inv,
           \A j \in Job : Held(j) =>
               row'[j].status = row[j].status /\ (row'[j].stale => row[j].stale),
           \A j \in Job : row[j].status \in {"completed", "failed", "cancelled"} =>
               row'[j].status = row[j].status
    PROVE  QueueInv'
<1> USE DEF QueueInv
<1>1. ClaimExclusive'
  BY DEF ClaimExclusive, Holds
<1>2. HeldRows'
  <2> SUFFICES ASSUME NEW i \in Invocation, inv[i].pc \in Holding
               PROVE  /\ row'[inv[i].job].status \in {"running", "failed", "cancelled"}
                      /\ ~row'[inv[i].job].stale
    BY DEF HeldRows
  <2>1. inv[i].job \in Job /\ Held(inv[i].job)
    BY DEF TypeOK, Held, Holds, Holding
  <2> QED
    BY <2>1 DEF HeldRows
<1>3. RequeueTargets'
  BY DEF RequeueTargets, TypeOK, Held, Holds
<1> QED
  BY <1>1, <1>2, <1>3

\* A statement after which invocation i no longer holds its row: whatever it
\* leaves there, all other rows are as before.
LEMMA ReleaseStep ==
    ASSUME QueueInv, TypeOK', NEW i \in Invocation, NEW j \in Job, inv[i].job = j,
           inv[i].pc # "idle", Return(i), UNCHANGED activeGen,
           \A k \in Job \ {j} : row'[k] = row[k], row'[j].status # "absent",
           \/ inv[i].pc \in Holding
           \/ row'[j].status \in {"failed", "cancelled"} /\ ~row'[j].stale
           \/ row'[j] = row[j]
    PROVE  QueueInv'
<1> USE DEF QueueInv
<1>1. /\ inv'[i] = Idle
      /\ \A k \in Invocation \ {i} : inv'[k] = inv[k]
  BY DEF Return, TypeOK
<1>2. \A k \in Invocation, l \in Job : Holds(k, l)' => k # i /\ Holds(k, l)
  BY <1>1 DEF Holds, Holding, Idle
<1>3. ClaimExclusive'
  BY <1>2 DEF ClaimExclusive
<1>4. HeldRows'
  <2> SUFFICES ASSUME NEW k \in Invocation, inv'[k].pc \in Holding
               PROVE  /\ row'[inv'[k].job].status \in {"running", "failed", "cancelled"}
                      /\ ~row'[inv'[k].job].stale
    BY DEF HeldRows
  <2>1. k # i /\ inv'[k] = inv[k]
    BY <1>1 DEF Idle, Holding
  <2>2. inv[k].job \in Job
    BY <2>1 DEF TypeOK, Holding
  <2>3. inv[k].job = j => inv[i].pc \notin Holding
    BY <2>1 DEF ClaimExclusive, Holds
  <2> QED
    BY <2>1, <2>2, <2>3 DEF HeldRows
<1>5. RequeueTargets'
  <2> SUFFICES ASSUME NEW k \in Invocation, inv'[k].pc = "requeuing"
               PROVE  /\ StageOf(inv'[k].job) = Reducer
                      /\ StageOf(inv'[k].target) # Reducer
                      /\ GenOf(inv'[k].target) = GenOf(inv'[k].job)
                      /\ row'[inv'[k].target].status \in {"completed", "failed", "cancelled"}
                      /\ (~Held(inv[k].target))'
    BY DEF RequeueTargets
  <2>1. k # i /\ inv'[k] = inv[k]
    BY <1>1 DEF Idle
  <2>2. inv[k].target \in Job /\ ~Held(inv[k].target)
    BY <2>1 DEF TypeOK, RequeueTargets
  <2>3. (~Held(inv[k].target))'
    BY <1>2, <2>1, <2>2 DEF Held
  <2>4. inv[k].target = j => inv[i].pc \notin Holding
    BY <2>2 DEF Held, Holds
  <2> QED
    BY <2>1, <2>2, <2>3, <2>4 DEF RequeueTargets
<1>6. RowExistence'
  <2>1. \A k \in Invocation : inv'[k].pc # "idle" => inv'[k] = inv[k]
    BY <1>1 DEF Idle
  <2> QED
    BY <2>1 DEF RowExistence, TypeOK
<1> QED
  BY <1>3, <1>4, <1>5, <1>6

\* A worker takes a row that nobody holds and no reducer is about to requeue.
LEMMA ClaimStep ==
    ASSUME QueueInv, TypeOK', NEW i \in Invocation, Claim(i)
    PROVE  QueueInv'
<1> USE DEF QueueInv
<1> DEFINE j == inv[i].job
<1>1. inv[i].pc = "claiming" /\ j \in Job /\ UNCHANGED activeGen /\ row[j].status # "absent"
  BY DEF Claim, TypeOK, RowExistence
<1>2. CASE ~Claimable(row[j])
  <2>1. row' = row /\ Return(i)
    BY <1>2 DEF Claim
  <2> QED
    BY <1>1, <2>1, ReleaseStep
<1>3. CASE Claimable(row[j])
  <2>1. /\ \A k \in Job \ {j} : row'[k] = row[k]
        /\ row'[j] = Claimed(row[j])
        /\ inv'[i].job = j /\ inv'[i].pc = "working"
        /\ \A k \in Invocation \ {i} : inv'[k] = inv[k]
    BY <1>1, <1>3 DEF Claim, TypeOK, Invocations
  <2>2. row'[j].status = "running" /\ ~row'[j].stale
    BY <1>1, <2>1 DEF Claimed, WithStatus, TypeOK, Row
  <2>3. /\ ~Held(j)
        /\ \A k \in Invocation : inv[k].pc = "requeuing" => inv[k].target # j
    BY <1>1, <1>3, HeldFacts
  <2>4. ClaimExclusive'
    BY <1>1, <2>1, <2>3 DEF ClaimExclusive, Held, Holds
  <2>5. HeldRows'
    BY <1>1, <2>1, <2>2, <2>3 DEF HeldRows, Held, Holds, TypeOK, Holding
  <2>6. RequeueTargets'
    <3> SUFFICES ASSUME NEW k \in Invocation, inv'[k].pc = "requeuing"
                 PROVE  /\ StageOf(inv'[k].job) = Reducer
                        /\ StageOf(inv'[k].target) # Reducer
                        /\ GenOf(inv'[k].target) = GenOf(inv'[k].job)
                        /\ row'[inv'[k].target].status \in {"completed", "failed", "cancelled"}
                        /\ (~Held(inv[k].target))'
      BY DEF RequeueTargets
    <3>1. k # i /\ inv'[k] = inv[k] /\ inv[k].target # j /\ inv[k].target \in Job
      BY <2>1, <2>3 DEF TypeOK
    <3>2. (~Held(inv[k].target))'
      BY <2>1, <3>1 DEF Held, Holds, RequeueTargets
    <3> QED
      BY <2>1, <3>1, <3>2 DEF RequeueTargets
  <2>7. RowExistence'
    BY <1>1, <2>1, <2>2 DEF RowExistence, TypeOK
  <2> QED
    BY <2>4, <2>5, <2>6, <2>7
<1> QED
  BY <1>2, <1>3

\* The two statements with which a reducer puts a completed sub-stage back:
\* only one worker holds the reducer of a generation, so only one requeues.
LEMMA RequeueMissingStep ==
    ASSUME QueueInv, TypeOK', NEW i \in Invocation,
           (\E s \in Substage : RequeueMissingRead(i, s)) \/ RequeueMissingWrite(i)
    PROVE  QueueInv'
<1> USE DEF QueueInv
<1>0. /\ \A k \in Invocation : inv[k] \in Invocations
      /\ \A k \in Invocation : inv[k].pc # "idle" => inv[k].job \in Job
      /\ \A k \in Invocation : inv[k].pc = "requeuing" => inv[k].target \in Job
  BY DEF TypeOK
<1>1. ASSUME NEW s \in Substage, RequeueMissingRead(i, s) PROVE QueueInv'
  <2> DEFINE t == <<GenOf(inv[i].job), s>>
  <2>1. t \in Job /\ GenOf(t) = GenOf(inv[i].job) /\ StageOf(t) # Reducer
    BY <1>0, <1>1, StageAssumption, JobFacts DEF RequeueMissingRead
  <2>2. /\ inv'[i].pc = "requeuing" /\ inv'[i].job = inv[i].job /\ inv'[i].target = t
        /\ \A k \in Invocation \ {i} : inv'[k] = inv[k]
        /\ UNCHANGED <<row, activeGen>>
    BY <1>0, <1>1 DEF RequeueMissingRead, TypeOK, Invocations
  <2>3. inv[i].pc = "working" /\ StageOf(inv[i].job) = Reducer /\ row[t].status = "completed"
    BY <1>1 DEF RequeueMissingRead
  <2>4. \A k \in Invocation, l \in Job : Holds(k, l)' <=> Holds(k, l)
    BY <2>2, <2>3 DEF Holds, Holding
  <2>5. ClaimExclusive'
    BY <2>4 DEF ClaimExclusive
  <2>6. HeldRows'
    BY <2>2, <2>3 DEF HeldRows, Holding
  <2>7. \A l \in Job : Held(l)' <=> Held(l)
    BY <2>4 DEF Held
  <2>8. RequeueTargets'
    <3>1. ~Held(t)' /\ row'[t].status = "completed"
      BY <2>1, <2>2, <2>3, <2>7, HeldFacts
    <3>2. \A k \in Invocation \ {i} : inv[k].pc = "requeuing" => ~Held(inv[k].target)'
      BY <1>0, <2>2, <2>7 DEF RequeueTargets
    <3> QED
      BY <2>1, <2>2, <2>3, <3>1, <3>2 DEF RequeueTargets
  <2>9. RowExistence'
    BY <2>2, <2>3 DEF RowExistence
  <2> QED
    BY <2>5, <2>6, <2>8, <2>9
<1>2. CASE RequeueMissingWrite(i)
  <2> DEFINE t == inv[i].target
  <2>1. /\ inv[i].pc = "requeuing" /\ t \in Job
        /\ inv'[i].pc = "working" /\ inv'[i].job = inv[i].job
        /\ \A k \in Invocation \ {i} : inv'[k] = inv[k]
        /\ \A l \in Job \ {t} : row'[l] = row[l]
        /\ UNCHANGED activeGen
    BY <1>0, <1>2 DEF RequeueMissingWrite, Write, TypeOK, Invocations
  <2>2. row'[t].status = "queued"
    BY <1>2, <2>1 DEF RequeueMissingWrite, Write, WithStatus, TypeOK, Row
  <2>3. \A k \in Invocation, l \in Job : Holds(k, l)' <=> Holds(k, l)
    BY <2>1 DEF Holds, Holding
  <2>4. ~Held(t) /\ row[t].status # "absent"
    BY <2>1 DEF RequeueTargets
  <2>5. ClaimExclusive'
    BY <2>3 DEF ClaimExclusive
  <2>6. HeldRows'
    BY <1>0, <2>1, <2>4 DEF HeldRows, Holding, Held, Holds
  <2>7. \A k \in Invocation \ {i} : inv[k].pc = "requeuing" => inv[k].target # t
    <3> SUFFICES ASSUME NEW k \in Invocation \ {i}, inv[k].pc = "requeuing", inv[k].target = t
                 PROVE  FALSE
      OBVIOUS
    <3>1. inv[k].job = inv[i].job
      BY <1>0, <2>1, JobFacts DEF RequeueTargets
    <3> QED
      BY <1>0, <2>1, <3>1 DEF ClaimExclusive, Holds, Holding
  <2>8. RequeueTargets'
    <3>1. \A l \in Job : Held(l)' <=> Held(l)
      BY <2>3 DEF Held
    <3>2. \A k \in Invocation \ {i} : inv[k].pc = "requeuing" => ~Held(inv[k].target)'
      BY <1>0, <2>1, <3>1 DEF RequeueTargets
    <3> QED
      BY <1>0, <2>1, <2>7, <3>2 DEF RequeueTargets
  <2>9. RowExistence'
    BY <1>0, <2>1, <2>2, <2>4 DEF RowExistence
  <2> QED
    BY <2>5, <2>6, <2>8, <2>9
<1> QED
  BY <1>1, <1>2

\* Callers and the clock keep QueueInv.
LEMMA CallersKeepInv ==
    ASSUME QueueInv, TypeOK',
           \/ StartGeneration
           \/ \E s \in Stage \ {ExtractStage} : Enqueue(s)
           \/ RequestCancel
           \/ \E j \in Job : DelayElapses(j) \/ GoStale(j)
    PROVE  QueueInv'
<1>t. TypeOK /\ RowExistence
  BY DEF QueueInv
<1>h. \A j \in Job : Held(j) => row[j].status \in {"running", "failed", "cancelled"} /\ ~row[j].stale
  BY HeldFacts DEF Held
<1>1. CASE StartGeneration
  <2> DEFINE new == <<activeGen + 1, ExtractStage>>
  <2>1. new \in Job /\ GenOf(new) > activeGen /\ row[new].status = "absent"
    BY <1>t, <1>1, JobFacts, StageAssumption, BoundAssumption
       DEF StartGeneration, RowExistence, TypeOK, Gen
  <2>2. /\ row'[new] = NewRow /\ \A j \in Job \ {new} : row'[j] = Retire(row[j])
        /\ activeGen' = activeGen + 1 /\ inv' = inv
    BY <1>1, <2>1 DEF StartGeneration
  <2>3. \A j \in Job \ {new} :
          /\ row[j].status \notin {"queued", "running"} => row'[j] = row[j]
          /\ row[j].status = "running" => row'[j].status = "running" /\ ~row'[j].stale
          /\ row[j].status = "queued" => row'[j].status # "absent"
    BY <1>t, <2>2 DEF Retire, WithStatus, TypeOK, Row
  <2>4. RowExistence'
    <3>1. \A j \in Job : GenOf(j) > activeGen + 1 => j # new /\ GenOf(j) > activeGen
      BY <1>t, JobFacts, StageAssumption DEF TypeOK, Gen, GenOf
    <3>2. \A j \in Job : GenOf(j) > activeGen' => row'[j].status = "absent"
      BY <1>t, <2>2, <2>3, <3>1 DEF RowExistence
    <3>3. \A j \in Job : row[j].status # "absent" => row'[j].status # "absent"
      BY <1>t, <2>1, <2>3 DEF TypeOK, Row
    <3> QED
      BY <1>t, <2>2, <3>2, <3>3 DEF RowExistence, TypeOK
  <2> QED
    BY <1>h, <2>1, <2>2, <2>3, <2>4, CallerStep
<1>2. ASSUME NEW s \in Stage \ {ExtractStage}, Enqueue(s) PROVE QueueInv'
  <2> DEFINE new == <<activeGen, s>>
  <2>1. new \in Job /\ GenOf(new) = activeGen
    BY <1>t, <1>2, JobFacts DEF Enqueue, Gen, TypeOK
  <2>2. /\ inv' = inv /\ activeGen' = activeGen
        /\ \A j \in Job : row'[j] = row[j] \/ (j = new /\ row[j].status = "absent" /\ row'[j] = NewRow)
    BY <1>t, <1>2, <2>1 DEF Enqueue, Enqueued, TypeOK
  <2>3. RowExistence'
    BY <1>t, <2>1, <2>2 DEF RowExistence, TypeOK, NewRow, NoRow, Gen, Job, GenOf
  <2> QED
    BY <1>h, <2>2, <2>3, CallerStep
<1>3. CASE RequestCancel
  <2>1. /\ inv' = inv /\ activeGen' = activeGen
        /\ \A j \in Job : row'[j].status = row[j].status /\ row'[j].stale = row[j].stale
    BY <1>t, <1>3 DEF RequestCancel, TypeOK, Row
  <2>2. RowExistence'
    BY <1>t, <2>1 DEF RowExistence, TypeOK
  <2> QED
    BY <2>1, <2>2, CallerStep
<1>4. ASSUME NEW j \in Job, DelayElapses(j) PROVE QueueInv'
  <2>1. /\ inv' = inv /\ activeGen' = activeGen
        /\ \A k \in Job : row'[k].status = row[k].status /\ row'[k].stale = row[k].stale
    BY <1>t, <1>4 DEF DelayElapses, TypeOK, Row
  <2>2. RowExistence'
    BY <1>t, <2>1 DEF RowExistence, TypeOK
  <2> QED
    BY <2>1, <2>2, CallerStep
<1>5. ASSUME NEW j \in Job, GoStale(j) PROVE QueueInv'
  <2>1. /\ inv' = inv /\ activeGen' = activeGen /\ ~Held(j)
        /\ \A k \in Job : row'[k].status = row[k].status
        /\ \A k \in Job \ {j} : row'[k].stale = row[k].stale
    BY <1>t, <1>5 DEF GoStale, TypeOK, Row
  <2>2. RowExistence'
    BY <1>t, <2>1 DEF RowExistence, TypeOK
  <2> QED
    BY <2>1, <2>2, CallerStep
<1> QED
  BY <1>1, <1>2, <1>3, <1>4, <1>5

\* A dispatched invocation reads the row: it holds nothing yet.
LEMMA LoadStep ==
    ASSUME QueueInv, TypeOK', NEW i \in Invocation, NEW j \in Job, Load(i, j)
    PROVE  QueueInv'
<1> USE DEF QueueInv
<1>1. /\ inv'[i].pc \in {"exhausted", "stopping", "claiming"} /\ inv'[i].job = j
      /\ \A k \in Invocation \ {i} : inv'[k] = inv[k]
      /\ UNCHANGED <<row, activeGen>> /\ row[j].status # "absent"
  BY DEF Load, TypeOK, Invocations
<1>2. \A k \in Invocation, l \in Job : Holds(k, l)' => Holds(k, l)
  BY <1>1 DEF Holds, Holding
<1>3. ClaimExclusive'
  BY <1>2 DEF ClaimExclusive
<1>4. HeldRows'
  BY <1>1 DEF HeldRows, Holding
<1>5. RequeueTargets'
  <2>1. \A l \in Job : Held(l)' => Held(l)
    BY <1>2 DEF Held
  <2>2. \A k \in Invocation \ {i} : inv[k].pc = "requeuing" => ~Held(inv[k].target)'
    BY <1>1, <2>1 DEF RequeueTargets, TypeOK
  <2> QED
    BY <1>1, <2>2 DEF RequeueTargets
<1>6. RowExistence'
  BY <1>1 DEF RowExistence
<1> QED
  BY <1>3, <1>4, <1>5, <1>6

\* A worker that keeps its row: the parse to normalize hand-over.
LEMMA AdvanceStep ==
    ASSUME QueueInv, TypeOK', NEW i \in Invocation, AdvanceToNormalize(i)
    PROVE  QueueInv'
<1> USE DEF QueueInv
<1> DEFINE j == inv[i].job
<1>1. /\ j \in Job /\ Held(j) /\ inv' = inv /\ activeGen' = activeGen
      /\ \A k \in Job \ {j} : row'[k] = row[k]
      /\ row'[j].status = "running" /\ ~row'[j].stale
  BY DEF AdvanceToNormalize, TypeOK, Write, WithStatus, Row, Held, Holds, Holding
<1>2. ClaimExclusive'
  BY <1>1 DEF ClaimExclusive, Holds
<1>3. HeldRows'
  BY <1>1 DEF HeldRows, TypeOK, Holding
<1>4. RequeueTargets'
  <2>1. \A l \in Job : Held(l)' <=> Held(l)
    BY <1>1 DEF Held, Holds
  <2> QED
    BY <1>1, <2>1 DEF RequeueTargets, TypeOK
<1>5. RowExistence'
  <2>1. row[j].status # "absent"
    BY DEF AdvanceToNormalize, RowExistence
  <2>2. \A k \in Job : row'[k].status = "absent" <=> row[k].status = "absent"
    BY <1>1, <2>1
  <2> QED
    BY <1>1, <2>2 DEF RowExistence, TypeOK
<1> QED
  BY <1>2, <1>3, <1>4, <1>5

\* Every statement of a worker keeps QueueInv.
LEMMA WorkersKeepInv ==
    ASSUME QueueInv, TypeOK', NEW i \in Invocation, WorkerStep(i)
    PROVE  QueueInv'
<1>0. TypeOK /\ RowExistence /\ (inv[i].pc # "idle" => inv[i].job \in Job)
  BY DEF QueueInv, TypeOK
<1>1. CASE FailExhausted(i) \/ FailUnreadable(i) \/ StopBeforeClaim(i)
  <2>1. PICK s \in {"failed", "cancelled"} : Write(inv[i].job, s)
    BY <1>1 DEF FailExhausted, FailUnreadable, StopBeforeClaim
  <2>2. inv[i].pc # "idle" /\ Return(i) /\ UNCHANGED activeGen
    BY <1>1 DEF FailExhausted, FailUnreadable, StopBeforeClaim
  <2>3. /\ row'[inv[i].job].status = s /\ ~row'[inv[i].job].stale
        /\ \A k \in Job \ {inv[i].job} : row'[k] = row[k]
    BY <1>0, <2>1, <2>2 DEF Write, WithStatus, TypeOK, Row
  <2> QED
    BY <1>0, <2>2, <2>3, ReleaseStep
<1>2. ASSUME NEW s \in TerminalStatus, Finish(i, s) PROVE QueueInv'
  <2>1. /\ inv[i].pc = "working" /\ Return(i) /\ UNCHANGED activeGen
        /\ row'[inv[i].job].status = s
        /\ \A k \in Job \ {inv[i].job} : row'[k] = row[k]
    BY <1>0, <1>2 DEF Finish, Write, WithStatus, TypeOK, Row
  <2> QED
    BY <1>0, <2>1, ReleaseStep DEF Holding, TerminalStatus
<1>3. ASSUME NEW delay \in BOOLEAN, Requeue(i, delay) PROVE QueueInv'
  <2>1. /\ inv[i].pc = "working" /\ Return(i) /\ UNCHANGED activeGen
        /\ row'[inv[i].job].status = "queued"
        /\ \A k \in Job \ {inv[i].job} : row'[k] = row[k]
    BY <1>0, <1>3 DEF Requeue, WithStatus, TypeOK, Row
  <2> QED
    BY <1>0, <2>1, ReleaseStep DEF Holding
<1>4. CASE Die(i)
  <2>1. row' = row /\ Return(i) /\ inv[i].pc # "idle" /\ UNCHANGED activeGen
    BY <1>4 DEF Die
  <2> QED
    BY <1>0, <2>1, ReleaseStep DEF RowExistence
<1> QED
  BY <1>1, <1>2, <1>3, <1>4, LoadStep, ClaimStep, AdvanceStep, RequeueMissingStep DEF WorkerStep

\* QueueInv is inductive.
LEMMA NextInv == QueueInv /\ [Next]_vars => QueueInv'
<1> SUFFICES ASSUME QueueInv, [Next]_vars PROVE QueueInv'
  OBVIOUS
<1>1. TypeOK'
  BY NextType DEF QueueInv
<1>2. CASE UNCHANGED vars
  BY <1>2 DEF vars, QueueInv, TypeOK, ClaimExclusive, HeldRows, RequeueTargets, RowExistence, Held, Holds
<1> QED
  BY <1>1, <1>2, CallersKeepInv, WorkersKeepInv DEF Next

\* The inductive invariant of the queue holds in every reachable state.
THEOREM QueueInvHolds == Spec => []QueueInv
<1>1. Init => QueueInv
  <2> SUFFICES ASSUME Init PROVE QueueInv
    OBVIOUS
  <2>1. TypeOK
    BY InitType
  <2> QED
    BY <2>1 DEF Init, QueueInv, ClaimExclusive, HeldRows, RequeueTargets, RowExistence,
                Holds, Holding, Idle, NoRow
<1>2. QueueInv /\ [Next]_vars => QueueInv'
  BY NextInv
<1> QED
  BY <1>1, <1>2, PTL DEF Spec

\* No two lease-extraction-worker invocations ever hold the same job, whatever
\* is dispatched twice, requeued, reclaimed or overwritten by id.
THEOREM Exclusive == Spec => []ClaimExclusive
  BY QueueInvHolds, PTL DEF QueueInv

-----------------------------------------------------------------------------
(* Rows that left the queue for good *)

\* Nobody holds a superseded row and no reducer is about to requeue one.
LEMMA SupersededRetired == QueueInv => SupersededIsRetired
  BY HeldFacts DEF QueueInv, TypeOK, RequeueTargets, SupersededIsRetired, Retired

\* One step keeps a retired row retired.
LEMMA RetiredStep ==
    ASSUME QueueInv, [Next]_vars, NEW j \in Job, Retired(j)
    PROVE  Retired(j)'
<1>0. /\ TypeOK /\ RowExistence
      /\ row[j].status \in {"superseded", "failed", "cancelled"}
      /\ \A i \in Invocation : inv[i].pc \in Holding => inv[i].job # j
      /\ \A i \in Invocation : inv[i].pc = "requeuing" => inv[i].target # j
  BY DEF QueueInv, Retired, Held, Holds
<1> SUFFICES /\ row'[j].status \in {"superseded", "failed", "cancelled"}
             /\ \A i \in Invocation : inv'[i].pc \in Holding => inv'[i].job # j
             /\ \A i \in Invocation : inv'[i].pc = "requeuing" => inv'[i].target # j
  BY DEF Retired, Held, Holds
<1>1. CASE StartGeneration
  <2>1. j # <<activeGen + 1, ExtractStage>>
    BY <1>0, <1>1, JobFacts, StageAssumption, BoundAssumption DEF StartGeneration, RowExistence, TypeOK, Gen
  <2> QED
    BY <1>0, <1>1, <2>1 DEF StartGeneration, Retire
<1>2. ASSUME NEW s \in Stage, Enqueue(s) PROVE row'[j] = row[j] /\ inv' = inv
  BY <1>0, <1>2 DEF Enqueue, Enqueued, TypeOK
<1>3. CASE RequestCancel
  BY <1>0, <1>3 DEF RequestCancel, TypeOK
<1>4. ASSUME NEW k \in Job, DelayElapses(k) \/ GoStale(k)
      PROVE  row'[j].status = row[j].status /\ inv' = inv
  BY <1>0, <1>4 DEF DelayElapses, GoStale, TypeOK, Row
<1>5. ASSUME NEW i \in Invocation, WorkerStep(i)
      PROVE  /\ row'[j].status \in {"superseded", "failed", "cancelled"}
             /\ \A k \in Invocation : inv'[k].pc \in Holding => inv'[k].job # j
             /\ \A k \in Invocation : inv'[k].pc = "requeuing" => inv'[k].target # j
  <2>0. inv[i].pc # "idle" => inv[i].job \in Job
    BY <1>0 DEF TypeOK
  <2>1. CASE Return(i) /\ (row' = row \/ \E s \in {"failed", "cancelled"} : Write(inv[i].job, s))
    BY <1>0, <2>0, <2>1 DEF Return, Write, WithStatus, TypeOK, Row, Idle, Holding
  <2>2. ASSUME NEW k \in Job, Load(i, k)
        PROVE  /\ row' = row
               /\ inv'[i].pc \in {"exhausted", "stopping", "claiming"}
               /\ \A l \in Invocation \ {i} : inv'[l] = inv[l]
    BY <1>0, <2>2 DEF Load, TypeOK, Invocations
  <2>3. CASE Claim(i) /\ Claimable(row[inv[i].job])
    <3>1. inv[i].job # j /\ row'[j] = row[j]
      BY <1>0, <2>3 DEF Claim, Claimable, TypeOK
    <3>2. /\ inv'[i].pc = "working" /\ inv'[i].job = inv[i].job
          /\ \A l \in Invocation \ {i} : inv'[l] = inv[l]
      BY <1>0, <2>3 DEF Claim, TypeOK, Invocations
    <3> QED
      BY <1>0, <3>1, <3>2
  <2>4. CASE AdvanceToNormalize(i)
    BY <1>0, <2>4 DEF AdvanceToNormalize, Write, TypeOK, Holding
  <2>5. ASSUME Return(i), inv[i].pc = "working",
               \A l \in Job \ {inv[i].job} : row'[l] = row[l]
        PROVE  /\ row'[j] = row[j]
               /\ inv'[i] = Idle
               /\ \A l \in Invocation \ {i} : inv'[l] = inv[l]
    BY <1>0, <2>5 DEF Return, TypeOK, Holding
  <2>6. ASSUME NEW s \in Substage, RequeueMissingRead(i, s)
        PROVE  /\ row' = row
               /\ inv'[i].job = inv[i].job /\ inv[i].pc = "working" /\ inv'[i].target # j
               /\ \A l \in Invocation \ {i} : inv'[l] = inv[l]
    BY <1>0, <2>6 DEF RequeueMissingRead, TypeOK, Invocations
  <2>7. CASE RequeueMissingWrite(i)
    <3>1. row'[j] = row[j]
      BY <1>0, <2>7 DEF RequeueMissingWrite, Write, TypeOK
    <3>2. /\ inv'[i].pc = "working" /\ inv'[i].job = inv[i].job /\ inv[i].pc = "requeuing"
          /\ \A l \in Invocation \ {i} : inv'[l] = inv[l]
      BY <1>0, <2>7 DEF RequeueMissingWrite, TypeOK, Invocations
    <3> QED
      BY <1>0, <3>1, <3>2 DEF Holding
  <2>8. CASE FailExhausted(i) \/ FailUnreadable(i) \/ StopBeforeClaim(i) \/ Die(i)
    BY <2>1, <2>8 DEF FailExhausted, FailUnreadable, StopBeforeClaim, Die
  <2>9. CASE Claim(i) /\ ~Claimable(row[inv[i].job])
    BY <2>1, <2>9 DEF Claim
  <2>10. ASSUME NEW s \in TerminalStatus, Finish(i, s)
         PROVE  /\ Return(i) /\ inv[i].pc = "working"
                /\ \A l \in Job \ {inv[i].job} : row'[l] = row[l]
    BY <1>0, <2>10 DEF Finish, Write, TypeOK
  <2>11. ASSUME NEW delay \in BOOLEAN, Requeue(i, delay)
         PROVE  /\ Return(i) /\ inv[i].pc = "working"
                /\ \A l \in Job \ {inv[i].job} : row'[l] = row[l]
    BY <1>0, <2>11 DEF Requeue, TypeOK
  <2>12. CASE \/ \E s \in TerminalStatus : Finish(i, s)
              \/ \E delay \in BOOLEAN : Requeue(i, delay)
    BY <1>0, <2>5, <2>10, <2>11, <2>12 DEF Idle, Holding
  <2>13. CASE \E k \in Job : Load(i, k)
    BY <1>0, <2>2, <2>13 DEF Holding
  <2>14. CASE \E s \in Substage : RequeueMissingRead(i, s)
    BY <1>0, <2>6, <2>14 DEF Holding
  <2> QED
    BY <1>5, <2>3, <2>4, <2>7, <2>8, <2>9, <2>12, <2>13, <2>14 DEF WorkerStep
<1>6. CASE UNCHANGED vars
  BY <1>0, <1>6 DEF vars
<1> QED
  BY <1>0, <1>1, <1>2, <1>3, <1>4, <1>5, <1>6 DEF Next

\* A row superseded by start_lease_extraction_generation is out of the queue
\* at once: no worker holds it and none is about to put it back.
THEOREM SupersededOut == Spec => []SupersededIsRetired
  BY QueueInvHolds, SupersededRetired, PTL

\* No dispatch, reclaim, requeue or late unconditional update brings a
\* retired row back.
THEOREM NoRevival == Spec => RetiredForever
<1>1. QueueInv /\ [Next]_vars => [\A j \in Job : Retired(j) => Retired(j)']_vars
  BY RetiredStep
<1> QED
  BY <1>1, QueueInvHolds, PTL DEF Spec, RetiredForever

=============================================================================
