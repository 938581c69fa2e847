-------------------------- MODULE EnrichChain_proofs --------------------------
(***************************************************************************)
(* Theorems about EnrichChain, for any chain and sub-stages, any numbers of *)
(* workers, handlers, attempts and generations, and any faults: its types,  *)
(* that it implements PipelineQueue, so that the theorems about the queue   *)
(* hold of it, and that a verdict is about the active generation.  Every    *)
(* step is shown to keep ChainInv and to be a step of the queue, or none.   *)
(* For a file that is extracted once, it is also proved what a file that is *)
(* ready contains, that results only accumulate and that what was published *)
(* stands.                                                                  *)
(***************************************************************************)
EXTENDS EnrichChain, WellFoundedInduction, TLAPS

-----------------------------------------------------------------------------
(* Invariants *)

\* A worker that is at one of these works on a stage of the chain.
ChainPc == {"calling", "replied", "stale", "fenced", "degrading", "merged", "missing",
            "reviving", "requeuing", "advancing", "failed", "noting", "noted"}

\* What an invocation remembers at its position, when g generations have begun.
Fits(w, g) ==
    /\ w.pc = "idle" => w = NoWorker
    /\ w.pc # "idle" => w.job \in Job /\ GenOf(w.job) <= g
    /\ w.pc \in {"requeuing", "reviving"} => w.target \in {GenOf(w.job)} \X Substage
    /\ w.pc \notin {"requeuing", "reviving"} => w.target = NoJob
    /\ w.pc \in ChainPc => StageOf(w.job) \in Bounded
    /\ w.pc = "advancing" => StageOf(w.job) # Final
    /\ \/ w.pc \in {"missing", "requeuing", "reviving"}
       \/ w.pc = "replied" /\ w.outcome = "missing"
       => StageOf(w.job) = Reducer

\* A handler works on a stage of the chain.
Handles(w, g) ==
    /\ w.pc = "idle" => w = NoHandler
    /\ w.pc # "idle" => w.job \in Job /\ GenOf(w.job) <= g /\ StageOf(w.job) \in Bounded

FileTyped ==
    /\ content \in Content
    /\ fileStatus \in FileStatus
    /\ enrichment \in {"pending", "completed"}
    /\ readiness \in {"pending", "ready", "failed"}

RowsTyped ==
    /\ row \in [Job -> Row]
    /\ \A j \in Job : GenOf(j) > activeGen => row[j].status = "absent"

\* A caller waits for one handler, which works for it.
Callers ==
    /\ \A h \in Handler : handler[h].caller # Nobody =>
         At(handler[h].caller, "calling") /\ My(handler[h].caller) = HJob(h)
    /\ \A h, k \in Handler : handler[h].caller # Nobody /\ handler[h].caller = handler[k].caller => h = k

PollTyped == poll \in Poll /\ (poll.pc # "idle" => poll.gen \in 1 .. activeGen)

WorkersTyped ==
    /\ worker \in [Invocation -> Worker]
    /\ \A i \in Invocation : Fits(worker[i], activeGen)

HandlersTyped ==
    /\ handler \in [Handler -> Handling]
    /\ \A h \in Handler : Handles(handler[h], activeGen)

ChainInv ==
    /\ activeGen \in 0 .. MaxGen
    /\ FileTyped /\ RowsTyped /\ PollTyped
    /\ WorkersTyped /\ HandlersTyped /\ Callers

-----------------------------------------------------------------------------
(* Data *)

LEMMA Jobs ==
    /\ NoJob \notin Job
    /\ \A j \in Job : j = <<GenOf(j), StageOf(j)>> /\ GenOf(j) \in 1 .. MaxGen /\ StageOf(j) \in Stage
    /\ \A g \in 1 .. MaxGen, s \in Stage :
         <<g, s>> \in Job /\ GenOf(<<g, s>>) = g /\ StageOf(<<g, s>>) = s
  BY BoundAssumption DEF NoJob, Job, Gen, GenOf, StageOf

LEMMA Stages ==
    /\ Bounded = Stage \ {ExtractStage} /\ Substage \subseteq Bounded
    /\ Reducer \in Bounded /\ First \in Bounded /\ Final \in Bounded
    /\ \A k \in DOMAIN Chain : Chain[k] \in Bounded
  <1>1. /\ Chain \in Seq(Stage) /\ Len(Chain) > 1 /\ Len(Chain) \in Nat
        /\ DOMAIN Chain = 1 .. Len(Chain)
    BY ChainAssumption
  <1>2. \A k \in DOMAIN Chain : Chain[k] \in Bounded
    BY DEF Bounded, Range
  <1>3. First \in Bounded /\ Final \in Bounded
    BY <1>1, <1>2 DEF First, Final
  <1>4. Bounded = Stage \ {ExtractStage}
    BY ChainAssumption
  <1>5. QED
    BY <1>2, <1>3, <1>4, StageAssumption

\* Every stage but the last has one after it.
LEMMA Successors ==
  ASSUME NEW s \in Bounded, s # Final
  PROVE  Successor(s) \in Bounded
  <1>1. PICK n \in DOMAIN Chain : Chain[n] = s
    BY DEF Bounded, Range
  <1>2. DOMAIN Chain = 1 .. Len(Chain) /\ Len(Chain) \in Nat
    BY ChainAssumption
  <1> DEFINE k == CHOOSE m \in DOMAIN Chain : Chain[m] = s
  <1>3. k \in DOMAIN Chain /\ Chain[k] = s
    BY <1>1
  <1>4. k # Len(Chain)
    BY <1>3 DEF Final
  <1> HIDE DEF k
  <1>5. k + 1 \in DOMAIN Chain
    BY <1>2, <1>3, <1>4
  <1>6. Chain[k + 1] \in Bounded
    BY <1>5, Stages
  <1>7. QED
    BY <1>6 DEF Successor, k

LEMMA Rows ==
    /\ NoRow \in Row /\ NewRow \in Row /\ NoRow.status = "absent"
    /\ \A r \in Row, s \in JobStatus : WithStatus(r, s) \in Row /\ WithStatus(r, s).status = s
    /\ \A r \in Row, s \in JobStatus, d \in BOOLEAN : [WithStatus(r, s) EXCEPT !.delayed = d] \in Row
    /\ \A r \in Row : Retire(r) \in Row /\ (r.status = "absent" => Retire(r) = r)
    /\ \A r \in Row : Claimable(r) => Claimed(r) \in Row
  <1> USE BoundAssumption DEF Row, JobStatus, TerminalStatus
  <1>1. NoRow \in Row /\ NewRow \in Row /\ NoRow.status = "absent"
    <2>1. NoRow \in Row /\ NoRow.status = "absent"
      BY DEF NoRow
    <2>2. NewRow \in Row
      BY <2>1 DEF NewRow
    <2>3. QED
      BY <2>1, <2>2
  <1>2. \A r \in Row, s \in JobStatus : WithStatus(r, s) \in Row /\ WithStatus(r, s).status = s
    BY DEF WithStatus
  <1>3. \A r \in Row, s \in JobStatus, d \in BOOLEAN : [WithStatus(r, s) EXCEPT !.delayed = d] \in Row
    BY DEF WithStatus
  <1>4. \A r \in Row : Retire(r) \in Row /\ (r.status = "absent" => Retire(r) = r)
    <2>1. \A r \in Row : Retire(r) \in Row
      BY DEF Retire, WithStatus
    <2>2. \A r : r.status = "absent" => Retire(r) = r
      BY DEF Retire
    <2>3. QED
      BY <2>1, <2>2
  <1>5. ASSUME NEW r \in Row, Claimable(r) PROVE Claimed(r) \in Row
    <2>1. r.attempt + 1 \in 0 .. MaxAttempts
      BY <1>5 DEF Claimable
    <2>2. WithStatus(r, "running") \in Row /\ WithStatus(r, "running").attempt = r.attempt
      BY DEF WithStatus
    <2>3. QED
      BY <2>1, <2>2 DEF Claimed
  <1>6. QED
    BY <1>1, <1>2, <1>3, <1>4, <1>5

\* One row of a generation that has begun is written.
LEMMA RowWritten ==
  ASSUME RowsTyped, activeGen \in 0 .. MaxGen, activeGen' = activeGen,
         NEW j \in Job, GenOf(j) <= activeGen, NEW r \in Row, row' = [row EXCEPT ![j] = r]
  PROVE  RowsTyped'
  BY Jobs, BoundAssumption DEF RowsTyped

LEMMA RowsKeep ==
  ASSUME RowsTyped, UNCHANGED <<row, activeGen>>
  PROVE  RowsTyped'
  BY DEF RowsTyped

LEMMA RowEnqueued ==
  ASSUME RowsTyped, activeGen \in 1 .. MaxGen, activeGen' = activeGen,
         NEW s \in Stage, row' = Enqueued(row, activeGen, s)
  PROVE  RowsTyped'
  <1>1. /\ <<activeGen, s>> \in Job /\ GenOf(<<activeGen, s>>) = activeGen
        /\ activeGen \in 0 .. MaxGen /\ activeGen <= activeGen
    BY Jobs, BoundAssumption
  <1>2. CASE row' = row
    BY <1>2, RowsKeep
  <1>3. CASE row' = [row EXCEPT ![<<activeGen, s>>] = NewRow]
    BY <1>1, <1>3, Rows, RowWritten
  <1>4. QED
    BY <1>2, <1>3 DEF Enqueued

\* Output and payload.
LEMMA Contents ==
    /\ Blank \in Content
    /\ \A c \in Content : c.output \in Output /\ c.payload \in Payload
    /\ \A o \in Output, p \in Payload : [output |-> o, payload |-> p] \in Content
    /\ \A o \in Output, j \in Job : StageOf(j) \in Bounded => Merged(o, j) \in Output
    /\ \A c \in Content, o \in Output : [c EXCEPT !.output = o] \in Content
    /\ \A c \in Content, p \in Payload : [c EXCEPT !.payload = p] \in Content
  <1>1. Blank \in Content
    BY BoundAssumption DEF Blank, Content, Output, Payload
  <1>2. \A o \in Output, j \in Job : StageOf(j) \in Bounded => Merged(o, j) \in Output
    BY Jobs, BoundAssumption DEF Merged, Output
  <1>3. QED
    BY <1>1, <1>2 DEF Content

LEMMA Drafts ==
  ASSUME NEW j \in Job, NEW kind \in {"shell", "minimal"}
  PROVE  Draft(kind, j) \in Content
  BY Jobs, BoundAssumption DEF Draft, Content, Output, Payload, Blank

LEMMA Verdicts == \A rows, c, g : Verdict(rows, c, g) \in {"pending", "ready", "failed"}
  BY DEF Verdict

LEMMA Finalized ==
  ASSUME NEW g, Finalize(g), readiness \in {"pending", "ready", "failed"}
  PROVE  readiness' \in {"pending", "ready", "failed"}
  BY Verdicts DEF Finalize

-----------------------------------------------------------------------------
(* What the queue sees *)

view == [i \in Invocation |-> QueueView(worker[i])]

NoView == [pc |-> "idle", job |-> NoJob, target |-> NoJob]

QueueStep == [Queue!Next]_(Queue!vars)

LEMMA Views ==
  ASSUME NEW w
  PROVE  /\ w.pc \in HoldPc \cup {"stale"} =>
              QueueView(w) = [pc |-> "working", job |-> w.job, target |-> NoJob]
         /\ w.pc \in TailPc => QueueView(w) = NoView
         /\ w.pc \in {"idle", "exhausted", "stopping", "claiming", "requeuing"} =>
              QueueView(w) = [pc |-> w.pc, job |-> w.job, target |-> w.target]
  BY DEF QueueView, HoldPc, TailPc, NoView

LEMMA ViewAt ==
  ASSUME NEW i \in Invocation
  PROVE  view[i] = QueueView(worker[i])
  BY DEF view

LEMMA ViewIs == view = [k \in Invocation |-> view[k]]
  BY DEF view

LEMMA ViewPrimed == \A i \in Invocation : view'[i] = QueueView(worker'[i])
  BY DEF view, QueueView

LEMMA ViewIdle == QueueView(NoWorker) = NoView
  BY Views DEF NoWorker, NoView

\* An invocation goes on by itself.
LEMMA WorkerMoves ==
  ASSUME ChainInv, NEW i \in Invocation, NEW new \in Worker, worker' = [worker EXCEPT ![i] = new],
         Fits(new, activeGen), worker[i].pc # "calling",
         RowsTyped', FileTyped', UNCHANGED <<activeGen, handler, poll>>
  PROVE  ChainInv' /\ view' = [view EXCEPT ![i] = QueueView(new)]
  <1>1. worker'[i] = new /\ \A k \in Invocation \ {i} : worker'[k] = worker[k]
    BY DEF ChainInv, WorkersTyped
  <1>2. WorkersTyped'
    BY <1>1 DEF ChainInv, WorkersTyped
  <1>3. Callers'
    <2>1. \A h \in Handler : handler[h].caller # i \/ handler[h].caller = Nobody
      BY DEF ChainInv, Callers, At
    <2>2. \A h \in Handler : handler[h].caller # Nobody => handler[h].caller \in Invocation
      BY DEF ChainInv, HandlersTyped, Handling
    <2>3. QED
      BY <1>1, <2>1, <2>2 DEF ChainInv, Callers, At, My, HJob
  <1>4. HandlersTyped' /\ PollTyped' /\ activeGen' \in 0 .. MaxGen
    BY DEF ChainInv, HandlersTyped, PollTyped
  <1>5. view' = [view EXCEPT ![i] = QueueView(new)]
    <2>1. \A k \in Invocation : view'[k] = IF k = i THEN QueueView(new) ELSE view[k]
      BY <1>1, ViewPrimed DEF view
    <2>2. QED
      BY <2>1 DEF view
  <1>6. QED
    BY <1>2, <1>3, <1>4, <1>5 DEF ChainInv

\* Steps of the queue.
LEMMA QueueReleases ==
  ASSUME NEW i \in Invocation, NEW s \in TerminalStatus,
         \/ view[i].pc = "exhausted" /\ s = "failed"
         \/ view[i].pc \in {"stopping", "claiming"} /\ s = "failed"
         \/ view[i].pc = "stopping" /\ s = "cancelled"
         \/ view[i].pc = "working",
         row' = [row EXCEPT ![view[i].job] = WithStatus(@, s)],
         view' = [view EXCEPT ![i] = NoView], activeGen' = activeGen
  PROVE  QueueStep
  <1>1. Queue!Write(view[i].job, s) /\ Queue!Return(i)
    BY DEF Queue!Write, Queue!Return, Queue!WithStatus, WithStatus, Queue!Idle, Queue!NoJob, NoJob,
           NoView, view
  <1>2. Queue!WorkerStep(i)
    BY <1>1 DEF Queue!WorkerStep, Queue!FailExhausted, Queue!FailUnreadable, Queue!StopBeforeClaim,
           Queue!Finish, Queue!TerminalStatus, TerminalStatus, view
  <1>3. QED
    BY <1>2 DEF QueueStep, Queue!Next

LEMMA QueueRequeues ==
  ASSUME NEW i \in Invocation, view[i].pc = "working",
         row' = [row EXCEPT ![view[i].job] = [WithStatus(@, "queued") EXCEPT !.delayed = TRUE]],
         view' = [view EXCEPT ![i] = NoView], activeGen' = activeGen
  PROVE  QueueStep
  <1>1. Queue!Requeue(i, TRUE)
    BY DEF Queue!Requeue, Queue!Return, Queue!WithStatus, WithStatus, Queue!Idle, Queue!NoJob, NoJob,
           NoView, view
  <1>2. QED
    BY <1>1 DEF QueueStep, Queue!Next, Queue!WorkerStep

LEMMA QueueEnqueues ==
  ASSUME NEW s \in Bounded, activeGen \in 1 .. MaxGen, row' = Enqueued(row, activeGen, s),
         view' = view, activeGen' = activeGen
  PROVE  QueueStep
  <1>1. Queue!Enqueue(s)
    BY BoundAssumption
       DEF Queue!Enqueue, Queue!Enqueued, Enqueued, Queue!NewRow, NewRow, Queue!NoRow, NoRow, view
  <1>2. QED
    BY <1>1, Stages DEF QueueStep, Queue!Next

LEMMA QueueStays ==
  ASSUME UNCHANGED <<row, activeGen, view>>
  PROVE  QueueStep
  BY DEF QueueStep, Queue!vars, view

LEMMA QueueDies ==
  ASSUME NEW i \in Invocation, view[i].pc # "idle", view' = [view EXCEPT ![i] = NoView],
         UNCHANGED <<row, activeGen>>
  PROVE  QueueStep
  <1>1. Queue!Die(i)
    BY DEF Queue!Die, Queue!Return, Queue!Idle, Queue!NoJob, NoJob, NoView, view
  <1>2. QED
    BY <1>1 DEF QueueStep, Queue!Next, Queue!WorkerStep

-----------------------------------------------------------------------------
(* Steps of a worker *)

LEMMA AtWork ==
  ASSUME ChainInv, NEW i \in Invocation
  PROVE  /\ worker[i] \in Worker /\ Fits(worker[i], activeGen)
         /\ worker[i].pc # "idle" =>
              /\ My(i) \in Job /\ GenOf(My(i)) <= activeGen /\ row[My(i)] \in Row
              /\ activeGen \in 1 .. MaxGen
  <1>1. worker[i] \in Worker /\ Fits(worker[i], activeGen)
    BY DEF ChainInv, WorkersTyped
  <1>2. worker[i].pc # "idle" => My(i) \in Job /\ GenOf(My(i)) <= activeGen
    BY <1>1 DEF Fits, My
  <1>3. \A j \in Job : row[j] \in Row
    BY DEF ChainInv, RowsTyped
  <1>4. activeGen \in 0 .. MaxGen
    BY DEF ChainInv
  <1>5. QED
    BY <1>1, <1>2, <1>3, <1>4, Jobs, BoundAssumption

LEMMA NoWorkerFits == \A g : NoWorker \in Worker /\ Fits(NoWorker, g)
  BY Contents DEF NoWorker, Worker, Fits, ChainPc, Outcome

\* The position changes and nothing else is remembered.
LEMMA Moved ==
  ASSUME ChainInv, NEW i \in Invocation, worker[i].pc \notin {"idle", "reviving", "requeuing"},
         NEW pc \in HoldPc \cup TailPc \cup {"stale"}, pc # "reviving",
         pc \in ChainPc => StageOf(My(i)) \in Bounded,
         pc = "advancing" => StageOf(My(i)) # Final,
         pc = "missing" \/ (pc = "replied" /\ worker[i].outcome = "missing") => StageOf(My(i)) = Reducer
  PROVE  LET new == [worker[i] EXCEPT !.pc = pc] IN
         new \in Worker /\ Fits(new, activeGen) /\ new.pc = pc /\ new.job = My(i)
  <1> DEFINE new == [worker[i] EXCEPT !.pc = pc]
  <1>1. worker[i] \in Worker /\ Fits(worker[i], activeGen)
    BY AtWork
  <1>2. /\ new \in Worker /\ new.pc = pc /\ new.job = My(i)
        /\ new.target = worker[i].target /\ new.outcome = worker[i].outcome
    BY <1>1 DEF Worker, My
  <1>3. pc \notin {"idle", "reviving", "requeuing"}
    BY DEF HoldPc, TailPc
  <1>4. Fits(new, activeGen)
    <2> HIDE DEF new
    <2>1. new.job \in Job /\ GenOf(new.job) <= activeGen /\ new.target = NoJob
      BY <1>1, <1>2 DEF Fits, My
    <2>2. QED
      BY <1>2, <1>3, <2>1 DEF Fits
  <1>5. QED
    BY <1>2, <1>4

\* A worker that holds its row goes on.
LEMMA WorksOn ==
  ASSUME ChainInv, NEW i \in Invocation, worker[i].pc \in (HoldPc \cup {"stale"}) \ {"calling"},
         NEW new \in Worker, worker' = [worker EXCEPT ![i] = new], Fits(new, activeGen),
         new.pc \in HoldPc \cup {"stale"}, new.job = My(i),
         RowsTyped', FileTyped', UNCHANGED <<activeGen, handler, poll>>
  PROVE  ChainInv' /\ view' = view
  <1>1. ChainInv' /\ view' = [view EXCEPT ![i] = QueueView(new)]
    BY WorkerMoves
  <1>2. QueueView(new) = view[i]
    BY Views, ViewAt DEF My
  <1>3. QED
    BY <1>1, <1>2 DEF view

\* A worker that has settled its row goes on, or is done.
LEMMA WindsUp ==
  ASSUME ChainInv, NEW i \in Invocation, worker[i].pc \in TailPc,
         NEW new \in Worker, worker' = [worker EXCEPT ![i] = new], Fits(new, activeGen),
         new.pc \in TailPc \/ new = NoWorker,
         RowsTyped', FileTyped', UNCHANGED <<activeGen, handler, poll>>
  PROVE  ChainInv' /\ view' = view
  <1>1. worker[i].pc # "calling"
    BY DEF TailPc
  <1>2. ChainInv' /\ view' = [view EXCEPT ![i] = QueueView(new)]
    BY <1>1, WorkerMoves
  <1>3. QueueView(new) = view[i]
    BY Views, ViewAt, ViewIdle
  <1>4. QED
    BY <1>2, <1>3 DEF view

\* A worker settles its row.
LEMMA Settles ==
  ASSUME ChainInv, NEW i \in Invocation, NEW s \in TerminalStatus,
         \/ worker[i].pc = "exhausted" /\ s = "failed"
         \/ worker[i].pc \in {"stopping", "claiming"} /\ s = "failed"
         \/ worker[i].pc = "stopping" /\ s = "cancelled"
         \/ worker[i].pc \in (HoldPc \cup {"stale"}) \ {"calling"},
         NEW new \in Worker, worker' = [worker EXCEPT ![i] = new], Fits(new, activeGen),
         new.pc \in TailPc \/ new = NoWorker,
         SetRow(My(i), s), UNCHANGED <<activeGen, fileVars, handler, poll>>
  PROVE  ChainInv' /\ QueueStep
  <1>1. worker[i].pc \notin {"calling", "idle"}
    BY DEF HoldPc
  <1>2. /\ My(i) \in Job /\ GenOf(My(i)) <= activeGen /\ row[My(i)] \in Row
        /\ activeGen \in 0 .. MaxGen
    BY <1>1, AtWork DEF ChainInv
  <1>3. RowsTyped'
    <2>1. WithStatus(row[My(i)], s) \in Row
      BY <1>2, Rows DEF JobStatus
    <2>2. row' = [row EXCEPT ![My(i)] = WithStatus(row[My(i)], s)]
      BY DEF SetRow
    <2>3. QED
      BY <1>2, <2>1, <2>2, RowWritten DEF ChainInv
  <1>4. FileTyped'
    BY DEF ChainInv, FileTyped, fileVars
  <1>5. ChainInv' /\ view' = [view EXCEPT ![i] = QueueView(new)]
    BY <1>1, <1>3, <1>4, WorkerMoves
  <1>6. QueueView(new) = NoView
    BY Views, ViewIdle
  <1>7. /\ view[i].job = My(i)
        /\ worker[i].pc \in {"exhausted", "stopping", "claiming"} => view[i].pc = worker[i].pc
        /\ worker[i].pc \in HoldPc \cup {"stale"} => view[i].pc = "working"
    BY Views, ViewAt DEF My
  <1>8. row' = [row EXCEPT ![view[i].job] = WithStatus(@, s)]
    BY <1>7 DEF SetRow
  <1>9. QueueStep
    BY <1>5, <1>6, <1>7, <1>8, QueueReleases
  <1>10. QED
    BY <1>5, <1>9

\* A worker is done with its row and returns.
LEMMA SettlesAndReturns ==
  ASSUME ChainInv, NEW i \in Invocation, NEW s \in TerminalStatus,
         \/ worker[i].pc = "exhausted" /\ s = "failed"
         \/ worker[i].pc \in {"stopping", "claiming"} /\ s = "failed"
         \/ worker[i].pc = "stopping" /\ s = "cancelled"
         \/ worker[i].pc \in (HoldPc \cup {"stale"}) \ {"calling"},
         Return(i), SetRow(My(i), s), UNCHANGED <<activeGen, fileVars, handler, poll>>
  PROVE  ChainInv' /\ QueueStep
  <1>1. worker' = [worker EXCEPT ![i] = NoWorker]
    BY DEF Return
  <1>2. QED
    BY <1>1, NoWorkerFits, Settles

LEMMA SettlesAndGoes ==
  ASSUME ChainInv, NEW i \in Invocation, NEW s \in TerminalStatus,
         \/ worker[i].pc = "exhausted" /\ s = "failed"
         \/ worker[i].pc = "stopping" /\ s = "cancelled"
         \/ worker[i].pc \in (HoldPc \cup {"stale"}) \ {"calling", "reviving"},
         NEW pc \in TailPc, Goto(i, pc),
         pc \in ChainPc => StageOf(My(i)) \in Bounded,
         pc = "advancing" => StageOf(My(i)) # Final,
         SetRow(My(i), s), UNCHANGED <<activeGen, fileVars, handler, poll>>
  PROVE  ChainInv' /\ QueueStep
  <1> DEFINE new == [worker[i] EXCEPT !.pc = pc]
  <1>1. worker[i].pc \notin {"idle", "reviving", "requeuing"} /\ pc \notin {"reviving", "missing", "replied"}
    BY DEF HoldPc, TailPc
  <1>2. new \in Worker /\ Fits(new, activeGen) /\ new.pc = pc
    BY <1>1, Moved
  <1>3. worker' = [worker EXCEPT ![i] = new]
    BY DEF Goto, ChainInv, WorkersTyped
  <1> HIDE DEF new
  <1>4. QED
    BY <1>2, <1>3, Settles

LEMMA SettlingSteps ==
  ASSUME ChainInv, NEW i \in Invocation,
         \/ FailExhausted(i) \/ FailUnreadable(i) \/ Stop(i) \/ FinishExtract(i)
         \/ FailExtract(i) \/ CancelStale(i) \/ Complete(i) \/ Fail(i)
  PROVE  ChainInv' /\ QueueStep
  <1>1. {"failed", "cancelled", "completed"} \subseteq TerminalStatus
    BY DEF TerminalStatus
  <1>2. /\ {"failing", "cancelling", "checking", "parking", "advancing", "failed"} \subseteq TailPc
        /\ {"working", "dispatched", "refused", "merged", "fenced"}
             \subseteq (HoldPc \cup {"stale"}) \ {"calling", "reviving"}
        /\ ChainPc \cap {"failing", "cancelling", "checking", "parking"} = {}
        /\ {"merged", "fenced", "failed"} \subseteq ChainPc
    BY DEF TailPc, HoldPc, ChainPc
  <1>3. Fits(worker[i], activeGen)
    BY AtWork
  <1>4. CASE FailExhausted(i)
    BY <1>1, <1>2, <1>4, SettlesAndGoes DEF FailExhausted, At
  <1>5. CASE FailUnreadable(i)
    BY <1>1, <1>5, SettlesAndReturns DEF FailUnreadable
  <1>6. CASE Stop(i)
    BY <1>1, <1>2, <1>6, SettlesAndGoes DEF Stop, At
  <1>7. CASE FinishExtract(i)
    <2>1. CASE Return(i)
      BY <1>1, <1>2, <1>7, <2>1, SettlesAndReturns DEF FinishExtract, At
    <2>2. CASE Goto(i, "checking")
      BY <1>1, <1>2, <1>7, <2>2, SettlesAndGoes DEF FinishExtract, At
    <2>3. QED
      BY <1>7, <2>1, <2>2 DEF FinishExtract
  <1>8. CASE FailExtract(i)
    BY <1>1, <1>2, <1>8, SettlesAndGoes DEF FailExtract, At
  <1>9. CASE CancelStale(i)
    BY <1>1, <1>9, SettlesAndReturns DEF CancelStale, At
  <1>10. CASE Complete(i)
    <2>1. worker[i].pc \in {"merged", "fenced"} /\ StageOf(My(i)) \in Bounded
      BY <1>2, <1>3, <1>10 DEF Complete, At, Fits, My
    <2>2. CASE Return(i)
      BY <1>1, <1>2, <1>10, <2>1, <2>2, SettlesAndReturns DEF Complete
    <2>3. CASE Goto(i, "advancing") /\ MyStage(i) # Final
      BY <1>1, <1>2, <1>10, <2>1, <2>3, SettlesAndGoes DEF Complete, MyStage
    <2>4. QED
      BY <1>10, <2>2, <2>3 DEF Complete
  <1>11. CASE Fail(i)
    <2>1. worker[i].pc = "fenced" /\ StageOf(My(i)) \in Bounded
      BY <1>2, <1>3, <1>11 DEF Fail, At, Fits, My
    <2>2. QED
      BY <1>1, <1>2, <1>11, <2>1, SettlesAndGoes DEF Fail
  <1>12. QED
    BY <1>4, <1>5, <1>6, <1>7, <1>8, <1>9, <1>10, <1>11

\* A worker puts its row back into the queue.
LEMMA RequeueSteps ==
  ASSUME ChainInv, NEW i \in Invocation, RetryExtract(i) \/ Requeue(i)
  PROVE  ChainInv' /\ QueueStep
  <1>1. /\ worker[i].pc \in HoldPc \ {"calling"} /\ worker[i].pc # "idle"
        /\ row' = [row EXCEPT ![My(i)] = [WithStatus(row[My(i)], "queued") EXCEPT !.delayed = TRUE]]
        /\ worker' = [worker EXCEPT ![i] = NoWorker]
        /\ UNCHANGED <<activeGen, fileVars, handler, poll>>
    BY DEF RetryExtract, Requeue, At, HoldPc, Return
  <1>2. /\ My(i) \in Job /\ GenOf(My(i)) <= activeGen /\ row[My(i)] \in Row
        /\ activeGen \in 0 .. MaxGen
    BY <1>1, AtWork DEF ChainInv
  <1>3. RowsTyped'
    <2>1. [WithStatus(row[My(i)], "queued") EXCEPT !.delayed = TRUE] \in Row
      BY <1>2, Rows DEF JobStatus
    <2>2. QED
      BY <1>1, <1>2, <2>1, RowWritten DEF ChainInv
  <1>4. FileTyped'
    BY <1>1 DEF ChainInv, FileTyped, fileVars
  <1>5. ChainInv' /\ view' = [view EXCEPT ![i] = NoView]
    BY <1>1, <1>3, <1>4, NoWorkerFits, ViewIdle, WorkerMoves
  <1>6. view[i].job = My(i) /\ view[i].pc = "working"
    BY <1>1, Views, ViewAt DEF My
  <1>7. QueueStep
    BY <1>1, <1>5, <1>6, QueueRequeues
  <1>8. QED
    BY <1>5, <1>7

\* A step that leaves the file alone.
LEMMA FileKeeps == ASSUME FileTyped, UNCHANGED fileVars PROVE FileTyped'
  BY DEF FileTyped, fileVars

\* A worker that holds its row works on it, or writes the file.
LEMMA WorkingSteps ==
  ASSUME ChainInv, NEW i \in Invocation,
         \/ BeginNormalize(i) \/ Publish(i) \/ Fence(i)
         \/ DegradeRead(i) \/ DegradeWrite(i) \/ BeginRequeue(i)
  PROVE  ChainInv' /\ QueueStep
  <1>1. /\ worker[i] \in Worker /\ Fits(worker[i], activeGen)
        /\ worker[i].pc # "idle" => My(i) \in Job /\ GenOf(My(i)) <= activeGen
        /\ FileTyped /\ RowsTyped /\ worker \in [Invocation -> Worker]
    BY AtWork DEF ChainInv, WorkersTyped
  <1>2. /\ UNCHANGED <<row, activeGen, handler, poll>>
        /\ worker[i].pc \in (HoldPc \cup {"stale"}) \ {"calling", "reviving"}
        /\ worker[i].pc \notin {"idle", "reviving", "requeuing"}
    BY DEF BeginNormalize, Publish, Fence, DegradeRead, DegradeWrite, BeginRequeue, At, HoldPc
  <1>3. RowsTyped'
    BY <1>1, <1>2, RowsKeep
  <1>4. ASSUME NEW new \in Worker, worker' = [worker EXCEPT ![i] = new], Fits(new, activeGen),
               new.pc \in HoldPc \cup {"stale"}, new.job = My(i), FileTyped'
        PROVE  ChainInv' /\ QueueStep
    BY <1>2, <1>3, <1>4, WorksOn, QueueStays
  <1>5. ASSUME NEW pc \in HoldPc \cup {"stale"}, pc # "reviving", Goto(i, pc), FileTyped',
               pc \in ChainPc => StageOf(My(i)) \in Bounded,
               pc = "missing" \/ (pc = "replied" /\ worker[i].outcome = "missing")
                 => StageOf(My(i)) = Reducer
        PROVE  ChainInv' /\ QueueStep
    <2> DEFINE new == [worker[i] EXCEPT !.pc = pc]
    <2>1. pc # "advancing"
      BY DEF HoldPc
    <2>2. new \in Worker /\ Fits(new, activeGen) /\ new.pc = pc /\ new.job = My(i)
      BY <1>2, <1>5, <2>1, Moved
    <2>3. worker' = [worker EXCEPT ![i] = new]
      BY <1>1, <1>5 DEF Goto
    <2> HIDE DEF new
    <2>4. QED
      BY <1>4, <1>5, <2>2, <2>3
  <1>6. CASE BeginNormalize(i)
    <2>1. Goto(i, "normalizing") /\ FileTyped'
      BY <1>1, <1>6 DEF BeginNormalize, FileTyped, FileStatus
    <2>2. QED
      BY <1>5, <2>1 DEF HoldPc, ChainPc
  <1>7. CASE Publish(i)
    <2>1. Draft("minimal", My(i)) \in Content
      BY <1>1, <1>2, Drafts
    <2>2. FileTyped' /\ (Goto(i, "refused") \/ Goto(i, "published"))
      BY <1>1, <1>7, <2>1 DEF Publish, FileTyped, FileStatus
    <2>3. QED
      BY <1>5, <2>2 DEF HoldPc, ChainPc
  <1>8. CASE Fence(i)
    <2>1. FileTyped' /\ At(i, "replied") /\ (Goto(i, "fenced") \/ Goto(i, "stale"))
      BY <1>1, <1>8, FileKeeps DEF Fence
    <2>2. StageOf(My(i)) \in Bounded
      BY <1>1, <2>1 DEF Fits, My, At, ChainPc
    <2>3. QED
      BY <1>5, <2>1, <2>2 DEF HoldPc
  <1>9. CASE BeginRequeue(i)
    <2>1. FileTyped' /\ worker[i].pc = "replied" /\ worker[i].outcome = "missing" /\ Goto(i, "missing")
      BY <1>1, <1>9, FileKeeps DEF BeginRequeue, At
    <2>2. StageOf(My(i)) = Reducer /\ Reducer \in Bounded
      BY <1>1, <2>1, Stages DEF Fits, My
    <2>3. QED
      BY <1>5, <2>1, <2>2 DEF HoldPc
  <1>10. CASE DegradeRead(i)
    <2> DEFINE new == [worker[i] EXCEPT !.pc = "degrading", !.seen = content]
    <2>1. worker' = [worker EXCEPT ![i] = new] /\ worker[i].pc = "fenced" /\ FileTyped'
      BY <1>1, <1>10, FileKeeps DEF DegradeRead, At
    <2>2. /\ new \in Worker /\ new.pc = "degrading" /\ new.job = My(i)
          /\ new.target = worker[i].target
      BY <1>1 DEF Worker, HoldPc, FileTyped, My
    <2> HIDE DEF new
    <2>3. Fits(new, activeGen)
      BY <1>1, <2>1, <2>2 DEF Fits, My, ChainPc
    <2>4. QED
      BY <1>4, <2>1, <2>2, <2>3 DEF HoldPc
  <1>11. CASE DegradeWrite(i)
    <2> DEFINE new == [worker[i] EXCEPT !.pc = "merged", !.seen = Blank]
    <2>1. worker' = [worker EXCEPT ![i] = new] /\ worker[i].pc = "degrading"
      BY <1>1, <1>11 DEF DegradeWrite, At
    <2>2. /\ new \in Worker /\ new.pc = "merged" /\ new.job = My(i)
          /\ new.target = worker[i].target
      BY <1>1, Contents DEF Worker, HoldPc, My
    <2>3. My(i) \in Job /\ StageOf(My(i)) \in Bounded
      BY <1>1, <2>1 DEF Fits, My, ChainPc
    <2>4. FileTyped'
      <3>1. worker[i].seen \in Content
        BY <1>1 DEF Worker
      <3>2. Merged(worker[i].seen.output, My(i)) \in Output
        BY <2>3, <3>1, Contents
      <3>3. content' = [worker[i].seen EXCEPT !.output = Merged(worker[i].seen.output, My(i))]
        BY <1>11 DEF DegradeWrite
      <3>4. content' \in Content
        BY <3>1, <3>2, <3>3, Contents
      <3>5. QED
        BY <1>1, <1>11, <3>4 DEF DegradeWrite, FileTyped
    <2> HIDE DEF new
    <2>5. Fits(new, activeGen)
      BY <1>1, <2>1, <2>2 DEF Fits, My, ChainPc
    <2>6. QED
      BY <1>4, <2>1, <2>2, <2>4, <2>5 DEF HoldPc
  <1>12. QED
    BY <1>6, <1>7, <1>8, <1>9, <1>10, <1>11

\* A worker that has settled its row has something left to do.
LEMMA WindingUpSteps ==
  ASSUME ChainInv, NEW i \in Invocation,
         \/ FailFile(i) \/ CancelFile(i) \/ Park(i) \/ CheckDispatch(i)
         \/ NoteRead(i) \/ NoteWrite(i) \/ FinalizeFailed(i)
  PROVE  ChainInv' /\ QueueStep
  <1>1. /\ worker[i] \in Worker /\ Fits(worker[i], activeGen)
        /\ worker[i].pc # "idle" => My(i) \in Job /\ GenOf(My(i)) <= activeGen
        /\ FileTyped /\ RowsTyped /\ worker \in [Invocation -> Worker]
    BY AtWork DEF ChainInv, WorkersTyped
  <1>2. /\ UNCHANGED <<row, activeGen, handler, poll>>
        /\ worker[i].pc \in TailPc
        /\ worker[i].pc \notin {"idle", "reviving", "requeuing"}
    BY DEF FailFile, CancelFile, Park, CheckDispatch, NoteRead, NoteWrite, FinalizeFailed, At, TailPc
  <1>3. RowsTyped'
    BY <1>1, <1>2, RowsKeep
  <1>4. ASSUME NEW new \in Worker, worker' = [worker EXCEPT ![i] = new], Fits(new, activeGen),
               new.pc \in TailPc \/ new = NoWorker, FileTyped'
        PROVE  ChainInv' /\ QueueStep
    BY <1>2, <1>3, <1>4, WindsUp, QueueStays
  <1>5. ASSUME Return(i), FileTyped'
        PROVE  ChainInv' /\ QueueStep
    BY <1>4, <1>5, NoWorkerFits DEF Return
  <1>6. CASE FailFile(i)
    BY <1>1, <1>5, <1>6 DEF FailFile, FileTyped, FileStatus
  <1>7. CASE CancelFile(i)
    BY <1>1, <1>5, <1>7 DEF CancelFile, FileTyped, FileStatus
  <1>8. CASE Park(i)
    <2>1. Draft("shell", My(i)) \in Content
      BY <1>1, <1>2, Drafts
    <2>2. QED
      BY <1>1, <1>5, <1>8, <2>1 DEF Park, FileTyped, FileStatus
  <1>9. CASE CheckDispatch(i)
    <2>1. FileTyped'
      BY <1>1, <1>9, FileKeeps DEF CheckDispatch
    <2>2. CASE Return(i)
      BY <1>5, <2>1, <2>2
    <2>3. CASE Goto(i, "redispatching")
      <3> DEFINE new == [worker[i] EXCEPT !.pc = "redispatching"]
      <3>1. "redispatching" \in TailPc /\ "redispatching" \notin ChainPc
        BY DEF TailPc, ChainPc
      <3>2. new \in Worker /\ Fits(new, activeGen) /\ new.pc = "redispatching"
        BY <1>2, <3>1, Moved
      <3>3. worker' = [worker EXCEPT ![i] = new]
        BY <1>1, <2>3 DEF Goto
      <3> HIDE DEF new
      <3>4. QED
        BY <1>4, <2>1, <3>1, <3>2, <3>3
    <2>4. QED
      BY <1>9, <2>2, <2>3 DEF CheckDispatch
  <1>10. CASE NoteRead(i)
    <2> DEFINE new == [worker[i] EXCEPT !.pc = "noting", !.seen.payload = content.payload]
    <2>1. worker' = [worker EXCEPT ![i] = new] /\ worker[i].pc = "failed" /\ FileTyped'
      BY <1>1, <1>10, FileKeeps DEF NoteRead, At
    <2>2. [worker[i].seen EXCEPT !.payload = content.payload] \in Content
      BY <1>1, Contents DEF Worker, FileTyped
    <2>3. /\ new \in Worker /\ new.pc = "noting" /\ new.job = My(i)
          /\ new.target = worker[i].target
      BY <1>1, <2>2 DEF Worker, TailPc, My
    <2> HIDE DEF new
    <2>4. Fits(new, activeGen)
      BY <1>1, <2>1, <2>3 DEF Fits, My, ChainPc
    <2>5. QED
      BY <1>4, <2>1, <2>3, <2>4 DEF TailPc
  <1>11. CASE NoteWrite(i)
    <2> DEFINE new == [worker[i] EXCEPT !.pc = "noted", !.seen = Blank]
    <2>1. worker' = [worker EXCEPT ![i] = new] /\ worker[i].pc = "noting"
      BY <1>1, <1>11 DEF NoteWrite, At
    <2>2. /\ new \in Worker /\ new.pc = "noted" /\ new.job = My(i)
          /\ new.target = worker[i].target
      BY <1>1, Contents DEF Worker, TailPc, My
    <2>3. FileTyped'
      <3>1. worker[i].seen.payload \in Payload
        BY <1>1, Contents DEF Worker
      <3>2. content' = [content EXCEPT !.payload = worker[i].seen.payload]
        BY <1>11 DEF NoteWrite
      <3>3. content' \in Content
        BY <1>1, <3>1, <3>2, Contents DEF FileTyped
      <3>4. QED
        BY <1>1, <1>11, <3>3 DEF NoteWrite, FileTyped
    <2> HIDE DEF new
    <2>4. Fits(new, activeGen)
      BY <1>1, <2>1, <2>2 DEF Fits, My, ChainPc
    <2>5. QED
      BY <1>4, <2>1, <2>2, <2>3, <2>4 DEF TailPc
  <1>12. CASE FinalizeFailed(i)
    <2>1. readiness' \in {"pending", "ready", "failed"}
      BY <1>1, <1>12, Finalized DEF FinalizeFailed, FileTyped
    <2>2. FileTyped'
      BY <1>1, <1>12, <2>1 DEF FinalizeFailed, FileTyped
    <2>3. QED
      BY <1>5, <1>12, <2>2 DEF FinalizeFailed
  <1>13. QED
    BY <1>6, <1>7, <1>8, <1>9, <1>10, <1>11, <1>12

\* A worker enqueues a stage, for the active generation.
LEMMA EnqueuingSteps ==
  ASSUME ChainInv, NEW i \in Invocation, EnqueueFirst(i) \/ Advance(i) \/ Revive(i)
  PROVE  ChainInv' /\ QueueStep
  <1>1. /\ UNCHANGED <<activeGen, fileVars, handler, poll>>
        /\ worker[i].pc \in {"published", "redispatching", "advancing", "reviving"}
    BY DEF EnqueueFirst, Advance, Revive, At
  <1>2. /\ worker[i] \in Worker /\ Fits(worker[i], activeGen)
        /\ My(i) \in Job /\ GenOf(My(i)) <= activeGen /\ activeGen \in 1 .. MaxGen
        /\ FileTyped /\ RowsTyped /\ worker \in [Invocation -> Worker]
    BY <1>1, AtWork DEF ChainInv, WorkersTyped
  <1>3. FileTyped'
    BY <1>1, <1>2, FileKeeps
  <1>4. ASSUME NEW s \in Bounded, row' = Enqueued(row, activeGen, s)
        PROVE  RowsTyped' /\ (view' = view => QueueStep)
    <2>1. s \in Stage
      BY Stages
    <2>2. QED
      BY <1>1, <1>2, <1>4, <2>1, RowEnqueued, QueueEnqueues
  <1>5. ASSUME Return(i), worker[i].pc \in TailPc, RowsTyped'
        PROVE  ChainInv' /\ view' = view
    BY <1>1, <1>3, <1>5, NoWorkerFits, WindsUp DEF Return
  <1>6. CASE EnqueueFirst(i)
    <2>1. RowsTyped' /\ (view' = view => QueueStep)
      BY <1>4, <1>6, Stages DEF EnqueueFirst
    <2>2. CASE At(i, "redispatching") /\ Return(i)
      BY <1>5, <2>1, <2>2 DEF At, TailPc
    <2>3. CASE At(i, "published") /\ Goto(i, "dispatched")
      <3> DEFINE new == [worker[i] EXCEPT !.pc = "dispatched"]
      <3>1. /\ worker[i].pc \in (HoldPc \cup {"stale"}) \ {"calling"}
            /\ worker[i].pc \notin {"idle", "reviving", "requeuing"}
            /\ "dispatched" \in HoldPc /\ "dispatched" \notin ChainPc
        BY <2>3 DEF HoldPc, ChainPc, At
      <3>2. new \in Worker /\ Fits(new, activeGen) /\ new.pc = "dispatched" /\ new.job = My(i)
        BY <3>1, Moved
      <3>3. worker' = [worker EXCEPT ![i] = new]
        BY <1>2, <2>3 DEF Goto
      <3> HIDE DEF new
      <3>4. ChainInv' /\ view' = view
        BY <1>1, <1>3, <2>1, <3>1, <3>2, <3>3, WorksOn
      <3>5. QED
        BY <2>1, <3>4
    <2>4. QED
      BY <1>6, <2>2, <2>3 DEF EnqueueFirst
  <1>7. CASE Advance(i)
    <2>1. StageOf(My(i)) \in Bounded /\ StageOf(My(i)) # Final
      BY <1>2, <1>7 DEF Advance, At, Fits, ChainPc, My
    <2>2. RowsTyped' /\ (view' = view => QueueStep)
      BY <1>4, <1>7, <2>1, Successors DEF Advance, MyStage
    <2>3. ChainInv' /\ view' = view
      BY <1>5, <1>7, <2>2 DEF Advance, At, TailPc
    <2>4. QED
      BY <2>2, <2>3
  <1>8. CASE Revive(i)
    <2> DEFINE new == [worker[i] EXCEPT !.pc = "missing", !.target = NoJob]
    <2>1. /\ worker[i].pc = "reviving" /\ worker' = [worker EXCEPT ![i] = new]
          /\ worker[i].target \in {GenOf(My(i))} \X Substage /\ StageOf(My(i)) = Reducer
      BY <1>2, <1>8 DEF Revive, At, Fits, My
    <2>2. StageOf(worker[i].target) \in Bounded
      BY <2>1, Stages DEF StageOf
    <2>3. RowsTyped' /\ (view' = view => QueueStep)
      BY <1>4, <1>8, <2>2 DEF Revive
    <2>4. new \in Worker /\ new.pc = "missing" /\ new.job = My(i) /\ new.target = NoJob
      BY <1>2 DEF Worker, HoldPc, My
    <2> HIDE DEF new
    <2>5. Fits(new, activeGen)
      BY <1>2, <2>1, <2>4, Stages DEF Fits
    <2>6. ChainInv' /\ view' = view
      BY <1>1, <1>3, <2>1, <2>3, <2>4, <2>5, WorksOn DEF HoldPc
    <2>7. QED
      BY <2>3, <2>6
  <1>9. QED
    BY <1>6, <1>7, <1>8

\* A dispatch arrives at an idle worker.
LEMMA LoadSteps ==
  ASSUME ChainInv, NEW i \in Invocation, NEW j \in Job, Load(i, j)
  PROVE  ChainInv' /\ QueueStep
  <1> DEFINE pc  == IF row[j].attempt >= MaxAttempts THEN "exhausted"
                    ELSE IF row[j].cancel THEN "stopping" ELSE "claiming"
             new == [worker[i] EXCEPT !.job = j, !.pc = pc]
  <1>1. /\ UNCHANGED <<row, activeGen, fileVars, handler, poll>>
        /\ worker' = [worker EXCEPT ![i] = new]
        /\ worker[i].pc = "idle" /\ row[j].status \in {"queued", "running"}
    BY DEF Load, At
  <1>2. /\ worker[i] \in Worker /\ Fits(worker[i], activeGen) /\ worker[i] = NoWorker
        /\ GenOf(j) <= activeGen /\ FileTyped /\ RowsTyped
    BY <1>1, AtWork, Jobs, BoundAssumption DEF ChainInv, Fits, RowsTyped
  <1>3. pc \in {"exhausted", "stopping", "claiming"}
    OBVIOUS
  <1> HIDE DEF pc
  <1>31. worker[i].target = NoJob
    BY <1>2 DEF NoWorker
  <1>32. new \in Worker /\ new.pc = pc /\ new.job = j /\ new.target = NoJob
    BY <1>2, <1>3, <1>31 DEF Worker
  <1>4. RowsTyped' /\ FileTyped'
    BY <1>1, <1>2, RowsKeep, FileKeeps
  <1>5. view[i] = NoView
    BY <1>2, ViewAt, ViewIdle
  <1> HIDE DEF new
  <1>6. Fits(new, activeGen)
    BY <1>2, <1>3, <1>32 DEF Fits, ChainPc
  <1>7. ChainInv' /\ view' = [view EXCEPT ![i] = QueueView(new)]
    BY <1>1, <1>2, <1>3, <1>32, <1>4, <1>6, WorkerMoves
  <1>8. QueueView(new) = [pc |-> pc, job |-> j, target |-> NoJob]
    BY <1>3, <1>32, Views
  <1>9. Queue!Load(i, j)
    <2>1. [[view[i] EXCEPT !.job = j] EXCEPT !.pc = pc] = QueueView(new)
      <3>1. ASSUME NEW m, m = [pc |-> "idle", job |-> j, target |-> NoJob]
            PROVE  [view[i] EXCEPT !.job = j] = m /\ [m EXCEPT !.pc = pc] = QueueView(new)
        <4>1. [view[i] EXCEPT !.job = j] = m
          BY <1>5, <3>1 DEF NoView
        <4>2. ASSUME NEW q, q = QueueView(new) PROVE [m EXCEPT !.pc = pc] = q
          BY <1>8, <3>1, <4>2
        <4>3. QED
          BY <4>1, <4>2
      <3>2. QED
        BY <3>1
    <2>2. view' = [view EXCEPT ![i].job = j, ![i].pc = pc]
      BY <1>7, <2>1, ViewIs
    <2>3. view[i].pc = "idle"
      BY <1>5 DEF NoView
    <2>4. QED
      BY <1>1, <2>2, <2>3 DEF Queue!Load, view, pc
  <1>10. QED
    BY <1>7, <1>9 DEF QueueStep, Queue!Next, Queue!WorkerStep, Queue!Job, Job, Queue!Gen, Gen

LEMMA ClaimSteps ==
  ASSUME ChainInv, NEW i \in Invocation, Claim(i)
  PROVE  ChainInv' /\ QueueStep
  <1>1. /\ UNCHANGED <<activeGen, fileVars, handler, poll>>
        /\ worker[i].pc = "claiming"
    BY DEF Claim, At
  <1>2. /\ worker[i] \in Worker /\ Fits(worker[i], activeGen)
        /\ My(i) \in Job /\ GenOf(My(i)) <= activeGen /\ row[My(i)] \in Row
        /\ activeGen \in 0 .. MaxGen
        /\ FileTyped /\ RowsTyped /\ worker \in [Invocation -> Worker]
    BY <1>1, AtWork DEF ChainInv, WorkersTyped
  <1>3. FileTyped'
    BY <1>1, <1>2, FileKeeps
  <1>4. view[i] = [pc |-> "claiming", job |-> My(i), target |-> NoJob]
    <2>1. worker[i].target = NoJob
      BY <1>1, <1>2 DEF Fits
    <2>2. QED
      BY <1>1, <2>1, ViewAt, Views DEF My
  <1>5. CASE ~Claimable(row[My(i)])
    <2>1. UNCHANGED row /\ Return(i)
      BY <1>5 DEF Claim
    <2>2. RowsTyped'
      BY <1>1, <1>2, <2>1, RowsKeep
    <2>3. ChainInv' /\ view' = [view EXCEPT ![i] = NoView]
      BY <1>1, <1>3, <2>1, <2>2, NoWorkerFits, WorkerMoves, ViewIdle DEF Return
    <2>4. UNCHANGED <<row, activeGen>> /\ view[i].pc # "idle"
      BY <1>1, <1>4, <2>1
    <2>5. QED
      BY <2>3, <2>4, QueueDies
  <1>6. CASE Claimable(row[My(i)])
    <2> DEFINE new == [worker[i] EXCEPT !.pc = "working"]
    <2>1. /\ row' = [row EXCEPT ![My(i)] = Claimed(row[My(i)])]
          /\ worker' = [worker EXCEPT ![i] = new]
      BY <1>2, <1>6 DEF Claim, Goto
    <2>2. RowsTyped'
      BY <1>1, <1>2, <1>6, <2>1, Rows, RowWritten
    <2>3. "working" \in HoldPc /\ "working" \notin ChainPc
      BY DEF HoldPc, ChainPc
    <2>4. new \in Worker /\ Fits(new, activeGen) /\ new.pc = "working" /\ new.job = My(i)
      BY <1>1, <2>3, Moved
    <2> HIDE DEF new
    <2>5. ChainInv' /\ view' = [view EXCEPT ![i] = QueueView(new)]
      BY <1>1, <1>3, <2>1, <2>2, <2>4, WorkerMoves
    <2>6. QueueView(new) = [pc |-> "working", job |-> My(i), target |-> NoJob]
      BY <2>3, <2>4, Views
    <2>7. Queue!Claim(i)
      <3>1. Queue!Claimable(row[My(i)]) /\ Queue!Claimed(row[My(i)]) = Claimed(row[My(i)])
        BY <1>6 DEF Queue!Claimable, Claimable, Queue!Claimed, Claimed, Queue!WithStatus, WithStatus
      <3>2. view[i].pc = "claiming" /\ view[i].job = My(i)
        BY <1>4
      <3>3. view' = [view EXCEPT ![i].pc = "working"]
        <4>1. [view[i] EXCEPT !.pc = "working"] = QueueView(new)
          BY <1>4, <2>6
        <4>2. QED
          BY <2>5, <4>1, ViewIs
      <3>4. QED
        BY <1>1, <2>1, <3>1, <3>2, <3>3 DEF Queue!Claim, view
    <2>8. QED
      BY <2>5, <2>7 DEF QueueStep, Queue!Next, Queue!WorkerStep
  <1>7. QED
    BY <1>5, <1>6

\* The reducer puts a sub-stage back: the read ...
LEMMA RequeueReads ==
  ASSUME ChainInv, NEW i \in Invocation, NEW s \in Substage, RequeueMissingRead(i, s)
  PROVE  ChainInv' /\ QueueStep
  <1> DEFINE j      == <<MyGen(i), s>>
             status == row[j].status
             target == IF status \in {"failed", "cancelled", "superseded"} THEN NoJob ELSE j
             pc     == CASE status = "completed" -> "requeuing"
                         [] status \in {"absent", "queued", "running"} -> "reviving"
                         [] OTHER -> "missing"
             new    == [worker[i] EXCEPT !.missing = @ \ {s}, !.target = target, !.pc = pc]
  <1>1. /\ UNCHANGED <<row, activeGen, fileVars, handler, poll>>
        /\ worker' = [worker EXCEPT ![i] = new]
        /\ worker[i].pc = "missing"
    BY DEF RequeueMissingRead, At
  <1>2. /\ worker[i] \in Worker /\ Fits(worker[i], activeGen)
        /\ My(i) \in Job /\ GenOf(My(i)) <= activeGen
        /\ FileTyped /\ RowsTyped /\ worker \in [Invocation -> Worker]
    BY <1>1, AtWork DEF ChainInv, WorkersTyped
  <1>3. RowsTyped' /\ FileTyped'
    BY <1>1, <1>2, RowsKeep, FileKeeps
  <1>4. /\ j \in Job /\ j = <<GenOf(My(i)), s>> /\ row[j] \in Row /\ status \in JobStatus
        /\ StageOf(My(i)) = Reducer /\ worker[i].target = NoJob
    <2>1. s \in Stage
      BY Stages
    <2>2. j \in Job
      BY <1>2, <2>1, Jobs DEF MyGen
    <2>3. row[j] \in Row
      BY <1>2, <2>2 DEF RowsTyped
    <2>4. QED
      BY <1>1, <1>2, <2>2, <2>3 DEF Fits, Row, MyGen, My
  <1>5. /\ pc \in {"requeuing", "reviving", "missing"}
        /\ pc \in {"requeuing", "reviving"} => target = j
        /\ pc = "missing" => target = NoJob
        /\ pc = "requeuing" => status = "completed"
    BY <1>4 DEF JobStatus, TerminalStatus
  <1>6. new \in Worker /\ new.pc = pc /\ new.job = My(i) /\ new.target = target
    BY <1>2, <1>4, <1>5 DEF Worker, HoldPc, My
  <1> HIDE DEF pc, target, new
  <1>7. Fits(new, activeGen)
    BY <1>2, <1>4, <1>5, <1>6, Stages DEF Fits
  <1>8. worker[i].pc \in (HoldPc \cup {"stale"}) \ {"calling"}
    BY <1>1 DEF HoldPc
  <1>9. CASE pc = "requeuing"
    <2>1. ChainInv' /\ view' = [view EXCEPT ![i] = QueueView(new)]
      BY <1>1, <1>3, <1>6, <1>7, WorkerMoves
    <2>2. QueueView(new) = [pc |-> "requeuing", job |-> My(i), target |-> j]
      BY <1>5, <1>6, <1>9, Views
    <2>3. view[i] = [pc |-> "working", job |-> My(i), target |-> NoJob]
      BY <1>8, ViewAt, Views DEF My
    <2>4. view' = [view EXCEPT ![i].pc = "requeuing", ![i].target = j]
      <3>1. [[view[i] EXCEPT !.pc = "requeuing"] EXCEPT !.target = j] = QueueView(new)
        <4>1. ASSUME NEW m, m = [pc |-> "requeuing", job |-> My(i), target |-> NoJob]
              PROVE  [view[i] EXCEPT !.pc = "requeuing"] = m /\ [m EXCEPT !.target = j] = QueueView(new)
          <5>1. [view[i] EXCEPT !.pc = "requeuing"] = m
            BY <2>3, <4>1
          <5>2. ASSUME NEW q, q = QueueView(new) PROVE [m EXCEPT !.target = j] = q
            BY <2>2, <4>1, <5>2
          <5>3. QED
            BY <5>1, <5>2
        <4>2. QED
          BY <4>1
      <3>2. QED
        BY <2>1, <3>1, ViewIs
    <2>5. Queue!RequeueMissingRead(i, s)
      <3>1. view[i].pc = "working" /\ view[i].job = My(i)
        BY <2>3
      <3>2. row[j].status = "completed"
        BY <1>5, <1>9
      <3>3. QED
        BY <1>1, <1>4, <2>4, <3>1, <3>2
           DEF Queue!RequeueMissingRead, view, Queue!StageOf, StageOf, Queue!GenOf, GenOf
    <2>6. QED
      BY <2>1, <2>5 DEF QueueStep, Queue!Next, Queue!WorkerStep
  <1>10. CASE pc # "requeuing"
    <2>1. pc \in HoldPc \cup {"stale"}
      BY <1>5, <1>10 DEF HoldPc
    <2>2. ChainInv' /\ view' = view
      BY <1>1, <1>3, <1>6, <1>7, <1>8, <2>1, WorksOn
    <2>3. QED
      BY <1>1, <2>2, QueueStays
  <1>11. QED
    BY <1>9, <1>10

\* ... and the update.
LEMMA RequeueWrites ==
  ASSUME ChainInv, NEW i \in Invocation, RequeueMissingWrite(i)
  PROVE  ChainInv' /\ QueueStep
  <1> DEFINE new == [worker[i] EXCEPT !.pc = "reviving"]
             j   == worker[i].target
  <1>1. /\ UNCHANGED <<activeGen, fileVars, handler, poll>>
        /\ worker[i].pc = "requeuing" /\ SetRow(j, "queued")
    BY DEF RequeueMissingWrite, At
  <1>2. /\ worker[i] \in Worker /\ Fits(worker[i], activeGen) /\ activeGen \in 0 .. MaxGen
        /\ My(i) \in Job /\ GenOf(My(i)) <= activeGen
        /\ FileTyped /\ RowsTyped /\ worker \in [Invocation -> Worker]
    BY <1>1, AtWork DEF ChainInv, WorkersTyped
  <1>3. j \in {GenOf(My(i))} \X Substage /\ StageOf(My(i)) = Reducer
    BY <1>1, <1>2 DEF Fits, My
  <1>4. j \in Job /\ GenOf(j) = GenOf(My(i)) /\ row[j] \in Row
    <2>1. PICK s \in Substage : j = <<GenOf(My(i)), s>>
      BY <1>3
    <2>2. s \in Stage
      BY Stages
    <2>3. QED
      BY <1>2, <2>1, <2>2, Jobs DEF RowsTyped
  <1>5. worker' = [worker EXCEPT ![i] = new]
    BY <1>2 DEF RequeueMissingWrite, Goto
  <1>6. FileTyped'
    BY <1>1, <1>2, FileKeeps
  <1>7. RowsTyped'
    <2>1. WithStatus(row[j], "queued") \in Row
      BY <1>4, Rows DEF JobStatus
    <2>2. row' = [row EXCEPT ![j] = WithStatus(row[j], "queued")]
      BY <1>1 DEF SetRow
    <2>3. QED
      BY <1>1, <1>2, <1>4, <2>1, <2>2, RowWritten
  <1>8. new \in Worker /\ new.pc = "reviving" /\ new.job = My(i) /\ new.target = j
    BY <1>2 DEF Worker, HoldPc, My
  <1>9. view[i] = [pc |-> "requeuing", job |-> My(i), target |-> j]
    BY <1>1, ViewAt, Views DEF My
  <1> HIDE DEF new
  <1>10. Fits(new, activeGen)
    BY <1>2, <1>3, <1>8, Stages DEF Fits
  <1>11. ChainInv' /\ view' = [view EXCEPT ![i] = QueueView(new)]
    BY <1>1, <1>5, <1>6, <1>7, <1>8, <1>10, WorkerMoves
  <1>12. QueueView(new) = [pc |-> "working", job |-> My(i), target |-> NoJob]
    BY <1>8, Views DEF HoldPc
  <1>13. Queue!RequeueMissingWrite(i)
    <2>1. [[view[i] EXCEPT !.pc = "working"] EXCEPT !.target = NoJob] = QueueView(new)
      <3>1. ASSUME NEW m, m = [pc |-> "working", job |-> My(i), target |-> j]
            PROVE  [view[i] EXCEPT !.pc = "working"] = m /\ [m EXCEPT !.target = NoJob] = QueueView(new)
        <4>1. [view[i] EXCEPT !.pc = "working"] = m
          BY <1>9, <3>1
        <4>2. ASSUME NEW q, q = QueueView(new) PROVE [m EXCEPT !.target = NoJob] = q
          BY <1>12, <3>1, <4>2
        <4>3. QED
          BY <4>1, <4>2
      <3>2. QED
        BY <3>1
    <2>2. view' = [view EXCEPT ![i].pc = "working", ![i].target = NoJob]
      BY <1>11, <2>1, ViewIs
    <2>3. view[i].pc = "requeuing" /\ view[i].target = j
      BY <1>9
    <2>4. QED
      BY <1>1, <2>2, <2>3
         DEF Queue!RequeueMissingWrite, Queue!Write, SetRow, Queue!WithStatus, WithStatus,
             Queue!NoJob, NoJob, view
  <1>14. QED
    BY <1>11, <1>13 DEF QueueStep, Queue!Next, Queue!WorkerStep

-----------------------------------------------------------------------------
(* Calls, handlers and answers *)

LEMMA ViewUpdated ==
  ASSUME worker \in [Invocation -> Worker], NEW i \in Invocation, NEW new,
         worker' = [worker EXCEPT ![i] = new]
  PROVE  view' = [view EXCEPT ![i] = QueueView(new)]
  <1>1. \A k \in Invocation : view'[k] = IF k = i THEN QueueView(new) ELSE view[k]
    BY ViewPrimed DEF view
  <1>2. QED
    BY <1>1 DEF view

LEMMA CallSteps ==
  ASSUME ChainInv, NEW i \in Invocation, NEW h \in Handler, Call(i, h)
  PROVE  ChainInv' /\ QueueStep
  <1> DEFINE new  == [worker[i] EXCEPT !.pc = "calling"]
             call == [NoHandler EXCEPT !.pc = "prefence", !.job = My(i), !.caller = i]
  <1>1. /\ UNCHANGED <<row, activeGen, fileVars, poll>>
        /\ worker[i].pc = "working" /\ StageOf(My(i)) \in Bounded /\ handler[h].pc = "idle"
        /\ handler' = [handler EXCEPT ![h] = call]
    BY DEF Call, At, MyStage
  <1>2. /\ worker \in [Invocation -> Worker] /\ handler \in [Handler -> Handling]
        /\ My(i) \in Job /\ GenOf(My(i)) <= activeGen /\ RowsTyped /\ FileTyped
        /\ activeGen \in 0 .. MaxGen
    BY <1>1, AtWork DEF ChainInv, WorkersTyped, HandlersTyped
  <1>3. worker' = [worker EXCEPT ![i] = new]
    BY <1>2 DEF Call, Goto
  <1>4. new \in Worker /\ Fits(new, activeGen) /\ new.pc = "calling" /\ new.job = My(i)
    BY <1>1, Moved DEF HoldPc
  <1>5. /\ call \in Handling /\ call.pc = "prefence" /\ call.job = My(i) /\ call.caller = i
    BY <1>2, Contents DEF Handling, NoHandler
  <1> HIDE DEF new, call
  <1>6. WorkersTyped'
    BY <1>1, <1>2, <1>3, <1>4 DEF ChainInv, WorkersTyped
  <1>7. HandlersTyped'
    BY <1>1, <1>2, <1>5 DEF ChainInv, HandlersTyped, Handles
  <1>8. Callers'
    <2>1. \A k \in Handler : handler[k].caller # i \/ handler[k].caller = Nobody
      BY <1>1 DEF ChainInv, Callers, At
    <2>2. \A k \in Handler : handler[k].caller # Nobody => handler[k].caller \in Invocation
      BY DEF ChainInv, HandlersTyped, Handling
    <2>3. i # Nobody
      BY ChainAssumption
    <2>4. /\ handler'[h] = call /\ \A k \in Handler \ {h} : handler'[k] = handler[k]
          /\ worker'[i] = new /\ \A k \in Invocation \ {i} : worker'[k] = worker[k]
      BY <1>1, <1>2, <1>3
    <2>5. QED
      BY <1>4, <1>5, <2>1, <2>2, <2>3, <2>4 DEF ChainInv, Callers, At, My, HJob
  <1>9. RowsTyped' /\ FileTyped' /\ PollTyped' /\ activeGen' \in 0 .. MaxGen
    BY <1>1, <1>2, RowsKeep, FileKeeps DEF ChainInv, PollTyped
  <1>10. view' = view
    <2>1. view' = [view EXCEPT ![i] = QueueView(new)]
      BY <1>2, <1>3, ViewUpdated
    <2>2. QueueView(new) = view[i]
      BY <1>1, <1>4, Views, ViewAt DEF HoldPc, My
    <2>3. QED
      BY <2>1, <2>2, ViewIs
  <1>11. QED
    BY <1>1, <1>6, <1>7, <1>8, <1>9, <1>10, QueueStays DEF ChainInv

\* The worker gets an answer, and is not told twice.
LEMMA Answered ==
  ASSUME ChainInv, NEW h \in Handler, NEW i \in Invocation, handler[h].caller = i,
         NEW after \in Handling, handler' = [handler EXCEPT ![h] = after],
         Handles(after, activeGen), after.caller = Nobody,
         NEW new \in Worker, worker' = [worker EXCEPT ![i] = new],
         new.pc = "replied", new.job = My(i), new.target = worker[i].target,
         new.outcome = "missing" => StageOf(My(i)) = Reducer,
         FileTyped', UNCHANGED <<row, activeGen, poll>>
  PROVE  ChainInv' /\ QueueStep
  <1>1. /\ worker \in [Invocation -> Worker] /\ handler \in [Handler -> Handling]
        /\ i # Nobody /\ RowsTyped /\ activeGen \in 0 .. MaxGen
    BY ChainAssumption DEF ChainInv, WorkersTyped, HandlersTyped
  <1>2. worker[i].pc = "calling" /\ My(i) = HJob(h)
    BY <1>1 DEF ChainInv, Callers, At
  <1>3. /\ Fits(worker[i], activeGen) /\ My(i) \in Job /\ GenOf(My(i)) <= activeGen
    BY <1>2, AtWork
  <1>4. Fits(new, activeGen)
    BY <1>2, <1>3 DEF Fits, ChainPc, My
  <1>5. /\ handler'[h] = after /\ \A k \in Handler \ {h} : handler'[k] = handler[k]
        /\ worker'[i] = new /\ \A k \in Invocation \ {i} : worker'[k] = worker[k]
    BY <1>1
  <1>6. WorkersTyped' /\ HandlersTyped'
    BY <1>1, <1>4, <1>5 DEF ChainInv, WorkersTyped, HandlersTyped
  <1>7. Callers'
    <2>1. \A k \in Handler : handler[k].caller # Nobody => handler[k].caller \in Invocation
      BY DEF ChainInv, HandlersTyped, Handling
    <2>2. \A k \in Handler \ {h} : handler[k].caller # i
      BY <1>1 DEF ChainInv, Callers
    <2>3. QED
      BY <1>5, <2>1, <2>2 DEF ChainInv, Callers, At, My, HJob
  <1>8. RowsTyped' /\ PollTyped' /\ activeGen' \in 0 .. MaxGen
    BY <1>1, RowsKeep DEF ChainInv, PollTyped
  <1>9. view' = view
    <2>1. view' = [view EXCEPT ![i] = QueueView(new)]
      BY <1>1, ViewUpdated
    <2>2. QueueView(new) = view[i]
      BY <1>2, Views, ViewAt DEF HoldPc, My
    <2>3. QED
      BY <2>1, <2>2, ViewIs
  <1>10. QED
    BY <1>6, <1>7, <1>8, <1>9, QueueStays DEF ChainInv

\* A handler goes on, and its caller waits.
LEMMA HandlerMoves ==
  ASSUME ChainInv, NEW h \in Handler, NEW after \in Handling, handler' = [handler EXCEPT ![h] = after],
         Handles(after, activeGen),
         \/ after.caller = Nobody
         \/ after.caller = handler[h].caller /\ after.job = HJob(h),
         FileTyped', UNCHANGED <<row, activeGen, worker, poll>>
  PROVE  ChainInv' /\ QueueStep
  <1>1. handler \in [Handler -> Handling] /\ RowsTyped /\ activeGen \in 0 .. MaxGen
    BY DEF ChainInv, HandlersTyped
  <1>2. handler'[h] = after /\ \A k \in Handler \ {h} : handler'[k] = handler[k]
    BY <1>1
  <1>3. HandlersTyped'
    BY <1>1, <1>2 DEF ChainInv, HandlersTyped
  <1>4. Callers'
    BY <1>2 DEF ChainInv, Callers, At, My, HJob
  <1>5. RowsTyped' /\ WorkersTyped' /\ PollTyped' /\ activeGen' \in 0 .. MaxGen
    BY <1>1, RowsKeep DEF ChainInv, PollTyped, WorkersTyped
  <1>6. view' = view
    BY DEF view
  <1>7. QED
    BY <1>3, <1>4, <1>5, <1>6, QueueStays DEF ChainInv

LEMMA NoHandlerHandles == NoHandler \in Handling /\ \A g : Handles(NoHandler, g)
  BY Contents DEF NoHandler, Handling, Handles

LEMMA Replies ==
  ASSUME ChainInv, NEW h \in Handler, NEW outcome \in Outcome, NEW missing \in SUBSET Substage,
         Reply(h, outcome, missing), outcome = "missing" => HStage(h) = Reducer,
         FileTyped', UNCHANGED <<row, activeGen, poll>>
  PROVE  ChainInv' /\ QueueStep
  <1>1. handler' = [handler EXCEPT ![h] = NoHandler] /\ NoHandler.caller = Nobody
    BY DEF Reply, NoHandler
  <1>2. CASE handler[h].caller = Nobody
    <2>1. UNCHANGED worker
      BY <1>2 DEF Reply
    <2>2. QED
      BY <1>1, <2>1, NoHandlerHandles, HandlerMoves
  <1>3. CASE handler[h].caller # Nobody
    <2> DEFINE i   == handler[h].caller
               new == [worker[i] EXCEPT !.pc = "replied", !.outcome = outcome, !.missing = missing]
    <2>1. i \in Invocation /\ My(i) = HJob(h) /\ worker[i] \in Worker
      BY <1>3 DEF ChainInv, HandlersTyped, Handling, Callers, WorkersTyped
    <2>2. worker' = [worker EXCEPT ![i] = new]
      BY <1>3 DEF Reply
    <2>3. /\ new \in Worker /\ new.pc = "replied" /\ new.job = My(i)
          /\ new.target = worker[i].target /\ new.outcome = outcome
      BY <2>1 DEF Worker, HoldPc, My
    <2> HIDE DEF new
    <2>4. outcome = "missing" => StageOf(My(i)) = Reducer
      BY <2>1 DEF HStage
    <2>5. QED
      BY <1>1, <2>1, <2>2, <2>3, <2>4, NoHandlerHandles, Answered
  <1>4. QED
    BY <1>2, <1>3

LEMMA LoseSteps ==
  ASSUME ChainInv, NEW i \in Invocation, NEW h \in Handler, NEW outcome \in {"resource", "error"},
         LoseCall(i, h, outcome)
  PROVE  ChainInv' /\ QueueStep
  <1> DEFINE new   == [worker[i] EXCEPT !.pc = "replied", !.outcome = outcome]
             after == [handler[h] EXCEPT !.caller = Nobody]
  <1>1. /\ UNCHANGED <<row, activeGen, fileVars, poll>>
        /\ handler[h].caller = i
    BY DEF LoseCall
  <1>2. /\ worker \in [Invocation -> Worker] /\ handler \in [Handler -> Handling] /\ FileTyped
        /\ Handles(handler[h], activeGen) /\ handler[h].pc # "idle"
    BY DEF ChainInv, WorkersTyped, HandlersTyped, LoseCall
  <1>3. worker' = [worker EXCEPT ![i] = new] /\ handler' = [handler EXCEPT ![h] = after]
    BY <1>2 DEF LoseCall
  <1>4. /\ new \in Worker /\ new.pc = "replied" /\ new.job = My(i)
        /\ new.target = worker[i].target /\ new.outcome # "missing"
    BY <1>2 DEF Worker, HoldPc, My, Outcome
  <1>5. after \in Handling /\ after.caller = Nobody /\ after.pc = handler[h].pc /\ after.job = HJob(h)
    BY <1>2 DEF Handling, HJob
  <1> HIDE DEF new, after
  <1>6. Handles(after, activeGen)
    BY <1>2, <1>5 DEF Handles, HJob
  <1>7. FileTyped'
    BY <1>1, <1>2, FileKeeps
  <1>8. QED
    BY <1>1, <1>3, <1>4, <1>5, <1>6, <1>7, Answered

LEMMA DieSteps ==
  ASSUME ChainInv, NEW i \in Invocation, Die(i)
  PROVE  ChainInv' /\ QueueStep
  <1>1. /\ UNCHANGED <<row, activeGen, fileVars, poll>>
        /\ worker' = [worker EXCEPT ![i] = NoWorker] /\ worker[i].pc # "idle"
        /\ handler' = [h \in Handler |-> IF handler[h].caller = i
                                           THEN [handler[h] EXCEPT !.caller = Nobody] ELSE handler[h]]
    BY DEF Die, Return, At
  <1>2. /\ worker \in [Invocation -> Worker] /\ handler \in [Handler -> Handling]
        /\ FileTyped /\ RowsTyped /\ activeGen \in 0 .. MaxGen
    BY DEF ChainInv, WorkersTyped, HandlersTyped
  <1>3. WorkersTyped'
    BY <1>1, <1>2, NoWorkerFits DEF ChainInv, WorkersTyped
  <1>4. ASSUME NEW h \in Handler
        PROVE  /\ handler'[h] \in Handling /\ Handles(handler'[h], activeGen)
               /\ handler'[h].job = handler[h].job
               /\ handler'[h].caller = IF handler[h].caller = i THEN Nobody ELSE handler[h].caller
    <2>1. handler[h] \in Handling /\ Handles(handler[h], activeGen)
      BY <1>2 DEF ChainInv, HandlersTyped
    <2>2. CASE handler[h].caller # i
      BY <1>1, <2>1, <2>2
    <2>3. CASE handler[h].caller = i
      <3> DEFINE after == [handler[h] EXCEPT !.caller = Nobody]
      <3>1. /\ after \in Handling /\ after.caller = Nobody
            /\ after.pc = handler[h].pc /\ after.job = handler[h].job
        BY <2>1 DEF Handling
      <3>2. handler'[h] = after
        BY <1>1, <2>3
      <3>3. i # Nobody
        BY ChainAssumption
      <3>4. handler[h].pc # "idle"
        BY <2>1, <2>3, <3>3 DEF Handles, NoHandler
      <3> HIDE DEF after
      <3>5. Handles(after, activeGen)
        BY <2>1, <3>1, <3>4 DEF Handles
      <3>6. QED
        BY <2>3, <3>1, <3>2, <3>5
    <2>4. QED
      BY <2>2, <2>3
  <1>5. HandlersTyped'
    <2>1. handler' \in [Handler -> Handling]
      BY <1>1, <1>4
    <2>2. QED
      BY <1>1, <1>4, <2>1 DEF HandlersTyped
  <1>6. Callers'
    <2>1. \A h \in Handler : handler[h].caller # Nobody => handler[h].caller \in Invocation
      BY DEF ChainInv, HandlersTyped, Handling
    <2>2. \A k \in Invocation \ {i} : worker'[k] = worker[k]
      BY <1>1, <1>2
    <2>3. QED
      BY <1>4, <2>1, <2>2 DEF ChainInv, Callers, At, My, HJob
  <1>7. RowsTyped' /\ FileTyped' /\ PollTyped' /\ activeGen' \in 0 .. MaxGen
    BY <1>1, <1>2, RowsKeep, FileKeeps DEF ChainInv, PollTyped
  <1>8. view' = [view EXCEPT ![i] = NoView]
    BY <1>1, <1>2, ViewUpdated, ViewIdle
  <1>9. QueueStep
    <2>1. CASE worker[i].pc \in TailPc
      <3>1. view[i] = NoView
        BY <2>1, Views, ViewAt
      <3>2. view' = view
        BY <1>8, <3>1, ViewIs
      <3>3. QED
        BY <1>1, <3>2, QueueStays
    <2>2. CASE worker[i].pc \notin TailPc
      <3>1. worker[i].pc \in HoldPc \cup {"stale", "exhausted", "stopping", "claiming", "requeuing"}
        BY <1>1, <1>2, <2>2 DEF Worker
      <3>2. view[i].pc # "idle"
        BY <1>1, <3>1, Views, ViewAt
      <3>3. QED
        BY <1>1, <1>8, <3>2, QueueDies
    <2>3. QED
      BY <2>1, <2>2
  <1>10. QED
    BY <1>3, <1>5, <1>6, <1>7, <1>9 DEF ChainInv

LEMMA HandlerSteps ==
  ASSUME ChainInv, NEW h \in Handler,
         \/ PreFence(h) \/ Read(h) \/ PostFence(h) \/ Persist(h) \/ FinalizeChain(h)
         \/ \E outcome \in {"resource", "error"} : ComputeFails(h, outcome)
  PROVE  ChainInv' /\ QueueStep
  <1>1. /\ UNCHANGED <<row, activeGen, poll>>
        /\ handler[h].pc # "idle"
    BY DEF PreFence, Read, PostFence, Persist, FinalizeChain, ComputeFails
  <1>2. /\ handler \in [Handler -> Handling] /\ FileTyped
        /\ handler[h] \in Handling /\ Handles(handler[h], activeGen)
        /\ HJob(h) \in Job /\ GenOf(HJob(h)) <= activeGen /\ StageOf(HJob(h)) \in Bounded
    BY <1>1 DEF ChainInv, HandlersTyped, Handles, HJob
  <1>3. ASSUME NEW pc \in {"read", "write", "finalize"}, HGoto(h, pc), UNCHANGED worker, FileTyped'
        PROVE  ChainInv' /\ QueueStep
    <2> DEFINE after == [handler[h] EXCEPT !.pc = pc]
    <2>1. handler' = [handler EXCEPT ![h] = after]
      BY <1>2, <1>3 DEF HGoto
    <2>2. /\ after \in Handling /\ after.pc = pc /\ after.job = HJob(h)
          /\ after.caller = handler[h].caller
      BY <1>2 DEF Handling, HJob
    <2> HIDE DEF after
    <2>3. Handles(after, activeGen)
      BY <1>2, <2>2 DEF Handles
    <2>4. QED
      BY <1>1, <1>3, <2>1, <2>2, <2>3, HandlerMoves
  <1>4. ASSUME NEW outcome \in {"ok", "error", "resource"}, Reply(h, outcome, {}), FileTyped'
        PROVE  ChainInv' /\ QueueStep
    BY <1>1, <1>4, Replies DEF Outcome
  <1>5. CASE PreFence(h)
    <2>1. FileTyped'
      BY <1>2, <1>5, FileKeeps DEF PreFence
    <2>2. QED
      BY <1>3, <1>4, <1>5, <2>1 DEF PreFence
  <1>6. CASE Read(h)
    <2> DEFINE missing == {s \in Needs[HStage(h)] : content.output.result[s] = 0}
               after   == [handler[h] EXCEPT !.pc = "compute", !.seen.output = content.output]
    <2>1. FileTyped'
      BY <1>2, <1>6, FileKeeps DEF Read
    <2>2. CASE Reply(h, "error", {}) \/ Reply(h, "ok", {})
      BY <1>4, <2>1, <2>2
    <2>3. CASE Reply(h, "missing", missing) /\ HStage(h) = Reducer
      <3>1. missing \in SUBSET Substage
        BY <2>3, ChainAssumption
      <3>2. "missing" \in Outcome
        BY DEF Outcome
      <3> HIDE DEF missing
      <3>3. QED
        BY <1>1, <2>1, <2>3, <3>1, <3>2, Replies
    <2>4. CASE handler' = [handler EXCEPT ![h].pc = "compute", ![h].seen.output = content.output]
               /\ UNCHANGED worker
      <3>1. handler' = [handler EXCEPT ![h] = after]
        BY <1>2, <2>4
      <3>2. [handler[h].seen EXCEPT !.output = content.output] \in Content
        BY <1>2, Contents DEF Handling, FileTyped
      <3>3. /\ after \in Handling /\ after.pc = "compute" /\ after.job = HJob(h)
            /\ after.caller = handler[h].caller
        BY <1>2, <3>2 DEF Handling, HJob
      <3> HIDE DEF after
      <3>4. Handles(after, activeGen)
        BY <1>2, <3>3 DEF Handles
      <3>5. QED
        BY <1>1, <2>1, <2>4, <3>1, <3>3, <3>4, HandlerMoves
    <2>5. QED
      BY <1>6, <2>2, <2>3, <2>4 DEF Read
  <1>7. CASE PostFence(h)
    <2>1. FileTyped'
      BY <1>2, <1>7, FileKeeps DEF PostFence
    <2>2. QED
      BY <1>3, <1>4, <1>7, <2>1 DEF PostFence
  <1>8. CASE Persist(h)
    <2>1. Merged(handler[h].seen.output, HJob(h)) \in Output
      BY <1>2, Contents DEF Handling
    <2>2. [kind |-> "enriched", gen |-> HGen(h)] \in Payload
      BY <1>2, Jobs, BoundAssumption DEF Payload, HGen
    <2>3. content.payload \in Payload
      BY <1>2, Contents DEF FileTyped
    <2>4. content' \in Content
      BY <1>8, <2>1, <2>2, <2>3, Contents DEF Persist
    <2>5. FileTyped'
      BY <1>2, <1>8, <2>4 DEF Persist, FileTyped
    <2>6. QED
      BY <1>3, <1>4, <1>8, <2>5 DEF Persist
  <1>9. CASE FinalizeChain(h)
    <2>1. readiness' \in {"pending", "ready", "failed"}
      BY <1>2, <1>9, Finalized DEF FinalizeChain, FileTyped
    <2>2. FileTyped'
      BY <1>2, <1>9, <2>1 DEF FinalizeChain, FileTyped
    <2>3. QED
      BY <1>4, <1>9, <2>2 DEF FinalizeChain
  <1>10. CASE \E outcome \in {"resource", "error"} : ComputeFails(h, outcome)
    <2>1. FileTyped'
      BY <1>2, <1>10, FileKeeps DEF ComputeFails
    <2>2. QED
      BY <1>4, <1>10, <2>1 DEF ComputeFails
  <1>11. QED
    BY <1>5, <1>6, <1>7, <1>8, <1>9, <1>10

-----------------------------------------------------------------------------
(* The poll, time and the user *)

\* Only rows, the file or the poll change.
LEMMA InvocationsKeep ==
  ASSUME ChainInv, UNCHANGED <<activeGen, worker, handler>>
  PROVE  /\ WorkersTyped' /\ HandlersTyped' /\ Callers' /\ activeGen' \in 0 .. MaxGen
         /\ view' = view
  BY DEF ChainInv, WorkersTyped, HandlersTyped, Callers, At, My, HJob, view

\* A set of naturals has a least element: there is no infinite descent.
LEMMA Least ==
  ASSUME NEW S, S \subseteq Nat, S # {}
  PROVE  \E k \in S : \A l \in S : k <= l
  <1> DEFINE Less == {p \in Nat \X Nat : p[1] < p[2]}
  <1>1. IsWellFoundedOn(Less, Nat)
    BY NatLessThanWellFounded DEF OpToRel
  <1>2. \E k \in S : \A l \in S : <<l, k>> \notin Less
    <2> HIDE DEF Less
    <2>1. QED
      BY <1>1, WFMin
  <1>3. \A k, l \in S : <<l, k>> \notin Less => k <= l
    OBVIOUS
  <1>4. QED
    BY <1>2, <1>3

\* The first hole of the chain is a stage of it, after stages that have their
\* results.
LEMMA FirstHole ==
  ASSUME NEW output, NEW g, Unresolved(output, g) # {}
  PROVE  LET holes == Unresolved(output, g)
             first == CHOOSE k \in holes : \A l \in holes : k <= l
         IN  /\ first \in DOMAIN Chain /\ Chain[first] \in Bounded
             /\ \A l \in DOMAIN Chain : l < first => output.result[Chain[l]] = g
  <1> DEFINE holes == Unresolved(output, g)
  <1>1. holes \subseteq DOMAIN Chain /\ DOMAIN Chain \subseteq Nat
    BY ChainAssumption DEF Unresolved
  <1>2. \E k \in holes : \A l \in holes : k <= l
    <2>1. holes \subseteq Nat /\ holes # {}
      BY <1>1
    <2> HIDE DEF holes
    <2>2. QED
      BY <2>1, Least
  <1> DEFINE first == CHOOSE k \in holes : \A l \in holes : k <= l
  <1>3. first \in holes /\ \A l \in holes : first <= l
    BY <1>2
  <1> HIDE DEF first
  <1>4. first \in DOMAIN Chain /\ Chain[first] \in Bounded
    BY <1>1, <1>3, Stages
  <1>5. ASSUME NEW l \in DOMAIN Chain, l < first PROVE output.result[Chain[l]] = g
    BY <1>1, <1>3, <1>5 DEF Unresolved
  <1>6. QED
    BY <1>4, <1>5 DEF first

LEMMA PollSteps ==
  ASSUME ChainInv, PollStep
  PROVE  ChainInv' /\ QueueStep
  <1>1. UNCHANGED <<activeGen, worker, handler>>
    BY DEF PollStep, PollRead, PollQuery, PollResume
  <1>2. /\ WorkersTyped' /\ HandlersTyped' /\ Callers' /\ activeGen' \in 0 .. MaxGen
        /\ view' = view
    BY <1>1, InvocationsKeep
  <1>3. /\ activeGen \in 0 .. MaxGen /\ FileTyped /\ RowsTyped /\ PollTyped /\ poll \in Poll
    BY DEF ChainInv, PollTyped
  <1>4. NoPoll \in Poll /\ NoPoll.pc = "idle"
    BY Contents, BoundAssumption DEF NoPoll, Poll
  <1>5. CASE PollRead
    <2>1. content.output \in Output
      BY <1>3, Contents DEF FileTyped
    <2>2. PollTyped'
      BY <1>1, <1>3, <1>5, <2>1, BoundAssumption DEF PollRead, PollTyped, Poll
    <2>3. RowsTyped' /\ FileTyped' /\ UNCHANGED row
      BY <1>1, <1>3, <1>5, RowsKeep, FileKeeps DEF PollRead
    <2>4. QED
      BY <1>1, <1>2, <2>2, <2>3, QueueStays DEF ChainInv
  <1>6. CASE PollQuery
    <2>1. poll' = NoPoll \/ poll' = [poll EXCEPT !.pc = "resume"]
      BY <1>6 DEF PollQuery
    <2>2. poll.pc = "read"
      BY <1>6 DEF PollQuery
    <2>3. PollTyped'
      BY <1>1, <1>3, <1>4, <2>1, <2>2 DEF PollTyped, Poll
    <2>4. RowsTyped' /\ FileTyped' /\ UNCHANGED row
      BY <1>1, <1>3, <1>6, RowsKeep, FileKeeps DEF PollQuery
    <2>5. QED
      BY <1>1, <1>2, <2>3, <2>4, QueueStays DEF ChainInv
  <1>7. CASE PollResume
    <2> DEFINE holes == Unresolved(poll.output, poll.gen)
               s     == Chain[CHOOSE k \in holes : \A l \in holes : k <= l]
    <2>1. PollTyped' /\ activeGen \in 1 .. MaxGen
      BY <1>1, <1>3, <1>4, <1>7, BoundAssumption DEF PollResume, PollTyped
    <2>2. CASE holes = {}
      <3>1. Finalize(poll.gen) /\ UNCHANGED row
        BY <1>7, <2>2 DEF PollResume
      <3>2. readiness' \in {"pending", "ready", "failed"}
        BY <1>3, <3>1, Finalized DEF FileTyped
      <3>3. FileTyped' /\ RowsTyped'
        BY <1>1, <1>3, <1>7, <3>1, <3>2, RowsKeep DEF PollResume, FileTyped
      <3>4. QED
        BY <1>1, <1>2, <2>1, <3>1, <3>3, QueueStays DEF ChainInv
    <2>3. CASE holes # {}
      <3>1. row' = Enqueued(row, activeGen, s) /\ UNCHANGED fileVars
        BY <1>7, <2>3 DEF PollResume, fileVars
      <3>2. s \in Bounded
        BY <2>3, FirstHole
      <3>3. s \in Stage
        BY <3>2, Stages
      <3> HIDE DEF s, holes
      <3>4. RowsTyped' /\ FileTyped'
        BY <1>1, <1>3, <2>1, <3>1, <3>3, RowEnqueued, FileKeeps
      <3>5. QueueStep
        BY <1>1, <1>2, <2>1, <3>1, <3>2, QueueEnqueues
      <3>6. QED
        BY <1>2, <2>1, <3>4, <3>5 DEF ChainInv
    <2>4. QED
      BY <2>2, <2>3
  <1>8. QED
    BY <1>5, <1>6, <1>7 DEF PollStep

LEMMA TimeSteps ==
  ASSUME ChainInv, NEW j \in Job, DelayElapses(j) \/ GoStale(j)
  PROVE  ChainInv' /\ QueueStep
  <1>1. UNCHANGED <<activeGen, fileVars, worker, handler, poll>>
    BY DEF DelayElapses, GoStale
  <1>2. /\ WorkersTyped' /\ HandlersTyped' /\ Callers' /\ activeGen' \in 0 .. MaxGen
        /\ view' = view
    BY <1>1, InvocationsKeep
  <1>3. /\ activeGen \in 0 .. MaxGen /\ FileTyped /\ RowsTyped /\ PollTyped
        /\ row \in [Job -> Row] /\ row[j] \in Row
    BY DEF ChainInv, RowsTyped
  <1>4. FileTyped' /\ PollTyped'
    BY <1>1, <1>3, FileKeeps DEF PollTyped
  <1>5. RowsTyped'
    <2>1. CASE DelayElapses(j)
      <3>1. row' = [row EXCEPT ![j] = [row[j] EXCEPT !.delayed = FALSE]]
        BY <1>3, <2>1 DEF DelayElapses
      <3>2. /\ [row[j] EXCEPT !.delayed = FALSE] \in Row
            /\ [row[j] EXCEPT !.delayed = FALSE].status = row[j].status
        BY <1>3 DEF Row
      <3>3. QED
        BY <1>1, <1>3, <3>1, <3>2 DEF RowsTyped
    <2>2. CASE GoStale(j)
      <3>1. row' = [row EXCEPT ![j] = [row[j] EXCEPT !.stale = TRUE]]
        BY <1>3, <2>2 DEF GoStale
      <3>2. /\ [row[j] EXCEPT !.stale = TRUE] \in Row
            /\ [row[j] EXCEPT !.stale = TRUE].status = row[j].status
        BY <1>3 DEF Row
      <3>3. QED
        BY <1>1, <1>3, <3>1, <3>2 DEF RowsTyped
    <2>3. QED
      BY <2>1, <2>2
  <1>6. QueueStep
    <2>1. CASE DelayElapses(j)
      <3>1. Queue!DelayElapses(j)
        BY <1>1, <1>2, <2>1 DEF DelayElapses, Queue!DelayElapses, view
      <3>2. QED
        BY <3>1 DEF QueueStep, Queue!Next, Queue!Job, Job, Queue!Gen, Gen
    <2>2. CASE GoStale(j)
      <3>1. ASSUME NEW i \in Invocation, view[i].job = j, view[i].pc \in Queue!Holding
            PROVE  FALSE
        <4>1. worker[i] \in Worker /\ Fits(worker[i], activeGen)
          BY AtWork
        <4>2. CASE worker[i].pc \in TailPc \cup {"idle", "exhausted", "stopping", "claiming"}
          <5>1. view[i].pc \in {"idle", "exhausted", "stopping", "claiming"}
            BY <4>2, Views, ViewAt DEF NoView
          <5>2. QED
            BY <3>1, <5>1 DEF Queue!Holding
        <4>3. CASE worker[i].pc \in HoldPc \cup {"stale", "requeuing"}
          <5>1. view[i].job = My(i)
            BY <4>3, Views, ViewAt DEF My
          <5>2. worker[i].pc \in {"idle", "exhausted", "stopping", "claiming"} \cup TailPc
            BY <2>2, <3>1, <5>1 DEF GoStale
          <5>3. QED
            BY <4>3, <5>2 DEF HoldPc, TailPc
        <4>4. QED
          BY <4>1, <4>2, <4>3 DEF Worker
      <3>2. ~Queue!Held(j)
        BY <3>1 DEF Queue!Held, Queue!Holds, view
      <3>3. Queue!GoStale(j)
        BY <1>1, <1>2, <2>2, <3>2 DEF GoStale, Queue!GoStale, view
      <3>4. QED
        BY <3>3 DEF QueueStep, Queue!Next, Queue!Job, Job, Queue!Gen, Gen
    <2>3. QED
      BY <2>1, <2>2
  <1>7. QED
    BY <1>2, <1>4, <1>5, <1>6 DEF ChainInv

\* A new generation retires the rows of the older ones.
LEMMA StartSteps ==
  ASSUME ChainInv, StartGeneration
  PROVE  ChainInv' /\ QueueStep
  <1> DEFINE g == activeGen + 1
             j0 == <<g, ExtractStage>>
  <1>1. /\ activeGen \in 0 .. MaxGen /\ FileTyped /\ RowsTyped /\ PollTyped
        /\ g \in 1 .. MaxGen /\ activeGen' = g
    BY BoundAssumption DEF ChainInv, StartGeneration
  <1>2. /\ UNCHANGED <<content, worker, handler, poll>>
        /\ row' = [j \in Job |-> IF j = j0 THEN NewRow ELSE Retire(row[j])]
    BY DEF StartGeneration
  <1>3. GenOf(j0) = g /\ j0 \in Job
    BY <1>1, Jobs, StageAssumption
  <1>4. RowsTyped'
    <2>1. \A j \in Job : row[j] \in Row /\ GenOf(j) \in Nat
      BY <1>1, Jobs, BoundAssumption DEF RowsTyped
    <2>2. row' \in [Job -> Row]
      BY <1>2, <2>1, Rows
    <2>3. ASSUME NEW j \in Job, GenOf(j) > g PROVE row'[j].status = "absent"
      <3>1. j # j0 /\ GenOf(j) > activeGen
        BY <1>1, <1>3, <2>1, <2>3
      <3>2. row[j].status = "absent"
        BY <1>1, <3>1 DEF RowsTyped
      <3>3. QED
        BY <1>2, <2>1, <3>1, <3>2, Rows
    <2>4. QED
      BY <1>1, <2>2, <2>3 DEF RowsTyped
  <1>5. FileTyped'
    BY <1>1, <1>2 DEF StartGeneration, FileTyped, FileStatus
  <1>6. WorkersTyped'
    <2>1. ASSUME NEW i \in Invocation PROVE Fits(worker[i], g)
      <3>1. Fits(worker[i], activeGen)
        BY DEF ChainInv, WorkersTyped
      <3>2. worker[i].pc # "idle" => worker[i].job \in Job /\ GenOf(worker[i].job) <= g
        BY <1>1, <3>1, Jobs, BoundAssumption DEF Fits
      <3>3. QED
        BY <3>1, <3>2 DEF Fits
    <2>2. QED
      BY <1>1, <1>2, <2>1 DEF ChainInv, WorkersTyped
  <1>7. HandlersTyped'
    <2>1. ASSUME NEW h \in Handler PROVE Handles(handler[h], g)
      <3>1. Handles(handler[h], activeGen)
        BY DEF ChainInv, HandlersTyped
      <3>2. handler[h].pc # "idle" => handler[h].job \in Job /\ GenOf(handler[h].job) <= g
        BY <1>1, <3>1, Jobs, BoundAssumption DEF Handles
      <3>3. QED
        BY <3>1, <3>2 DEF Handles
    <2>2. QED
      BY <1>1, <1>2, <2>1 DEF ChainInv, HandlersTyped
  <1>8. Callers' /\ PollTyped' /\ activeGen' \in 0 .. MaxGen /\ view' = view
    BY <1>1, <1>2, BoundAssumption DEF ChainInv, Callers, At, My, HJob, PollTyped, view
  <1>9. Queue!StartGeneration
    BY <1>2, <1>8 DEF StartGeneration, Queue!StartGeneration, Queue!Job, Job, Queue!Gen, Gen,
                      Queue!NewRow, NewRow, Queue!NoRow, NoRow, Queue!Retire, Retire,
                      Queue!WithStatus, WithStatus, view
  <1>10. QED
    BY <1>4, <1>5, <1>6, <1>7, <1>8, <1>9 DEF ChainInv, QueueStep, Queue!Next

LEMMA CancelSteps ==
  ASSUME ChainInv, RequestCancel
  PROVE  ChainInv' /\ QueueStep
  <1>1. /\ UNCHANGED <<activeGen, fileVars, worker, handler, poll>>
        /\ row' = [j \in Job |-> IF row[j].status \in {"queued", "running"}
                                   THEN [row[j] EXCEPT !.cancel = TRUE] ELSE row[j]]
    BY DEF RequestCancel
  <1>2. /\ WorkersTyped' /\ HandlersTyped' /\ Callers' /\ activeGen' \in 0 .. MaxGen
        /\ view' = view
    BY <1>1, InvocationsKeep
  <1>3. FileTyped' /\ PollTyped'
    BY <1>1, FileKeeps DEF ChainInv, PollTyped
  <1>4. RowsTyped'
    <2>1. ASSUME NEW j \in Job PROVE row'[j] \in Row /\ row'[j].status = row[j].status
      <3>1. row[j] \in Row
        BY DEF ChainInv, RowsTyped
      <3>2. [row[j] EXCEPT !.cancel = TRUE] \in Row /\ [row[j] EXCEPT !.cancel = TRUE].status = row[j].status
        BY <3>1 DEF Row
      <3>3. QED
        BY <1>1, <3>1, <3>2
    <2>2. QED
      BY <1>1, <2>1 DEF ChainInv, RowsTyped
  <1>5. Queue!RequestCancel
    BY <1>1, <1>2 DEF Queue!RequestCancel, Queue!Job, Job, Queue!Gen, Gen, view
  <1>6. QED
    BY <1>2, <1>3, <1>4, <1>5 DEF ChainInv, QueueStep, Queue!Next

-----------------------------------------------------------------------------
(* Theorems *)

LEMMA NextChain == ChainInv /\ [Next]_vars => ChainInv' /\ QueueStep
  <1> SUFFICES ASSUME ChainInv, [Next]_vars PROVE ChainInv' /\ QueueStep
    OBVIOUS
  <1>1. CASE UNCHANGED vars
    <2>1. UNCHANGED <<row, activeGen, fileVars, worker, handler, poll>>
      BY <1>1 DEF vars
    <2>2. RowsTyped' /\ FileTyped' /\ PollTyped'
      BY <2>1, RowsKeep, FileKeeps DEF ChainInv, PollTyped
    <2>3. QED
      BY <2>1, <2>2, InvocationsKeep, QueueStays DEF ChainInv
  <1>2. CASE StartGeneration
    BY <1>2, StartSteps
  <1>3. CASE RequestCancel
    BY <1>3, CancelSteps
  <1>4. ASSUME NEW i \in Invocation,
               \/ \E j \in Job : Load(i, j)
               \/ FailUnreadable(i)
               \/ \E h \in Handler, outcome \in {"resource", "error"} : LoseCall(i, h, outcome)
               \/ Die(i)
               \/ WorkerProceeds(i)
        PROVE  ChainInv' /\ QueueStep
    <2>1. CASE FailUnreadable(i)
      BY <2>1, SettlingSteps
    <2>2. CASE WorkerProceeds(i)
      BY <2>2, SettlingSteps, RequeueSteps, WorkingSteps, WindingUpSteps, EnqueuingSteps,
         ClaimSteps, CallSteps, RequeueReads, RequeueWrites DEF WorkerProceeds
    <2>3. QED
      BY <1>4, <2>1, <2>2, LoadSteps, LoseSteps, DieSteps
  <1>5. ASSUME NEW h \in Handler,
               \/ \E outcome \in {"resource", "error"} : ComputeFails(h, outcome)
               \/ HandlerProceeds(h)
        PROVE  ChainInv' /\ QueueStep
    BY <1>5, HandlerSteps DEF HandlerProceeds
  <1>6. CASE PollStep
    BY <1>6, PollSteps
  <1>7. ASSUME NEW j \in Job, DelayElapses(j) \/ GoStale(j)
        PROVE  ChainInv' /\ QueueStep
    BY <1>7, TimeSteps
  <1>8. QED
    BY <1>1, <1>2, <1>3, <1>4, <1>5, <1>6, <1>7 DEF Next

LEMMA InitChain == Init => ChainInv /\ Queue!Init
  <1> SUFFICES ASSUME Init PROVE ChainInv /\ Queue!Init
    OBVIOUS
  <1>1. activeGen \in 0 .. MaxGen /\ FileTyped
    BY Contents, BoundAssumption DEF Init, FileTyped, FileStatus
  <1>2. RowsTyped
    BY Rows DEF Init, RowsTyped
  <1>3. PollTyped
    BY Contents, BoundAssumption DEF Init, PollTyped, NoPoll, Poll
  <1>4. WorkersTyped
    BY NoWorkerFits DEF Init, WorkersTyped
  <1>5. HandlersTyped
    BY NoHandlerHandles DEF Init, HandlersTyped
  <1>6. Callers
    BY DEF Init, Callers, NoHandler
  <1>7. Queue!Init
    <2>1. view = [i \in Invocation |-> NoView]
      BY ViewIdle DEF Init, view
    <2>2. QED
      BY <2>1 DEF Init, Queue!Init, Queue!Job, Job, Queue!Gen, Gen, Queue!NoRow, NoRow,
                  Queue!Idle, Queue!NoJob, NoJob, NoView, view
  <1>8. QED
    BY <1>1, <1>2, <1>3, <1>4, <1>5, <1>6, <1>7 DEF ChainInv

LEMMA ChainInvHolds == Spec => []ChainInv
  <1>1. Init => ChainInv
    BY InitChain
  <1>2. ChainInv /\ [Next]_vars => ChainInv'
    BY NextChain
  <1>3. QED
    BY <1>1, <1>2, PTL DEF Spec

\* All state has the shape the code gives it, and a caller that is named by a
\* handler waits for it.
THEOREM TypeCorrect == Spec => []TypeOK
  <1>1. ChainInv => TypeOK
    BY DEF ChainInv, TypeOK, FileTyped, RowsTyped, PollTyped, WorkersTyped, HandlersTyped, Callers
  <1>2. QED
    BY <1>1, ChainInvHolds, PTL

\* Whatever workers, handlers and polls do in between, the rows, the generation
\* and the invocations change only as PipelineQueue allows.
THEOREM ImplementsQueue == Spec => UsesQueue
  <1>1. Init => Queue!Init
    BY InitChain
  <1>2. ChainInv /\ [Next]_vars => [Queue!Next]_(Queue!vars)
    BY NextChain DEF QueueStep
  <1>3. QED
    BY <1>1, <1>2, ChainInvHolds, PTL DEF Spec, UsesQueue, Queue!Spec

QP == INSTANCE PipelineQueue_proofs WITH inv <- [i \in Invocation |-> QueueView(worker[i])]

\* The theorems about the queue speak of the same state machine.
LEMMA SameQueue == UsesQueue => QP!Spec
  <1>1. Queue!Init => QP!Init
    BY DEF Queue!Init, QP!Init, Queue!Job, QP!Job, Queue!Gen, QP!Gen, Queue!NoRow, QP!NoRow,
           Queue!Idle, QP!Idle, Queue!NoJob, QP!NoJob
  <1>2. [Queue!Next]_(Queue!vars) => [QP!Next]_(QP!vars)
    BY DEF Queue!Next, QP!Next, Queue!vars, QP!vars, Queue!StartGeneration,
           QP!StartGeneration, Queue!Enqueue, QP!Enqueue, Queue!RequestCancel,
           QP!RequestCancel, Queue!WorkerStep, QP!WorkerStep, Queue!Load, QP!Load,
           Queue!FailExhausted, QP!FailExhausted, Queue!FailUnreadable,
           QP!FailUnreadable, Queue!StopBeforeClaim, QP!StopBeforeClaim, Queue!Claim,
           QP!Claim, Queue!AdvanceToNormalize, QP!AdvanceToNormalize, Queue!Finish,
           QP!Finish, Queue!Requeue, QP!Requeue, Queue!RequeueMissingRead,
           QP!RequeueMissingRead, Queue!RequeueMissingWrite, QP!RequeueMissingWrite,
           Queue!Die, QP!Die, Queue!DelayElapses, QP!DelayElapses, Queue!GoStale,
           QP!GoStale, Queue!Return, QP!Return, Queue!Write, QP!Write, Queue!Held,
           QP!Held, Queue!Holds, QP!Holds, Queue!Holding, QP!Holding, Queue!Idle,
           QP!Idle, Queue!Job, QP!Job, Queue!Gen, QP!Gen, Queue!GenOf, QP!GenOf,
           Queue!StageOf, QP!StageOf, Queue!TerminalStatus, QP!TerminalStatus,
           Queue!NoRow, QP!NoRow, Queue!NewRow, QP!NewRow, Queue!NoJob, QP!NoJob,
           Queue!WithStatus, QP!WithStatus, Queue!Retire, QP!Retire, Queue!Claimable,
           QP!Claimable, Queue!Claimed, QP!Claimed, Queue!Enqueued, QP!Enqueued
  <1>3. QED
    BY <1>1, <1>2, PTL DEF UsesQueue, Queue!Spec, QP!Spec

\* A worker that holds its job: from its claim until it settles or requeues the
\* row or dies, the calls of the handler and all repairs included.
HoldsRow(i, j) == worker[i].pc \in HoldPc \cup {"stale", "requeuing"} /\ worker[i].job = j

\* Two workers of the chain never run the same stage of the same generation:
\* not with duplicate dispatches, lost calls, dead workers, polls that resume
\* or a reducer that puts sub-stages back.
THEOREM OneWorkerPerStage ==
    Spec => [](\A i, k \in Invocation, j \in Job : HoldsRow(i, j) /\ HoldsRow(k, j) => i = k)
  <1>1. QP!Spec => []QP!ClaimExclusive
    BY StageAssumption, BoundAssumption, QP!Exclusive, PTL DEF QP!Exclusive
  <1>2. QP!ClaimExclusive =>
          \A i, k \in Invocation, j \in Job : HoldsRow(i, j) /\ HoldsRow(k, j) => i = k
    <2>1. ASSUME NEW i \in Invocation, NEW j, HoldsRow(i, j)
          PROVE  QP!Holds(i, j)
      <3>1. view[i].pc \in {"working", "requeuing"} /\ view[i].job = j
        BY <2>1, Views, ViewAt DEF HoldsRow
      <3>2. QED
        BY <3>1 DEF QP!Holds, QP!Holding, view
    <2>2. QED
      BY <2>1 DEF QP!ClaimExclusive, QP!Job, Job, QP!Gen, Gen
  <1>3. QED
    BY <1>1, <1>2, ImplementsQueue, SameQueue, PTL

\* The verdict is about the active generation, whoever asks for it.
THEOREM VerdictsAreCurrent == Spec => VerdictIsCurrent
  <1> DEFINE Current ==
        readiness' # readiness =>
          /\ readiness' = "failed" => \E s \in Bounded : row[<<activeGen, s>>].status = "failed"
          /\ readiness' = "ready"  => row[<<activeGen, ExtractStage>>].status = "completed"
  <1>1. ASSUME NEW g, Finalize(g) PROVE Current
    BY <1>1 DEF Finalize, Verdict
  <1>2. [Next]_vars => [Current]_vars
    <2> SUFFICES ASSUME [Next]_vars PROVE Current
      OBVIOUS
    <2>1. CASE UNCHANGED vars
      BY <2>1 DEF vars, fileVars
    <2>2. CASE StartGeneration
      BY <2>2 DEF StartGeneration
    <2>3. CASE \E i \in Invocation : FinalizeFailed(i)
      BY <1>1, <2>3 DEF FinalizeFailed
    <2>4. CASE \E h \in Handler : FinalizeChain(h)
      BY <1>1, <2>4 DEF FinalizeChain
    <2>5. CASE PollResume
      BY <1>1, <2>5 DEF PollResume
    <2>6. CASE UNCHANGED readiness
      BY <2>6
    <2>7. QED
      <3> HIDE DEF Current
      <3>1. ASSUME NEW i \in Invocation, WorkerProceeds(i), ~FinalizeFailed(i)
            PROVE  UNCHANGED readiness
        BY <3>1 DEF fileVars, WorkerProceeds, FailExhausted, FailFile, Stop, CancelFile, Claim,
             BeginNormalize, Publish, EnqueueFirst, FinishExtract, CheckDispatch, RetryExtract,
             FailExtract, Park, Call, Fence, CancelStale, Complete, Advance, DegradeRead,
             DegradeWrite, Fail, NoteRead, NoteWrite, BeginRequeue, RequeueMissingRead,
             RequeueMissingWrite, Revive, Requeue
      <3>2. ASSUME NEW i \in Invocation,
                   \/ \E j \in Job : Load(i, j)
                   \/ FailUnreadable(i)
                   \/ \E h \in Handler, outcome \in {"resource", "error"} : LoseCall(i, h, outcome)
                   \/ Die(i)
            PROVE  UNCHANGED readiness
        BY <3>2 DEF fileVars, Load, FailUnreadable, LoseCall, Die
      <3>3. ASSUME NEW h \in Handler, HandlerProceeds(h), ~FinalizeChain(h)
            PROVE  UNCHANGED readiness
        BY <3>3 DEF fileVars, HandlerProceeds, PreFence, Read, PostFence, Persist
      <3>4. ASSUME NEW h \in Handler, \E outcome \in {"resource", "error"} : ComputeFails(h, outcome)
            PROVE  UNCHANGED readiness
        BY <3>4 DEF fileVars, ComputeFails
      <3>5. RequestCancel \/ PollRead \/ PollQuery => UNCHANGED readiness
        BY DEF fileVars, RequestCancel, PollRead, PollQuery
      <3>6. (\E j \in Job : DelayElapses(j) \/ GoStale(j)) => UNCHANGED readiness
        BY DEF fileVars, DelayElapses, GoStale
      <3>7. QED
        BY <2>1, <2>2, <2>3, <2>4, <2>5, <2>6, <3>1, <3>2, <3>3, <3>4, <3>5, <3>6
           DEF Next, PollStep
  <1>3. QED
    BY <1>2, PTL DEF Spec, VerdictIsCurrent

\* A stage that is out of the queue for good: nobody holds its row and no
\* reducer is about to put it back.
Gone(j) ==
    /\ row[j].status \in {"superseded", "failed", "cancelled"}
    /\ \A i \in Invocation : ~HoldsRow(i, j)
    /\ \A i \in Invocation : worker[i].pc = "requeuing" => worker[i].target # j

LEMMA ViewedRows ==
  ASSUME NEW w
  PROVE  /\ QueueView(w).pc \in {"working", "requeuing"} <=> w.pc \in HoldPc \cup {"stale", "requeuing"}
         /\ QueueView(w).pc = "requeuing" <=> w.pc = "requeuing"
         /\ w.pc \in HoldPc \cup {"stale", "requeuing"} => QueueView(w).job = w.job
         /\ w.pc = "requeuing" => QueueView(w).target = w.target
  BY DEF QueueView, HoldPc, TailPc

LEMMA GoneIsRetired ==
    \A j : (Gone(j) <=> QP!Retired(j)) /\ (Gone(j)' <=> QP!Retired(j)')
  <1>1. ASSUME NEW i \in Invocation, NEW j
        PROVE  /\ HoldsRow(i, j) <=> QP!Holds(i, j)
               /\ HoldsRow(i, j)' <=> QP!Holds(i, j)'
    BY ViewedRows DEF HoldsRow, QP!Holds, QP!Holding
  <1>2. QED
    BY <1>1, ViewedRows DEF Gone, QP!Retired, QP!Held

\* No dispatch, poll, reclaim, requeue or late write of a worker brings back a
\* stage that is out of the queue for good: that of an older generation or one
\* that failed or was cancelled.
THEOREM NoRevivalInChain == Spec => [][\A j \in Job : Gone(j) => Gone(j)']_vars
  <1>1. QP!Spec => QP!RetiredForever
    BY StageAssumption, BoundAssumption, QP!NoRevival, PTL DEF QP!NoRevival
  <1>2. [\A j \in QP!Job : QP!Retired(j) => QP!Retired(j)']_(QP!vars)
          => [\A j \in Job : Gone(j) => Gone(j)']_vars
    <2>1. QP!Job = Job
      BY DEF QP!Job, Job, QP!Gen, Gen
    <2>2. UNCHANGED QP!vars => \A j : QP!Retired(j) <=> QP!Retired(j)'
      BY DEF QP!vars, QP!Retired, QP!Held, QP!Holds, QP!Holding
    <2>3. QED
      BY <2>1, <2>2, GoneIsRetired
  <1>3. QED
    BY <1>1, <1>2, ImplementsQueue, SameQueue, PTL DEF QP!RetiredForever

-----------------------------------------------------------------------------
(* One generation *)

\* A file that is not extracted again, whose upload nobody cancels and none of
\* whose calls is given up while the handler runs on.
OneGeneration == MaxGen = 1 /\ Faults \cap {"orphan", "cancel"} = {}

StageJob(s) == <<1, s>>
Begun(s)    == row[StageJob(s)].status # "absent"
Done(s)     == content.output.result[s] = 1
Started     == content.output.gen # 0
Extraction  == StageJob(ExtractStage)
Busy(h)     == handler[h].pc # "idle"

\* Nobody works on a job.
Left(j) ==
    /\ \A i \in Invocation : ~HoldsRow(i, j)
    /\ \A h \in Handler : Busy(h) => HJob(h) # j

\* A stage begins when all before it have their results.
InOrder ==
    /\ \A k, l \in DOMAIN Chain : l < k /\ Begun(Chain[k]) => Done(Chain[l])
    /\ \A s \in Bounded : /\ Done(s) => Begun(s)
                          /\ Begun(s) => Started
                          /\ row[StageJob(s)].status = "completed" => Done(s)

\* The extraction is dispatched once.
ExtractionOnce ==
    /\ Started => activeGen = 1 /\ row[Extraction].attempt > 0
    /\ \A i, k \in Invocation : My(i) = Extraction /\ My(k) = Extraction => i = k

\* Nothing is cancelled.
Spared ==
    /\ \A j \in Job : ~row[j].cancel /\ row[j].status # "cancelled"
    /\ fileStatus # "cancelled"

\* One handler at a time works on a stage, for the worker that holds it or for
\* one that died, and it writes back the output that it read.
Handled ==
    \A h \in Handler : Busy(h) =>
        /\ row[HJob(h)].status \in {"running", "failed"} /\ ~row[HJob(h)].stale
        /\ \A k \in Handler : Busy(k) /\ HJob(k) = HJob(h) => k = h
        /\ \A i \in Invocation : HoldsRow(i, HJob(h)) => handler[h].caller = i
        /\ handler[h].pc \in {"compute", "write"} =>
             ~Done(HStage(h)) /\ handler[h].seen.output = content.output
        /\ handler[h].pc = "finalize" => HStage(h) = Final /\ Done(Final)

\* Where only a cancel or an older generation leads.
Elsewhere == {"stopping", "cancelling", "stale", "refused", "missing", "requeuing", "reviving"}

\* Before the draft of the extraction, and after it.
NotYet   == {"exhausted", "claiming", "working", "normalizing", "parking"}
Drafting == {"normalizing", "parking", "published", "dispatched", "checking", "redispatching"}

\* What a worker knows: of its row, of the extraction, of the result of its
\* stage and of the file it has read.
Knows(w) ==
    /\ w.pc # "idle" => row[w.job].status # "absent"
    /\ w.pc \notin Elsewhere /\ w.outcome # "missing"
    /\ Started /\ w.job = Extraction => w.pc \notin NotYet
    /\ w.pc \in Drafting => w.job = Extraction
    /\ w.pc \in Drafting \ NotYet => Started
    /\ w.job = Extraction /\ w.pc \in {"working", "normalizing", "parking"} => row[Extraction].attempt > 0
    /\ w.pc \in {"replied", "fenced"} => (w.outcome = "ok" <=> Done(StageOf(w.job)))
    /\ w.pc \in {"merged", "advancing"} => Done(StageOf(w.job))
    /\ w.pc = "degrading" => ~Done(StageOf(w.job)) /\ StageOf(w.job) # Final /\ w.seen = content
    /\ w.pc \in {"failed", "noting", "noted"} =>
         ~Done(StageOf(w.job)) /\ row[w.job].status = "failed" /\ Left(w.job)
    /\ w.pc = "noting" => w.seen.payload = content.payload

Enriched == [kind |-> "enriched", gen |-> 1]

Published ==
    /\ Done(Final) => content.payload = Enriched /\ enrichment = "completed"
    /\ content.payload.kind = "enriched" => Done(Final)
    /\ content.payload.kind # "none" => Started

\* Once the verdict is there nobody is left who would give another.
Settled ==
    readiness = "ready" =>
      /\ Done(Final) /\ poll.pc = "idle"
      /\ row[StageJob(Final)].status \in {"completed", "failed"} /\ Left(StageJob(Final))

\* A poll knows no more than the file tells.
Polled ==
    /\ poll.pc # "idle" =>
         /\ \A s \in Bounded : poll.output.result[s] = 1 => Done(s)
         /\ poll.output.gen # 0 => Started
    /\ poll.pc = "resume" => poll.output.gen # 0

OneInv ==
    /\ InOrder /\ ExtractionOnce /\ Spared /\ Handled
    /\ \A i \in Invocation : Knows(worker[i])
    /\ Published /\ Settled /\ Polled

\* What the theorems about the queue say of the workers.
Exclusive ==
    /\ \A i, k \in Invocation, j \in Job : HoldsRow(i, j) /\ HoldsRow(k, j) => i = k
    /\ \A i \in Invocation, j \in Job : HoldsRow(i, j) =>
         row[j].status \in {"running", "failed", "cancelled"} /\ ~row[j].stale

LEMMA ExclusiveHolds == Spec => []Exclusive
  <1>1. QP!Spec => []QP!QueueInv
    BY StageAssumption, BoundAssumption, QP!QueueInvHolds, PTL DEF QP!QueueInvHolds
  <1>2. QP!QueueInv => Exclusive
    <2>1. ASSUME NEW i \in Invocation, NEW j, HoldsRow(i, j)
          PROVE  QP!Holds(i, j)
      BY <2>1, ViewedRows DEF HoldsRow, QP!Holds, QP!Holding
    <2>2. QP!Job = Job
      BY DEF QP!Job, Job, QP!Gen, Gen
    <2>3. QED
      BY <2>1, <2>2 DEF QP!QueueInv, QP!ClaimExclusive, QP!HeldRows, QP!Holds, QP!Holding, Exclusive
  <1>3. QED
    BY <1>1, <1>2, ImplementsQueue, SameQueue, PTL

LEMMA OneJobs ==
  ASSUME OneGeneration
  PROVE  /\ MaxGen = 1
         /\ \A j \in Job : j = StageJob(StageOf(j)) /\ GenOf(j) = 1 /\ StageOf(j) \in Stage
         /\ \A s \in Stage : StageJob(s) \in Job /\ StageOf(StageJob(s)) = s
         /\ Extraction \in Job /\ StageOf(Extraction) = ExtractStage /\ NoJob # Extraction
         /\ \A s \in Bounded : StageJob(s) \in Job /\ StageJob(s) # Extraction /\ s # ExtractStage
         /\ \A s, t : StageJob(s) = StageJob(t) => s = t
  <1>1. MaxGen = 1 /\ 1 .. MaxGen = {1}
    BY DEF OneGeneration
  <1>2. \A j \in Job : j = StageJob(StageOf(j)) /\ GenOf(j) = 1 /\ StageOf(j) \in Stage
    BY <1>1, Jobs DEF StageJob
  <1>3. \A s \in Stage : StageJob(s) \in Job /\ StageOf(StageJob(s)) = s
    BY <1>1, Jobs DEF StageJob
  <1>4. Extraction \in Job /\ StageOf(Extraction) = ExtractStage /\ NoJob # Extraction
    BY <1>3, Jobs, StageAssumption DEF Extraction
  <1>5. \A s, t : StageJob(s) = StageJob(t) => s = t
    BY DEF StageJob
  <1>6. \A s \in Bounded : s \in Stage /\ s # ExtractStage
    BY Stages
  <1>7. QED
    BY <1>1, <1>2, <1>3, <1>4, <1>5, <1>6 DEF Extraction

LEMMA AtStage ==
  ASSUME OneGeneration, ChainInv, OneInv
  PROVE  /\ \A i \in Invocation : worker[i].pc # "idle" =>
              activeGen = 1 /\ My(i) \in Job /\ My(i) = StageJob(MyStage(i))
         /\ \A i \in Invocation : worker[i].pc = "idle" => worker[i] = NoWorker /\ My(i) = NoJob
         /\ \A i \in Invocation : worker[i].pc \in ChainPc => MyStage(i) \in Bounded
         /\ \A h \in Handler : Busy(h) =>
              /\ activeGen = 1 /\ HJob(h) \in Job /\ HJob(h) = StageJob(HStage(h)) /\ HGen(h) = 1
              /\ HStage(h) \in Bounded /\ Begun(HStage(h)) /\ Started
         /\ \A h \in Handler : ~Busy(h) => handler[h] = NoHandler
  <1>1. activeGen \in 0 .. 1
    BY OneJobs DEF ChainInv
  <1>2. ASSUME NEW i \in Invocation
        PROVE  /\ worker[i].pc # "idle" => activeGen = 1 /\ My(i) \in Job /\ My(i) = StageJob(MyStage(i))
               /\ worker[i].pc = "idle" => worker[i] = NoWorker /\ My(i) = NoJob
               /\ worker[i].pc \in ChainPc => MyStage(i) \in Bounded
    <2>1. worker[i] \in Worker /\ Fits(worker[i], activeGen)
      BY AtWork
    <2>2. worker[i].pc # "idle" => My(i) \in Job /\ GenOf(My(i)) <= activeGen
      BY <2>1 DEF Fits, My
    <2>3. worker[i].pc # "idle" => activeGen = 1 /\ My(i) \in Job /\ My(i) = StageJob(MyStage(i))
      BY <1>1, <2>2, OneJobs DEF MyStage
    <2>4. worker[i].pc = "idle" => worker[i] = NoWorker /\ My(i) = NoJob
      BY <2>1 DEF Fits, My, NoWorker
    <2>5. worker[i].pc \in ChainPc => MyStage(i) \in Bounded
      BY <2>1 DEF Fits, MyStage, My
    <2>6. QED
      BY <2>3, <2>4, <2>5
  <1>3. ASSUME NEW h \in Handler
        PROVE  /\ Busy(h) =>
                    /\ activeGen = 1 /\ HJob(h) \in Job /\ HJob(h) = StageJob(HStage(h)) /\ HGen(h) = 1
                    /\ HStage(h) \in Bounded /\ Begun(HStage(h)) /\ Started
               /\ ~Busy(h) => handler[h] = NoHandler
    <2>1. Handles(handler[h], activeGen)
      BY DEF ChainInv, HandlersTyped
    <2>2. Busy(h) => /\ HJob(h) \in Job /\ GenOf(HJob(h)) <= activeGen /\ HStage(h) \in Bounded
                     /\ HJob(h) = StageJob(HStage(h)) /\ HGen(h) = 1
      BY <2>1, OneJobs DEF Handles, Busy, HJob, HStage, HGen
    <2>3. Busy(h) => Begun(HStage(h))
      BY <2>2 DEF OneInv, Handled, Begun
    <2>4. QED
      BY <1>1, <2>1, <2>2, <2>3 DEF Handles, Busy, OneInv, InOrder, HGen
  <1>4. QED
    BY <1>2, <1>3

\* At most one stage that has begun lacks its result, and when the last has its
\* result all have.
LEMMA OneHole ==
  ASSUME OneInv, NEW s \in Bounded, NEW t \in Bounded,
         Begun(s), Begun(t), ~Done(s), ~Done(t)
  PROVE  s = t
  <1>1. PICK k \in DOMAIN Chain : Chain[k] = s
    BY DEF Bounded, Range
  <1>2. PICK l \in DOMAIN Chain : Chain[l] = t
    BY DEF Bounded, Range
  <1>3. k \in Int /\ l \in Int
    BY ChainAssumption
  <1>4. ~(k < l) /\ ~(l < k)
    BY <1>1, <1>2 DEF OneInv, InOrder
  <1>5. QED
    BY <1>1, <1>2, <1>3, <1>4

LEMMA AllDone ==
  ASSUME OneInv, Begun(Final), NEW s \in Bounded, s # Final
  PROVE  Done(s)
  <1>1. PICK k \in DOMAIN Chain : Chain[k] = s
    BY DEF Bounded, Range
  <1>2. DOMAIN Chain = 1 .. Len(Chain) /\ Len(Chain) \in Nat /\ Len(Chain) > 1
    BY ChainAssumption
  <1>3. k < Len(Chain) /\ Len(Chain) \in DOMAIN Chain
    BY <1>1, <1>2 DEF Final
  <1>4. QED
    BY <1>1, <1>3 DEF OneInv, InOrder, Final

\* A worker may take a row that is open and that nobody works on.
Free(j) ==
    /\ row[j].status \notin {"completed", "failed"}
    /\ \A h \in Handler : Busy(h) => HJob(h) # j

\* Writes of rows that leave closed ones closed.
RowsHold ==
    /\ \A j \in Job : ~row'[j].cancel /\ row'[j].status # "cancelled"
    /\ \A j \in Job : row[j].status # "absent" => row'[j].status # "absent"
    /\ row[Extraction].attempt > 0 => row'[Extraction].attempt > 0
    /\ \A j \in Job : Left(j) =>
         /\ row[j].status = "failed" => row'[j].status = "failed"
         /\ row[j].status = "completed" => row'[j].status \in {"completed", "failed"}
    /\ \A h \in Handler : Busy(h) =>
         row'[HJob(h)].status \in {"running", "failed"} /\ ~row'[HJob(h)].stale

\* Worker i may have moved, the others have not.
OnlyMover(i) == \A k \in Invocation : k # i => worker'[k] = worker[k]

LEMMA LeftStays ==
  ASSUME NEW i, OnlyMover(i), UNCHANGED handler, NEW j,
         i \in Invocation => (HoldsRow(i, j)' => HoldsRow(i, j) \/ Free(j)),
         Left(j), row[j].status \in {"completed", "failed"}
  PROVE  Left(j)'
  <1>1. \A k \in Invocation \ {i} : HoldsRow(k, j)' <=> HoldsRow(k, j)
    BY DEF HoldsRow, OnlyMover
  <1>2. QED
    BY <1>1 DEF Left, Free, Busy, HJob

\* At most one worker moves, and nobody writes the file.
LEMMA Moves ==
  ASSUME OneGeneration, ChainInv, OneInv, NEW i, OnlyMover(i),
         UNCHANGED <<activeGen, content, enrichment, handler>>,
         RowsHold, InOrder', fileStatus' # "cancelled", Settled', Polled',
         i \in Invocation =>
           /\ Knows(worker[i])'
           /\ \A j \in Job : HoldsRow(i, j)' => HoldsRow(i, j) \/ Free(j)
           /\ My(i)' = Extraction => My(i) = Extraction \/ \A k \in Invocation : My(k) # Extraction
  PROVE  OneInv'
  <1>1. \A s : (Done(s)' <=> Done(s)) /\ (Started' <=> Started)
    BY DEF Done, Started
  <1>2. \A k \in Invocation \ {i} : \A j : HoldsRow(k, j)' <=> HoldsRow(k, j)
    BY DEF HoldsRow, OnlyMover
  <1>3. \A j \in Job : Left(j) /\ row[j].status \in {"completed", "failed"} => Left(j)'
    BY LeftStays
  <1>4. ExtractionOnce'
    <2>1. \A k \in Invocation \ {i} : My(k)' = My(k)
      BY DEF My, OnlyMover
    <2>2. Extraction' = Extraction
      BY DEF Extraction, StageJob
    <2>3. QED
      BY <1>1, <2>1, <2>2 DEF OneInv, ExtractionOnce, RowsHold
  <1>5. Spared'
    BY DEF Spared, RowsHold
  <1>6. Handled'
    <2>1. ASSUME NEW h \in Handler, Busy(h), NEW k \in Invocation, NEW j, j = HJob(h), HoldsRow(k, j)'
          PROVE  handler[h].caller = k
      <3>1. j \in Job
        BY <2>1, AtStage
      <3>2. HoldsRow(k, j)
        BY <1>2, <2>1, <3>1 DEF Free
      <3>3. QED
        BY <2>1, <3>2 DEF OneInv, Handled
    <2>2. \A h : (Busy(h)' <=> Busy(h)) /\ HJob(h)' = HJob(h) /\ HStage(h)' = HStage(h)
      BY DEF Busy, HJob, HStage
    <2>3. QED
      BY <1>1, <2>1, <2>2 DEF OneInv, Handled, RowsHold, HoldsRow
  <1>7. ASSUME NEW k \in Invocation, k # i PROVE Knows(worker[k])'
    <2>1. Knows(worker[k]) /\ worker'[k] = worker[k]
      BY <1>7 DEF OneInv, OnlyMover
    <2>2. ASSUME NEW j, j = worker[k].job, worker[k].pc \in {"failed", "noting", "noted"}
          PROVE  Left(j)' /\ row'[j].status = "failed"
      <3>1. j \in Job
        BY <2>2, AtStage DEF My
      <3>2. Left(j) /\ row[j].status = "failed"
        BY <2>1, <2>2 DEF Knows
      <3>3. QED
        BY <1>3, <3>1, <3>2 DEF RowsHold
    <2>3. Extraction' = Extraction
      BY DEF Extraction, StageJob
    <2>4. row[Extraction].attempt > 0 => row'[Extraction].attempt > 0
      BY DEF RowsHold
    <2>5. worker[k].pc # "idle" => row'[worker[k].job].status # "absent"
      <3>1. worker[k].pc # "idle" => worker[k].job \in Job
        BY AtStage DEF My
      <3>2. QED
        BY <2>1, <3>1 DEF Knows, RowsHold
    <2>6. QED
      BY <1>1, <2>1, <2>2, <2>3, <2>4, <2>5 DEF Knows, Left, HoldsRow, Busy, HJob
  <1>8. Published'
    BY <1>1 DEF OneInv, Published
  <1>9. QED
    BY <1>4, <1>5, <1>6, <1>7, <1>8 DEF OneInv

\* One worker moves, and no verdict is given that the file is ready.
LEMMA Turns ==
  ASSUME OneGeneration, ChainInv, OneInv, NEW i \in Invocation, OnlyMover(i),
         UNCHANGED <<activeGen, content, enrichment, handler, poll>>,
         RowsHold, InOrder', fileStatus' # "cancelled",
         readiness' = readiness \/ readiness' # "ready",
         Knows(worker[i])',
         \A j \in Job : HoldsRow(i, j)' => HoldsRow(i, j) \/ Free(j),
         My(i)' = Extraction => My(i) = Extraction \/ \A k \in Invocation : My(k) # Extraction
  PROVE  OneInv'
  <1>1. \A s : (Done(s)' <=> Done(s)) /\ (Started' <=> Started)
    BY DEF Done, Started
  <1>2. Settled'
    <2>1. SUFFICES ASSUME readiness' = "ready"
                   PROVE  /\ Done(Final)' /\ poll'.pc = "idle" /\ Left(StageJob(Final))'
                          /\ row'[StageJob(Final)].status \in {"completed", "failed"}
      BY DEF Settled, StageJob
    <2>2. readiness = "ready"
      BY <2>1
    <2>3. /\ Done(Final) /\ poll.pc = "idle"
          /\ row[StageJob(Final)].status \in {"completed", "failed"} /\ Left(StageJob(Final))
      BY <2>2 DEF OneInv, Settled
    <2>4. StageJob(Final) \in Job
      BY OneJobs, Stages
    <2>5. ASSUME NEW j \in Job, j = StageJob(Final)
          PROVE  Left(j)' /\ row'[j].status \in {"completed", "failed"}
      BY <2>3, <2>5, LeftStays DEF RowsHold
    <2>6. QED
      BY <1>1, <2>3, <2>4, <2>5 DEF StageJob
  <1>3. Polled'
    BY <1>1 DEF OneInv, Polled
  <1>4. QED
    BY <1>2, <1>3, Moves

\* Rows that nobody writes.
LEMMA RowsRest ==
  ASSUME OneInv, UNCHANGED row
  PROVE  RowsHold
  BY DEF OneInv, Spared, Handled, RowsHold

LEMMA OrderStays ==
  ASSUME OneInv, UNCHANGED content,
         \A s \in Bounded : /\ Begun(s)' <=> Begun(s)
                            /\ row'[StageJob(s)].status = "completed" =>
                                 row[StageJob(s)].status = "completed" \/ Done(s)
  PROVE  InOrder'
  <1>1. \A s : (Done(s)' <=> Done(s)) /\ (Started' <=> Started)
    BY DEF Done, Started
  <1>2. \A k \in DOMAIN Chain : Chain[k] \in Bounded
    BY Stages
  <1>3. \A k, l \in DOMAIN Chain : l < k /\ Begun(Chain[k])' => Done(Chain[l])'
    BY <1>1, <1>2 DEF OneInv, InOrder
  <1>4. ASSUME NEW s \in Bounded
        PROVE  /\ Done(s)' => Begun(s)'
               /\ Begun(s)' => Started'
               /\ row'[StageJob(s)].status = "completed" => Done(s)'
    BY <1>1 DEF OneInv, InOrder
  <1>5. QED
    BY <1>3, <1>4 DEF InOrder, StageJob

\* One row that exists is written.
LEMMA OneRow ==
  ASSUME OneGeneration, ChainInv, OneInv, UNCHANGED content,
         NEW j \in Job, NEW r \in Row, row' = [row EXCEPT ![j] = r],
         row[j].status # "absent", r.status \notin {"absent", "cancelled"}, ~r.cancel,
         r.attempt >= row[j].attempt,
         r.status = "completed" /\ StageOf(j) \in Bounded => Done(StageOf(j)),
         Left(j) => /\ row[j].status = "failed" => r.status = "failed"
                    /\ row[j].status = "completed" => r.status \in {"completed", "failed"},
         \A h \in Handler : Busy(h) /\ HJob(h) = j => r.status \in {"running", "failed"} /\ ~r.stale
  PROVE  RowsHold /\ InOrder'
  <1>1. row \in [Job -> Row] /\ Extraction \in Job
    BY OneJobs DEF ChainInv, RowsTyped
  <1>2. row'[j] = r /\ \A k \in Job \ {j} : row'[k] = row[k]
    BY <1>1
  <1>3. row[Extraction].attempt > 0 => row'[Extraction].attempt > 0
    <2>1. row[Extraction].attempt \in Nat /\ r.attempt \in Nat
      BY <1>1, BoundAssumption DEF Row
    <2>2. QED
      BY <1>1, <1>2, <2>1
  <1>4. \A h \in Handler : Busy(h) =>
           row'[HJob(h)].status \in {"running", "failed"} /\ ~row'[HJob(h)].stale
    BY <1>2, AtStage DEF OneInv, Handled
  <1>5. RowsHold
    BY <1>1, <1>2, <1>3, <1>4 DEF RowsHold, OneInv, Spared
  <1>6. ASSUME NEW s \in Bounded
        PROVE  /\ Begun(s)' <=> Begun(s)
               /\ row'[StageJob(s)].status = "completed" => row[StageJob(s)].status = "completed" \/ Done(s)
    <2>1. ASSUME NEW k, k = StageJob(s)
          PROVE  /\ row'[k].status # "absent" <=> row[k].status # "absent"
                 /\ row'[k].status = "completed" => row[k].status = "completed" \/ Done(s)
      <3>1. k \in Job /\ StageOf(k) = s
        BY <2>1, OneJobs, Stages
      <3>2. QED
        BY <1>2, <3>1
    <2>2. QED
      BY <2>1 DEF Begun, StageJob
  <1>7. QED
    BY <1>5, <1>6, OrderStays

\* A stage is enqueued when all before it have their results.
LEMMA NextStage ==
  ASSUME OneGeneration, ChainInv, OneInv, UNCHANGED content, activeGen = 1, Started,
         NEW k \in DOMAIN Chain, \A l \in DOMAIN Chain : l < k => Done(Chain[l]),
         row' = Enqueued(row, 1, Chain[k])
  PROVE  RowsHold /\ InOrder'
  <1>1. row \in [Job -> Row] /\ Chain[k] \in Bounded /\ <<1, Chain[k]>> = StageJob(Chain[k])
    BY Stages DEF ChainInv, RowsTyped, StageJob
  <1>2. CASE row' = row
    BY <1>2, RowsRest, OrderStays DEF Begun, StageJob
  <1>3. CASE row[StageJob(Chain[k])].status = "absent" /\ row' = [row EXCEPT ![StageJob(Chain[k])] = NewRow]
    <2>1. StageJob(Chain[k]) \in Job
      BY <1>1, OneJobs
    <2>2. /\ row'[StageJob(Chain[k])] = NewRow
          /\ \A j \in Job \ {StageJob(Chain[k])} : row'[j] = row[j]
          /\ NewRow.status = "queued" /\ ~NewRow.cancel
      BY <1>1, <1>3, <2>1 DEF NewRow, NoRow
    <2>3. RowsHold
      <3>1. \A h \in Handler : Busy(h) =>
               row'[HJob(h)].status \in {"running", "failed"} /\ ~row'[HJob(h)].stale
        BY <1>3, <2>2, AtStage DEF OneInv, Handled
      <3>2. Extraction # StageJob(Chain[k]) /\ Extraction \in Job
        BY <1>1, OneJobs
      <3>3. QED
        BY <1>3, <2>2, <3>1, <3>2 DEF RowsHold, OneInv, Spared
    <2>4. \A s : (Done(s)' <=> Done(s)) /\ (Started' <=> Started)
      BY DEF Done, Started
    <2>5. ASSUME NEW m \in DOMAIN Chain, Begun(Chain[m])'
          PROVE  Begun(Chain[m]) \/ m = k
      <3>1. StageJob(Chain[m]) \in Job /\ Chain[m] \in Bounded
        BY Stages, OneJobs
      <3>2. CASE StageJob(Chain[m]) # StageJob(Chain[k])
        BY <2>2, <2>5, <3>1, <3>2 DEF Begun, StageJob
      <3>3. CASE StageJob(Chain[m]) = StageJob(Chain[k])
        BY <3>3, OneJobs, ChainAssumption DEF IsInjective
      <3>4. QED
        BY <3>2, <3>3
    <2>6. ASSUME NEW s \in Bounded
          PROVE  /\ Done(s)' => Begun(s)'
                 /\ Begun(s)' => Started'
                 /\ row'[StageJob(s)].status = "completed" => Done(s)'
      <3>1. ASSUME NEW j \in Job, j = StageJob(s)
            PROVE  /\ row[j].status # "absent" => row'[j].status # "absent"
                   /\ row'[j].status = "completed" => row[j].status = "completed"
        BY <2>2, <3>1, <1>3
      <3>2. StageJob(s) \in Job
        BY OneJobs
      <3>3. QED
        BY <2>4, <3>1, <3>2 DEF OneInv, InOrder, Begun, StageJob
    <2>7. InOrder'
      BY <2>4, <2>5, <2>6 DEF InOrder, OneInv, StageJob
    <2>8. QED
      BY <2>3, <2>7
  <1>4. QED
    BY <1>1, <1>2, <1>3 DEF Enqueued

\* Steps of one worker.
LEMMA Steps ==
  ASSUME OneGeneration, ChainInv, OneInv, NEW i \in Invocation
  PROVE  /\ worker[i] \in Worker /\ Knows(worker[i]) /\ My(i) = worker[i].job
         /\ \A pc : Goto(i, pc) =>
              /\ OnlyMover(i) /\ worker'[i].pc = pc /\ worker'[i].job = My(i) /\ My(i)' = My(i)
              /\ worker'[i].outcome = worker[i].outcome /\ worker'[i].seen = worker[i].seen
         /\ Return(i) => OnlyMover(i) /\ worker'[i] = NoWorker
  <1>1. worker \in [Invocation -> Worker] /\ Knows(worker[i])
    BY DEF ChainInv, WorkersTyped, OneInv
  <1>2. ASSUME NEW pc, Goto(i, pc)
        PROVE  /\ OnlyMover(i) /\ worker'[i].pc = pc /\ worker'[i].job = My(i) /\ My(i)' = My(i)
               /\ worker'[i].outcome = worker[i].outcome /\ worker'[i].seen = worker[i].seen
    BY <1>1, <1>2 DEF Goto, OnlyMover, Worker, My
  <1>3. QED
    BY <1>1, <1>2 DEF Return, OnlyMover, My

\* A worker that does not wait for its handler has none.
LEMMA NoHandlerLeft ==
  ASSUME OneGeneration, ChainInv, OneInv, NEW i \in Invocation,
         worker[i].pc \in HoldPc \cup {"stale", "requeuing"}, worker[i].pc # "calling"
  PROVE  HoldsRow(i, My(i)) /\ ~Left(My(i)) /\ \A h \in Handler : Busy(h) => HJob(h) # My(i)
  <1>1. HoldsRow(i, My(i))
    BY DEF HoldsRow, My
  <1>2. ASSUME NEW h \in Handler, Busy(h), HJob(h) = My(i) PROVE FALSE
    <2>1. handler[h].caller = i
      BY <1>1, <1>2 DEF OneInv, Handled
    <2>2. i # Nobody
      BY ChainAssumption
    <2>3. QED
      BY <2>1, <2>2 DEF ChainInv, Callers, At
  <1>3. QED
    BY <1>1, <1>2 DEF Left

LEMMA Returns ==
  ASSUME OneGeneration, ChainInv, OneInv, NEW i \in Invocation, Return(i),
         UNCHANGED <<activeGen, content, enrichment, handler, poll>>,
         RowsHold, InOrder', fileStatus' # "cancelled",
         readiness' = readiness \/ readiness' # "ready"
  PROVE  OneInv'
  <1>1. OnlyMover(i) /\ worker'[i] = NoWorker
    BY Steps
  <1>2. Extraction' = Extraction /\ NoJob # Extraction
    BY OneJobs DEF Extraction, StageJob
  <1>3. Knows(worker[i])'
    BY <1>1, <1>2 DEF Knows, NoWorker, Elsewhere, NotYet, Drafting
  <1>4. (\A j : ~HoldsRow(i, j)') /\ My(i)' # Extraction
    BY <1>1, <1>2 DEF HoldsRow, NoWorker, HoldPc, My
  <1>5. QED
    BY <1>1, <1>3, <1>4, Turns

LEMMA Goes ==
  ASSUME OneGeneration, ChainInv, OneInv, NEW i \in Invocation, NEW pc, Goto(i, pc),
         UNCHANGED <<activeGen, content, enrichment, handler, poll>>,
         RowsHold, InOrder', fileStatus' # "cancelled",
         readiness' = readiness \/ readiness' # "ready",
         Knows(worker[i])',
         pc \in HoldPc \cup {"stale", "requeuing"} => HoldsRow(i, My(i)) \/ Free(My(i))
  PROVE  OneInv'
  <1>1. OnlyMover(i) /\ worker'[i].pc = pc /\ worker'[i].job = My(i) /\ My(i)' = My(i)
    BY Steps
  <1>2. Extraction' = Extraction
    BY DEF Extraction, StageJob
  <1>3. \A j \in Job : HoldsRow(i, j)' => HoldsRow(i, j) \/ Free(j)
    BY <1>1 DEF HoldsRow
  <1>4. QED
    BY <1>1, <1>2, <1>3, Turns

\* A row that was loaded is failed, by whomever.
LEMMA FailsRow ==
  ASSUME OneGeneration, ChainInv, OneInv, UNCHANGED content,
         NEW i \in Invocation, worker[i].pc # "idle", SetRow(My(i), "failed")
  PROVE  RowsHold /\ InOrder' /\ row'[My(i)].status = "failed"
  <1>1. My(i) \in Job /\ row[My(i)] \in Row /\ row \in [Job -> Row]
    BY AtWork DEF ChainInv, RowsTyped
  <1>2. row[My(i)].status # "absent" /\ ~row[My(i)].cancel
    BY <1>1, Steps DEF Knows, OneInv, Spared
  <1> DEFINE r == WithStatus(row[My(i)], "failed")
  <1>3. r \in Row /\ r.status = "failed" /\ ~r.cancel /\ ~r.stale /\ r.attempt = row[My(i)].attempt
    BY <1>1, <1>2, Rows DEF WithStatus, JobStatus, TerminalStatus, Row
  <1>4. row' = [row EXCEPT ![My(i)] = r]
    BY DEF SetRow
  <1>5. r.attempt >= row[My(i)].attempt
    BY <1>1, <1>3, BoundAssumption DEF Row
  <1> HIDE DEF r
  <1>6. QED
    BY <1>1, <1>2, <1>3, <1>4, <1>5, OneRow

\* A worker completes the row that it holds.
LEMMA CompletesRow ==
  ASSUME OneGeneration, ChainInv, OneInv, UNCHANGED content, NEW i \in Invocation,
         worker[i].pc \in HoldPc \cup {"stale", "requeuing"}, worker[i].pc # "calling",
         MyStage(i) \in Bounded => Done(MyStage(i)), SetRow(My(i), "completed")
  PROVE  RowsHold /\ InOrder'
  <1>1. worker[i].pc # "idle"
    BY DEF HoldPc
  <1>2. My(i) \in Job /\ row[My(i)] \in Row /\ row \in [Job -> Row]
    BY <1>1, AtWork DEF ChainInv, RowsTyped
  <1>3. row[My(i)].status # "absent" /\ ~row[My(i)].cancel
    BY <1>1, <1>2, Steps DEF Knows, OneInv, Spared
  <1> DEFINE r == WithStatus(row[My(i)], "completed")
  <1>4. r \in Row /\ r.status = "completed" /\ ~r.cancel /\ r.attempt = row[My(i)].attempt
    BY <1>2, <1>3, Rows DEF WithStatus, JobStatus, TerminalStatus, Row
  <1>5. row' = [row EXCEPT ![My(i)] = r]
    BY DEF SetRow
  <1>6. r.attempt >= row[My(i)].attempt
    BY <1>2, <1>4, BoundAssumption DEF Row
  <1>7. ~Left(My(i)) /\ \A h \in Handler : Busy(h) => HJob(h) # My(i)
    BY NoHandlerLeft
  <1> HIDE DEF r
  <1>8. QED
    BY <1>2, <1>3, <1>4, <1>5, <1>6, <1>7, OneRow DEF MyStage

\* Loads, claims and failures before the work begins.
LEMMA OneLoads ==
  ASSUME OneGeneration, ChainInv, OneInv, NEW i \in Invocation, NEW j \in Job, Load(i, j)
  PROVE  OneInv'
  <1>1. /\ worker[i].pc = "idle" /\ row[j].status # "absent"
        /\ UNCHANGED <<row, activeGen, content, fileStatus, enrichment, readiness, handler, poll>>
        /\ ~row[j].cancel /\ fileStatus # "cancelled"
    BY DEF Load, At, fileVars, OneInv, Spared
  <1>2. RowsHold /\ InOrder'
    BY <1>1, RowsRest, OrderStays DEF Begun, StageJob
  <1>3. /\ OnlyMover(i) /\ worker'[i].pc \in {"exhausted", "claiming"} /\ worker'[i].job = j
        /\ worker'[i].outcome = worker[i].outcome
    BY <1>1, Steps DEF Load, OnlyMover, Worker, ChainInv, WorkersTyped
  <1>4. j = Extraction => ~Started /\ \A k \in Invocation : My(k) # Extraction
    <2>1. j = Extraction => row[Extraction].attempt = 0 /\ \A k \in Invocation : My(k) # Extraction
      BY OneJobs DEF Load
    <2>2. QED
      BY <2>1 DEF OneInv, ExtractionOnce
  <1>5. Knows(worker[i])'
    <2>1. Started' <=> Started
      BY <1>1 DEF Started
    <2>2. Extraction' = Extraction
      BY DEF Extraction, StageJob
    <2>3. Knows(worker[i])
      BY Steps
    <2>4. QED
      BY <1>1, <1>3, <1>4, <2>1, <2>2, <2>3 DEF Knows, Elsewhere, NotYet, Drafting
  <1>6. My(i)' = j /\ \A l : ~HoldsRow(i, l)'
    BY <1>3 DEF My, HoldsRow, HoldPc
  <1>7. QED
    BY <1>1, <1>2, <1>3, <1>4, <1>5, <1>6, Turns

LEMMA OneFails ==
  ASSUME OneGeneration, ChainInv, OneInv, NEW i \in Invocation,
         FailExhausted(i) \/ FailFile(i) \/ FailUnreadable(i)
  PROVE  OneInv'
  <1>1. /\ worker[i].pc # "idle" /\ fileStatus' # "cancelled"
        /\ UNCHANGED <<activeGen, content, enrichment, readiness, handler, poll>>
    BY DEF FailExhausted, FailFile, FailUnreadable, At, fileVars, OneInv, Spared
  <1>2. CASE FailExhausted(i)
    <2>1. SetRow(My(i), "failed") /\ Goto(i, "failing")
      BY <1>2 DEF FailExhausted
    <2>2. RowsHold /\ InOrder' /\ row'[My(i)].status = "failed"
      BY <1>1, <2>1, FailsRow
    <2>3. Knows(worker[i])'
      BY <2>1, <2>2, Steps DEF Knows, Elsewhere, NotYet, Drafting
    <2>4. "failing" \notin HoldPc \cup {"stale", "requeuing"}
      BY DEF HoldPc
    <2>5. QED
      BY <1>1, <2>1, <2>2, <2>3, <2>4, Goes
  <1>3. CASE FailFile(i)
    <2>1. Return(i) /\ row' = row
      BY <1>3 DEF FailFile
    <2>2. RowsHold /\ InOrder'
      BY <1>1, <2>1, RowsRest, OrderStays DEF Begun, StageJob
    <2>3. QED
      BY <1>1, <2>1, <2>2, Returns
  <1>4. CASE FailUnreadable(i)
    <2>1. Return(i) /\ SetRow(My(i), "failed")
      BY <1>4 DEF FailUnreadable
    <2>2. RowsHold /\ InOrder'
      BY <1>1, <2>1, FailsRow
    <2>3. QED
      BY <1>1, <2>1, <2>2, Returns
  <1>5. QED
    BY <1>2, <1>3, <1>4

LEMMA OneClaims ==
  ASSUME OneGeneration, ChainInv, OneInv, NEW i \in Invocation, Claim(i)
  PROVE  OneInv'
  <1>1. /\ worker[i].pc = "claiming" /\ fileStatus' # "cancelled"
        /\ UNCHANGED <<activeGen, content, enrichment, readiness, handler, poll>>
    BY DEF Claim, At, fileVars, OneInv, Spared
  <1>2. My(i) \in Job /\ row[My(i)] \in Row /\ row \in [Job -> Row]
    BY <1>1, AtWork DEF ChainInv, RowsTyped
  <1>3. CASE ~Claimable(row[My(i)])
    <2>1. Return(i) /\ row' = row
      BY <1>3 DEF Claim
    <2>2. RowsHold /\ InOrder'
      BY <1>1, <2>1, RowsRest, OrderStays DEF Begun, StageJob
    <2>3. QED
      BY <1>1, <2>1, <2>2, Returns
  <1>4. CASE Claimable(row[My(i)])
    <2>1. /\ row[My(i)].status = "queued" \/ (row[My(i)].status = "running" /\ row[My(i)].stale)
          /\ ~row[My(i)].cancel
      BY <1>4 DEF Claimable
    <2>2. \A h \in Handler : Busy(h) => HJob(h) # My(i)
      BY <2>1 DEF OneInv, Handled
    <2>3. PICK r \in Row : r = Claimed(row[My(i)])
      BY <1>2, <1>4, Rows
    <2>4. r.status = "running" /\ ~r.cancel /\ r.attempt = row[My(i)].attempt + 1
      BY <1>2, <2>1, <2>3 DEF Claimed, WithStatus, Row
    <2>5. row[My(i)].attempt \in Nat /\ row'[My(i)] = r /\ row' = [row EXCEPT ![My(i)] = r]
      BY <1>2, <1>4, <2>3, BoundAssumption DEF Claim, Row
    <2>6. RowsHold /\ InOrder'
      <3>1. r.attempt >= row[My(i)].attempt
        BY <2>4, <2>5
      <3>2. /\ row[My(i)].status \notin {"absent", "failed", "completed"}
            /\ r.status \notin {"absent", "cancelled", "completed"}
        BY <2>1, <2>4
      <3>3. QED
        BY <1>1, <1>2, <2>2, <2>4, <2>5, <3>1, <3>2, OneRow
    <2>7. Goto(i, "working")
      BY <1>4 DEF Claim
    <2>8. Free(My(i))
      BY <2>1, <2>2 DEF Free
    <2>9. Knows(worker[i])'
      <3>1. Knows(worker[i]) /\ Extraction' = Extraction /\ (Started' <=> Started)
        BY <1>1, Steps DEF Extraction, StageJob, Started
      <3>2. ~(Started /\ My(i) = Extraction)
        BY <1>1, <3>1 DEF Knows, NotYet, My
      <3>3. My(i) = Extraction => row'[Extraction].attempt > 0
        BY <2>4, <2>5
      <3>4. QED
        BY <2>4, <2>5, <2>7, <3>1, <3>2, <3>3, Steps DEF Knows, Elsewhere, NotYet, Drafting
    <2>10. QED
      BY <1>1, <2>6, <2>7, <2>8, <2>9, Goes
  <1>5. QED
    BY <1>3, <1>4

\* The extraction, but for the steps that write its draft.
LEMMA OneExtracts ==
  ASSUME OneGeneration, ChainInv, OneInv, NEW i \in Invocation,
         \/ BeginNormalize(i) \/ EnqueueFirst(i) \/ FinishExtract(i)
         \/ FailExtract(i) \/ CheckDispatch(i)
  PROVE  OneInv'
  <1>1. /\ worker[i].pc \notin {"idle", "calling"} /\ fileStatus' # "cancelled"
        /\ UNCHANGED <<activeGen, content, enrichment, readiness, handler, poll>>
    BY DEF BeginNormalize, EnqueueFirst, FinishExtract, FailExtract, CheckDispatch, At, fileVars,
           OneInv, Spared
  <1>2. /\ My(i) \in Job /\ My(i) = StageJob(MyStage(i)) /\ activeGen = 1
        /\ Knows(worker[i]) /\ My(i) = worker[i].job
    BY <1>1, AtStage, Steps
  <1>3. /\ Extraction' = Extraction /\ (Started' <=> Started)
        /\ Extraction = StageJob(ExtractStage) /\ StageOf(Extraction) = ExtractStage
        /\ ExtractStage \notin Bounded
    BY <1>1, OneJobs, ChainAssumption DEF Extraction, StageJob, Started
  <1>4. row[My(i)].status # "absent"
    BY <1>1, <1>2 DEF Knows
  <1>5. ASSUME NEW pc \in {"parking", "dispatched", "checking", "redispatching", "normalizing"},
               Goto(i, pc), RowsHold, InOrder', My(i) = Extraction,
               pc \in {"normalizing", "parking"} => ~Started /\ row[Extraction].attempt > 0,
               pc \in {"dispatched", "checking", "redispatching"} => Started,
               pc \in HoldPc => HoldsRow(i, My(i))
        PROVE  OneInv'
    <2>1. row'[My(i)].status # "absent"
      BY <1>2, <1>4, <1>5 DEF RowsHold
    <2>2. row[Extraction].attempt > 0 => row'[Extraction].attempt > 0
      BY <1>5 DEF RowsHold
    <2>3. Knows(worker[i])'
      BY <1>2, <1>3, <1>5, <2>1, <2>2, Steps DEF Knows, Elsewhere, NotYet, Drafting
    <2>4. pc \notin {"stale", "requeuing"}
      BY <1>5
    <2>5. QED
      BY <1>1, <1>5, <2>3, <2>4, Goes
  <1>6. ASSUME row' = row PROVE RowsHold /\ InOrder'
    BY <1>1, <1>6, RowsRest, OrderStays DEF Begun, StageJob
  <1>7. CASE BeginNormalize(i)
    <2>1. /\ worker[i].pc = "working" /\ My(i) = Extraction /\ Goto(i, "normalizing") /\ row' = row
      BY <1>2, <1>3, <1>7 DEF BeginNormalize, At
    <2>2. ~Started /\ row[Extraction].attempt > 0
      BY <1>2, <2>1 DEF Knows, NotYet
    <2>3. HoldsRow(i, My(i))
      BY <2>1 DEF HoldsRow, HoldPc, My
    <2>4. QED
      BY <1>5, <1>6, <2>1, <2>2, <2>3
  <1>8. CASE EnqueueFirst(i)
    <2>1. /\ worker[i].pc \in {"published", "redispatching"} /\ row' = Enqueued(row, 1, First)
          /\ (worker[i].pc = "published" /\ Goto(i, "dispatched")) \/ Return(i)
      BY <1>2, <1>8 DEF EnqueueFirst, At
    <2>2. Started /\ My(i) = Extraction
      BY <1>2, <2>1 DEF Knows, Drafting, NotYet
    <2>3. 1 \in DOMAIN Chain /\ First = Chain[1] /\ \A l \in DOMAIN Chain : ~(l < 1)
      BY ChainAssumption DEF First
    <2>4. RowsHold /\ InOrder'
      BY <1>1, <1>2, <2>1, <2>2, <2>3, NextStage
    <2>5. CASE Return(i)
      BY <1>1, <2>4, <2>5, Returns
    <2>6. CASE worker[i].pc = "published" /\ Goto(i, "dispatched")
      <3>1. HoldsRow(i, My(i))
        BY <2>6 DEF HoldsRow, HoldPc, My
      <3>2. QED
        BY <1>5, <2>2, <2>4, <2>6, <3>1
    <2>7. QED
      BY <2>1, <2>5, <2>6
  <1>9. CASE FinishExtract(i)
    <2>1. worker[i].pc # "refused"
      BY <1>2 DEF Knows, Elsewhere
    <2>2. Durable => Started
      BY DEF Durable, OneInv, Published
    <2>3. ~(worker[i].pc = "working" /\ MyStage(i) = ExtractStage /\ Durable)
      BY <1>2, <1>3, <2>2 DEF Knows, NotYet
    <2>4. worker[i].pc = "dispatched" /\ Goto(i, "checking") /\ SetRow(My(i), "completed")
      BY <1>9, <2>1, <2>3 DEF FinishExtract, At
    <2>5. Started /\ My(i) = Extraction /\ MyStage(i) = ExtractStage
      BY <1>2, <1>3, <2>4 DEF Knows, Drafting, NotYet, MyStage
    <2>6. RowsHold /\ InOrder'
      BY <1>1, <1>3, <2>4, <2>5, CompletesRow DEF HoldPc
    <2>7. "checking" \notin HoldPc
      BY DEF HoldPc
    <2>8. QED
      BY <1>5, <2>4, <2>5, <2>6, <2>7
  <1>10. CASE FailExtract(i)
    <2>1. /\ worker[i].pc = "working" /\ My(i) = Extraction
          /\ Goto(i, "parking") /\ SetRow(My(i), "failed")
      BY <1>2, <1>3, <1>10 DEF FailExtract, At
    <2>2. ~Started /\ row[Extraction].attempt > 0
      BY <1>2, <2>1 DEF Knows, NotYet
    <2>3. RowsHold /\ InOrder'
      BY <1>1, <2>1, FailsRow
    <2>4. "parking" \notin HoldPc
      BY DEF HoldPc
    <2>5. QED
      BY <1>5, <2>1, <2>2, <2>3, <2>4
  <1>11. CASE CheckDispatch(i)
    <2>1. worker[i].pc = "checking" /\ row' = row /\ (Return(i) \/ Goto(i, "redispatching"))
      BY <1>11 DEF CheckDispatch, At
    <2>2. Started /\ My(i) = Extraction
      BY <1>2, <2>1 DEF Knows, Drafting, NotYet
    <2>3. "redispatching" \notin HoldPc
      BY DEF HoldPc
    <2>4. QED
      BY <1>1, <1>5, <1>6, <2>1, <2>2, <2>3, Returns
  <1>12. QED
    BY <1>7, <1>8, <1>9, <1>10, <1>11

\* The stage after another is the next of the chain.
LEMMA SuccessorAt ==
  ASSUME NEW s \in Bounded, s # Final
  PROVE  \E k \in DOMAIN Chain : Chain[k] = s /\ k + 1 \in DOMAIN Chain /\ Successor(s) = Chain[k + 1]
  <1>1. PICK n \in DOMAIN Chain : Chain[n] = s
    BY DEF Bounded, Range
  <1>2. DOMAIN Chain = 1 .. Len(Chain) /\ Len(Chain) \in Nat
    BY ChainAssumption
  <1> DEFINE k == CHOOSE m \in DOMAIN Chain : Chain[m] = s
  <1>3. k \in DOMAIN Chain /\ Chain[k] = s /\ Successor(s) = Chain[k + 1]
    BY <1>1 DEF Successor
  <1>4. k # Len(Chain)
    BY <1>3 DEF Final
  <1> HIDE DEF k
  <1>5. k + 1 \in DOMAIN Chain
    BY <1>2, <1>3, <1>4
  <1>6. QED
    BY <1>3, <1>5

\* What a worker that holds a stage of the chain is about.
LEMMA OnStage ==
  ASSUME OneGeneration, ChainInv, OneInv, NEW i \in Invocation, worker[i].pc \in ChainPc
  PROVE  /\ My(i) \in Job /\ My(i) = StageJob(MyStage(i)) /\ MyStage(i) \in Bounded
         /\ My(i) = worker[i].job /\ MyStage(i) = StageOf(worker[i].job) /\ MyGen(i) = 1
         /\ activeGen = 1 /\ row[My(i)].status # "absent" /\ Begun(MyStage(i)) /\ Started
         /\ My(i) # Extraction /\ Knows(worker[i])
  <1>1. worker[i].pc # "idle"
    BY DEF ChainPc
  <1>2. /\ My(i) \in Job /\ My(i) = StageJob(MyStage(i)) /\ MyStage(i) \in Bounded
        /\ My(i) = worker[i].job /\ MyStage(i) = StageOf(worker[i].job)
        /\ activeGen = 1 /\ Knows(worker[i])
    BY <1>1, AtStage, Steps DEF MyStage
  <1>3. row[My(i)].status # "absent" /\ Begun(MyStage(i))
    BY <1>1, <1>2 DEF Knows, Begun
  <1>4. Started
    BY <1>2, <1>3 DEF OneInv, InOrder
  <1>5. MyGen(i) = 1 /\ My(i) # Extraction
    BY <1>2, OneJobs DEF MyGen
  <1>6. QED
    BY <1>2, <1>3, <1>4, <1>5

\* A worker goes on with its stage.
LEMMA GoesOn ==
  ASSUME OneGeneration, ChainInv, OneInv, NEW i \in Invocation, OnlyMover(i),
         worker[i].pc \in ChainPc, NEW j, j = My(i),
         NEW pc \in {"fenced", "degrading", "advancing", "failed", "noting", "noted"},
         worker'[i].pc = pc, worker'[i].job = My(i), worker'[i].outcome = worker[i].outcome,
         UNCHANGED <<activeGen, content, fileStatus, enrichment, readiness, handler, poll>>,
         RowsHold, InOrder',
         pc \in {"fenced", "degrading"} => HoldsRow(i, My(i)),
         pc = "fenced" => (worker[i].outcome = "ok" <=> Done(MyStage(i))),
         pc = "degrading" => ~Done(MyStage(i)) /\ MyStage(i) # Final /\ worker'[i].seen = content,
         pc = "advancing" => Done(MyStage(i)),
         pc \in {"failed", "noting", "noted"} =>
           ~Done(MyStage(i)) /\ row'[j].status = "failed" /\ Left(j)',
         pc = "noting" => worker'[i].seen.payload = content.payload
  PROVE  OneInv'
  <1>1. /\ My(i) \in Job /\ My(i) = worker[i].job /\ MyStage(i) = StageOf(worker[i].job)
        /\ row[My(i)].status # "absent" /\ My(i) # Extraction /\ Knows(worker[i])
    BY OnStage
  <1>2. Extraction' = Extraction /\ \A s : Done(s)' <=> Done(s)
    BY DEF Extraction, StageJob, Done
  <1>3. fileStatus' # "cancelled" /\ My(i)' = My(i)
    BY DEF OneInv, Spared, My
  <1>4. row'[My(i)].status # "absent"
    BY <1>1 DEF RowsHold
  <1>5. ASSUME NEW w, w = worker'[i], NEW s, s = MyStage(i)
        PROVE  Knows(w)'
    <2>1. w.job = j /\ StageOf(w.job) = s
      BY <1>1, <1>5
    <2>2. pc \in {"failed", "noting", "noted"} => ~Done(s)' /\ row'[j].status = "failed" /\ Left(j)'
      BY <1>2, <1>5
    <2>3. /\ pc = "fenced" => (w.outcome = "ok" <=> Done(s)')
          /\ pc = "degrading" => ~Done(s)' /\ s # Final /\ w.seen = content'
          /\ pc = "advancing" => Done(s)'
          /\ pc = "noting" => w.seen.payload = content'.payload
      BY <1>2, <1>5
    <2>4. row'[j].status # "absent" /\ j # Extraction' /\ w.pc = pc /\ w.outcome # "missing"
      BY <1>1, <1>2, <1>4, <1>5 DEF Knows
    <2>5. QED
      BY <2>1, <2>2, <2>3, <2>4 DEF Knows, Elsewhere, NotYet, Drafting
  <1>6. Knows(worker[i])'
    BY <1>5 DEF Knows, Left, HoldsRow, Done, Busy, HJob
  <1>7. \A k \in Job : HoldsRow(i, k)' => HoldsRow(i, k) \/ Free(k)
    BY DEF HoldsRow, HoldPc
  <1>8. QED
    BY <1>1, <1>2, <1>3, <1>6, <1>7, Turns

\* A stage of the chain, but for the steps that call its handler or write the
\* file.
LEMMA OneChains ==
  ASSUME OneGeneration, ChainInv, OneInv, Exclusive, NEW i \in Invocation,
         \/ Fence(i) \/ Complete(i) \/ Advance(i)
         \/ DegradeRead(i) \/ Fail(i) \/ NoteRead(i) \/ NoteWrite(i) \/ FinalizeFailed(i)
  PROVE  OneInv'
  <1>1. /\ worker[i].pc \in ChainPc /\ worker[i].pc # "calling"
        /\ UNCHANGED <<activeGen, fileStatus, enrichment, handler, poll>>
    BY DEF Fence, Complete, Advance, DegradeRead, Fail, NoteRead, NoteWrite, FinalizeFailed, At,
           fileVars, ChainPc
  <1>2. /\ My(i) \in Job /\ My(i) = StageJob(MyStage(i)) /\ MyStage(i) \in Bounded
        /\ My(i) = worker[i].job /\ MyStage(i) = StageOf(worker[i].job) /\ MyGen(i) = 1
        /\ activeGen = 1 /\ row[My(i)].status # "absent" /\ Begun(MyStage(i)) /\ Started
        /\ My(i) # Extraction /\ Knows(worker[i])
    BY <1>1, OnStage
  <1>3. fileStatus' # "cancelled"
    BY <1>1 DEF OneInv, Spared
  <1>4. worker[i] \in Worker /\ worker \in [Invocation -> Worker]
    BY Steps DEF ChainInv, WorkersTyped
  <1>5. ASSUME row' = row, UNCHANGED content PROVE RowsHold /\ InOrder'
    BY <1>5, RowsRest, OrderStays DEF Begun, StageJob
  <1>6. CASE Fence(i)
    <2>1. /\ worker[i].pc = "replied" /\ Goto(i, "fenced")
          /\ row' = row /\ UNCHANGED content /\ UNCHANGED readiness
      BY <1>2, <1>6 DEF Fence, At, fileVars
    <2>2. HoldsRow(i, My(i)) /\ (worker[i].outcome = "ok" <=> Done(MyStage(i)))
      BY <1>2, <2>1 DEF HoldsRow, HoldPc, Knows
    <2>3. QED
      BY <1>1, <1>5, <2>1, <2>2, Steps, GoesOn
  <1>7. CASE Complete(i)
    <2>1. /\ worker[i].pc = "merged" \/ (worker[i].pc = "fenced" /\ worker[i].outcome = "ok")
          /\ SetRow(My(i), "completed") /\ UNCHANGED content /\ UNCHANGED readiness
          /\ Return(i) \/ Goto(i, "advancing")
      BY <1>7 DEF Complete, At, fileVars
    <2>2. Done(MyStage(i)) /\ worker[i].pc \in HoldPc
      BY <1>2, <2>1 DEF Knows, HoldPc
    <2>3. RowsHold /\ InOrder'
      BY <1>1, <2>1, <2>2, CompletesRow
    <2>4. CASE Return(i)
      BY <1>1, <1>3, <2>1, <2>3, <2>4, Returns
    <2>5. CASE Goto(i, "advancing")
      BY <1>1, <2>1, <2>2, <2>3, <2>5, Steps, GoesOn
    <2>6. QED
      BY <2>1, <2>4, <2>5
  <1>8. CASE Advance(i)
    <2>1. /\ worker[i].pc = "advancing" /\ row' = Enqueued(row, 1, Successor(MyStage(i)))
          /\ UNCHANGED content /\ UNCHANGED readiness /\ Return(i)
      BY <1>2, <1>8 DEF Advance, At, fileVars
    <2>2. Done(MyStage(i)) /\ MyStage(i) # Final
      BY <1>2, <2>1, AtWork DEF Knows, Fits
    <2>3. PICK k \in DOMAIN Chain :
            Chain[k] = MyStage(i) /\ k + 1 \in DOMAIN Chain /\ Successor(MyStage(i)) = Chain[k + 1]
      BY <1>2, <2>2, SuccessorAt
    <2>4. ASSUME NEW l \in DOMAIN Chain, l < k + 1 PROVE Done(Chain[l])
      <3>1. k \in Int /\ l \in Int
        BY ChainAssumption
      <3>2. l = k \/ l < k
        BY <2>4, <3>1
      <3>3. QED
        BY <1>2, <2>2, <2>3, <3>2 DEF OneInv, InOrder
    <2>5. RowsHold /\ InOrder'
      BY <1>1, <1>2, <2>1, <2>3, <2>4, NextStage
    <2>6. QED
      BY <1>1, <1>3, <2>1, <2>5, Returns
  <1>9. CASE DegradeRead(i)
    <2>1. /\ worker[i].pc = "fenced" /\ worker[i].outcome = "resource" /\ MyStage(i) \in Substage
          /\ worker' = [worker EXCEPT ![i].pc = "degrading", ![i].seen = content]
          /\ row' = row /\ UNCHANGED content /\ UNCHANGED readiness
      BY <1>9 DEF DegradeRead, At, fileVars
    <2>2. /\ OnlyMover(i) /\ worker'[i].pc = "degrading" /\ worker'[i].job = My(i)
          /\ worker'[i].outcome = worker[i].outcome /\ worker'[i].seen = content
      BY <1>2, <1>4, <2>1 DEF OnlyMover, Worker
    <2>3. HoldsRow(i, My(i)) /\ ~Done(MyStage(i)) /\ MyStage(i) # Final
      BY <1>2, <2>1, ChainAssumption DEF HoldsRow, HoldPc, Knows
    <2>4. QED
      BY <1>1, <1>5, <2>1, <2>2, <2>3, GoesOn
  <1>10. CASE Fail(i)
    <2>1. /\ worker[i].pc = "fenced" /\ worker[i].outcome # "ok" /\ Goto(i, "failed")
          /\ SetRow(My(i), "failed") /\ UNCHANGED content /\ UNCHANGED readiness
      BY <1>10 DEF Fail, At, fileVars
    <2>2. ~Done(MyStage(i)) /\ worker[i].pc \in HoldPc /\ worker[i].pc # "idle"
      BY <1>2, <2>1 DEF Knows, HoldPc
    <2>3. RowsHold /\ InOrder' /\ row'[My(i)].status = "failed"
      BY <2>1, <2>2, FailsRow
    <2>4. ASSUME NEW j, j = My(i) PROVE Left(j)'
      <3>1. HoldsRow(i, j) /\ \A h \in Handler : Busy(h) => HJob(h) # j
        BY <1>1, <2>2, <2>4, NoHandlerLeft
      <3>2. ~HoldsRow(i, j)'
        BY <2>1, Steps DEF HoldsRow, HoldPc
      <3>3. ASSUME NEW k \in Invocation, k # i PROVE ~HoldsRow(k, j)'
        <4>1. ~HoldsRow(k, j)
          BY <1>2, <2>4, <3>1, <3>3 DEF Exclusive
        <4>2. worker'[k] = worker[k]
          BY <2>1, <3>3, Steps DEF OnlyMover
        <4>3. QED
          BY <4>1, <4>2 DEF HoldsRow
      <3>4. QED
        BY <1>1, <3>1, <3>2, <3>3 DEF Left, Busy, HJob
    <2>5. QED
      BY <1>1, <2>1, <2>2, <2>3, <2>4, Steps, GoesOn
  <1>11. ASSUME worker[i].pc \in {"failed", "noting"}, OnlyMover(i), UNCHANGED row,
                worker'[i].pc \notin HoldPc \cup {"stale", "requeuing"}, NEW j, j = My(i)
         PROVE  Left(j)' /\ row'[j].status = "failed" /\ ~Done(MyStage(i))
    <2>1. Left(j) /\ row[j].status = "failed" /\ ~Done(MyStage(i))
      BY <1>2, <1>11 DEF Knows
    <2>2. Left(j)'
      BY <1>1, <1>11, <2>1, LeftStays DEF HoldsRow
    <2>3. QED
      BY <1>11, <2>1, <2>2
  <1>12. CASE NoteRead(i)
    <2>1. /\ worker[i].pc = "failed" /\ row' = row /\ UNCHANGED content /\ UNCHANGED readiness
          /\ worker' = [worker EXCEPT ![i].pc = "noting", ![i].seen.payload = content.payload]
      BY <1>12 DEF NoteRead, At, fileVars
    <2>2. /\ OnlyMover(i) /\ worker'[i].pc = "noting" /\ worker'[i].job = My(i)
          /\ worker'[i].outcome = worker[i].outcome /\ worker'[i].seen.payload = content.payload
      <3>1. worker[i].seen \in Content
        BY <1>4 DEF Worker
      <3>2. QED
        BY <1>2, <1>4, <2>1, <3>1 DEF OnlyMover, Worker, Content
    <2>3. "noting" \notin HoldPc \cup {"stale", "requeuing"}
      BY DEF HoldPc
    <2>4. ASSUME NEW j, j = My(i)
          PROVE  Left(j)' /\ row'[j].status = "failed" /\ ~Done(MyStage(i))
      BY <1>11, <2>1, <2>2, <2>3, <2>4
    <2>5. QED
      BY <1>1, <1>5, <2>1, <2>2, <2>4, GoesOn
  <1>13. CASE NoteWrite(i)
    <2>1. /\ worker[i].pc = "noting" /\ row' = row /\ UNCHANGED readiness
          /\ content' = [content EXCEPT !.payload = worker[i].seen.payload]
          /\ worker' = [worker EXCEPT ![i].pc = "noted", ![i].seen = Blank]
      BY <1>13 DEF NoteWrite, At, fileVars
    <2>2. content' = content
      <3>1. worker[i].seen.payload = content.payload
        BY <1>2, <2>1 DEF Knows
      <3>2. content \in [output : Output, payload : Payload]
        BY DEF ChainInv, FileTyped, Content
      <3>3. QED
        BY <2>1, <3>1, <3>2
    <2>3. /\ OnlyMover(i) /\ worker'[i].pc = "noted" /\ worker'[i].job = My(i)
          /\ worker'[i].outcome = worker[i].outcome
      BY <1>2, <1>4, <2>1 DEF OnlyMover, Worker
    <2>4. "noted" \notin HoldPc \cup {"stale", "requeuing"}
      BY DEF HoldPc
    <2>5. ASSUME NEW j, j = My(i)
          PROVE  Left(j)' /\ row'[j].status = "failed" /\ ~Done(MyStage(i))
      BY <1>11, <2>1, <2>3, <2>4, <2>5
    <2>6. QED
      BY <1>1, <1>5, <2>1, <2>2, <2>3, <2>5, GoesOn
  <1>14. CASE FinalizeFailed(i)
    <2>1. /\ worker[i].pc = "noted" /\ row' = row /\ UNCHANGED content /\ Return(i)
          /\ Finalize(1)
      BY <1>2, <1>14 DEF FinalizeFailed, At, fileVars
    <2>2. row[<<1, MyStage(i)>>].status = "failed"
      BY <1>2, <2>1 DEF Knows, StageJob
    <2>3. readiness' = "failed"
      BY <1>2, <2>1, <2>2 DEF Finalize, Verdict
    <2>4. QED
      BY <1>1, <1>3, <1>5, <2>1, <2>3, Returns
  <1>15. QED
    BY <1>6, <1>7, <1>8, <1>9, <1>10, <1>12, <1>13, <1>14

\* What only a cancel or an older generation leads to does not happen.
LEMMA NeverHappens ==
  ASSUME OneGeneration, ChainInv, OneInv, NEW i \in Invocation
  PROVE  /\ ~Stop(i) /\ ~CancelFile(i) /\ ~RetryExtract(i) /\ ~CancelStale(i) /\ ~BeginRequeue(i)
         /\ \A s : ~RequeueMissingRead(i, s)
         /\ ~RequeueMissingWrite(i) /\ ~Revive(i) /\ ~Requeue(i)
         /\ \A h, outcome : ~LoseCall(i, h, outcome)
         /\ ~RequestCancel
  <1>1. Knows(worker[i])
    BY Steps
  <1>2. worker[i].pc \notin Elsewhere /\ worker[i].outcome # "missing"
    BY <1>1 DEF Knows
  <1>3. ~Stop(i)
    <2>1. worker[i].pc # "idle" => My(i) \in Job
      BY AtStage
    <2>2. QED
      BY <1>2, <2>1 DEF Stop, At, Elsewhere, OneInv, Spared
  <1>4. /\ ~CancelFile(i) /\ ~RetryExtract(i) /\ ~CancelStale(i) /\ ~BeginRequeue(i)
        /\ \A s : ~RequeueMissingRead(i, s)
        /\ ~RequeueMissingWrite(i) /\ ~Revive(i) /\ ~Requeue(i)
    BY <1>2 DEF CancelFile, RetryExtract, CancelStale, BeginRequeue, RequeueMissingRead,
                RequeueMissingWrite, Revive, Requeue, At, Elsewhere
  <1>5. ~RequestCancel /\ \A h, outcome : ~LoseCall(i, h, outcome)
    BY DEF OneGeneration, RequestCancel, LoseCall
  <1>6. QED
    BY <1>3, <1>4, <1>5

\* The draft of the extraction is the first that is written.
LEMMA FirstDraft ==
  ASSUME OneGeneration, ChainInv, OneInv, NEW i \in Invocation, NEW kind \in {"shell", "minimal"},
         worker[i].pc \in {"normalizing", "parking"}, content' = Draft(kind, My(i)),
         \/ worker[i].pc = "normalizing" /\ Goto(i, "published")
         \/ worker[i].pc = "parking" /\ Return(i),
         fileStatus' # "cancelled",
         UNCHANGED <<row, activeGen, enrichment, readiness, handler, poll>>
  PROVE  OneInv'
  <1>1. /\ My(i) = Extraction /\ My(i) = worker[i].job /\ ~Started /\ activeGen = 1
        /\ row[Extraction].attempt > 0 /\ row[Extraction].status # "absent"
        /\ worker[i] \in Worker /\ worker[i].outcome # "missing"
    <2>1. Knows(worker[i]) /\ worker[i].pc # "idle"
      BY Steps
    <2>2. QED
      BY <2>1, Steps, AtStage DEF Knows, Drafting, NotYet
  <1>2. \A s \in Bounded : ~Begun(s) /\ ~Done(s)
    BY <1>1 DEF OneInv, InOrder
  <1>3. \A h \in Handler : ~Busy(h)
    BY <1>1, AtStage
  <1>4. ASSUME NEW k \in Invocation, k # i PROVE worker[k].pc = "idle" /\ worker[k] = NoWorker
    <2>1. worker[k].pc # "idle" => My(k) = StageJob(MyStage(k)) /\ My(k) \in Job /\ row[My(k)].status # "absent"
      BY AtStage, Steps DEF Knows
    <2>2. worker[k].pc # "idle" => MyStage(k) \in Bounded \/ My(k) = Extraction
      BY <2>1, Stages, OneJobs DEF MyStage, Extraction
    <2>3. worker[k].pc # "idle" => My(k) = Extraction
      BY <1>2, <2>1, <2>2 DEF Begun
    <2>4. worker[k].pc = "idle"
      BY <1>1, <1>4, <2>3 DEF OneInv, ExtractionOnce
    <2>5. QED
      BY <2>4, AtStage
  <1>5. /\ content'.output.gen = 1 /\ content'.payload.kind = kind
        /\ \A s \in Bounded : content'.output.result[s] = 0
    BY <1>1, OneJobs DEF Draft, Blank
  <1>6. Started' /\ \A s \in Bounded : ~Done(s)' /\ ~Begun(s)'
    BY <1>2, <1>5 DEF Started, Done, Begun, StageJob
  <1>7. InOrder'
    <2>1. \A k \in DOMAIN Chain : Chain[k] \in Bounded
      BY Stages
    <2>2. \A s \in Bounded : row'[StageJob(s)].status # "completed"
      BY <1>6 DEF Begun, StageJob
    <2>3. QED
      BY <1>6, <2>1, <2>2 DEF InOrder, StageJob
  <1>8. Extraction' = Extraction /\ OnlyMover(i)
    BY Steps DEF Extraction, StageJob
  <1>9. \A k \in Invocation : My(k)' = My(k) \/ (k = i /\ My(k)' = NoJob)
    BY <1>8, Steps DEF OnlyMover, My, NoWorker
  <1>10. ExtractionOnce'
    BY <1>1, <1>6, <1>8, <1>9, OneJobs DEF OneInv, ExtractionOnce
  <1>11. Spared' /\ Handled'
    BY <1>3 DEF OneInv, Spared, Handled, Busy
  <1>12. ASSUME NEW k \in Invocation PROVE Knows(worker[k])'
    <2>1. CASE worker'[k] = NoWorker
      BY <1>8, <2>1, OneJobs DEF Knows, NoWorker, Elsewhere, NotYet, Drafting
    <2>2. CASE k = i /\ worker[i].pc = "normalizing" /\ Goto(i, "published")
      BY <1>1, <1>6, <1>8, <2>2, Steps DEF Knows, Elsewhere, NotYet, Drafting
    <2>3. QED
      BY <1>4, <1>8, <2>1, <2>2, Steps DEF OnlyMover
  <1>13. Published'
    BY <1>5, <1>6, Stages DEF Published
  <1>14. Settled'
    BY <1>2, Stages DEF OneInv, Settled
  <1>15. Polled'
    <2>1. poll.pc # "idle" => \A s \in Bounded : poll.output.result[s] # 1
      BY <1>2 DEF OneInv, Polled
    <2>2. QED
      BY <1>6, <2>1 DEF Polled, OneInv
  <1>16. QED
    BY <1>7, <1>10, <1>11, <1>12, <1>13, <1>14, <1>15 DEF OneInv

LEMMA OneDrafts ==
  ASSUME OneGeneration, ChainInv, OneInv, NEW i \in Invocation, Publish(i) \/ Park(i)
  PROVE  OneInv'
  <1>1. fileStatus # "cancelled"
    BY DEF OneInv, Spared
  <1>2. CASE Publish(i)
    BY <1>1, <1>2, FirstDraft DEF Publish, At
  <1>3. CASE Park(i)
    BY <1>1, <1>3, FirstDraft DEF Park, At
  <1>4. QED
    BY <1>2, <1>3

\* Steps of the handlers, and what the workers see of them.
LEMMA LeftGrows ==
  ASSUME \A i \in Invocation : \A j : HoldsRow(i, j)' => HoldsRow(i, j),
         \A h \in Handler : Busy(h)' => Busy(h) /\ HJob(h)' = HJob(h)
  PROVE  \A j : Left(j) => Left(j)'
  BY DEF Left

\* A worker that stays where it is.
LEMMA StillKnows ==
  ASSUME OneGeneration, ChainInv, OneInv, NEW i \in Invocation, worker'[i] = worker[i],
         UNCHANGED row, \A j : Left(j) => Left(j)', Started' <=> Started,
         \A s \in Bounded : Done(s) => Done(s)',
         \A s : s = MyStage(i) /\ Done(s)' => Done(s) \/ worker[i].pc \in {"merged", "advancing"},
         worker[i].pc = "degrading" => content' = content,
         worker[i].pc = "noting" => content'.payload = content.payload
  PROVE  Knows(worker[i])'
  <1>1. Knows(worker[i]) /\ My(i) = worker[i].job /\ MyStage(i) = StageOf(worker[i].job)
    BY Steps DEF MyStage
  <1>2. worker[i].pc \in ChainPc => MyStage(i) \in Bounded
    BY AtStage
  <1>3. Extraction' = Extraction
    BY DEF Extraction, StageJob
  <1>4. ASSUME NEW w, w = worker[i], NEW j, j = w.job, NEW s, s = StageOf(j)
        PROVE  Knows(w)'
    <2>1. /\ w.pc \in {"replied", "fenced"} => (w.outcome = "ok" <=> Done(s)')
          /\ w.pc \in {"merged", "advancing"} => Done(s)'
          /\ w.pc \in {"degrading", "failed", "noting", "noted"} => ~Done(s)'
      BY <1>1, <1>2, <1>4 DEF Knows, ChainPc
    <2>2. w.pc \in {"failed", "noting", "noted"} => row'[j].status = "failed" /\ Left(j)'
      BY <1>1, <1>4 DEF Knows
    <2>3. /\ w.pc = "degrading" => s # Final /\ w.seen = content'
          /\ w.pc = "noting" => w.seen.payload = content'.payload
          /\ w.pc # "idle" => row'[j].status # "absent"
          /\ w.pc \notin Elsewhere /\ w.outcome # "missing"
          /\ Started' /\ j = Extraction' => w.pc \notin NotYet
          /\ w.pc \in Drafting => j = Extraction'
          /\ w.pc \in Drafting \ NotYet => Started'
          /\ j = Extraction' /\ w.pc \in {"working", "normalizing", "parking"} =>
               row'[Extraction'].attempt > 0
      BY <1>1, <1>3, <1>4 DEF Knows
    <2>4. QED
      BY <1>3, <1>4, <2>1, <2>2, <2>3 DEF Knows
  <1>5. QED
    BY <1>4 DEF Knows, Left, HoldsRow, Done, Busy, HJob

\* A worker that its handler answers.
LEMMA HearsReply ==
  ASSUME OneGeneration, ChainInv, OneInv, NEW i \in Invocation, worker[i].pc = "calling",
         UNCHANGED row, worker'[i].pc = "replied", worker'[i].job = My(i),
         worker'[i].outcome # "missing",
         \A s : s = MyStage(i) => (worker'[i].outcome = "ok" <=> Done(s)')
  PROVE  Knows(worker[i])'
  <1>1. My(i) # Extraction /\ row[My(i)].status # "absent" /\ MyStage(i) = StageOf(My(i))
    BY OnStage DEF ChainPc, MyStage
  <1>2. Extraction' = Extraction
    BY DEF Extraction, StageJob
  <1>3. ASSUME NEW w, w = worker'[i], NEW j, j = My(i), NEW s, s = MyStage(i)
        PROVE  Knows(w)'
    <2>1. /\ w.job = j /\ StageOf(w.job) = s /\ j # Extraction' /\ row'[j].status # "absent"
          /\ w.pc = "replied" /\ w.outcome # "missing" /\ (w.outcome = "ok" <=> Done(s)')
      BY <1>1, <1>2, <1>3
    <2>2. QED
      BY <2>1 DEF Knows, Elsewhere, NotYet, Drafting
  <1>4. QED
    BY <1>3 DEF Knows, Left, HoldsRow, Done, Busy, HJob

\* Handlers go on or stop; workers hear of it or die.
LEMMA Serves ==
  ASSUME OneGeneration, ChainInv, OneInv,
         UNCHANGED <<row, activeGen, fileStatus, poll>>,
         readiness' = readiness \/ readiness' # "ready",
         InOrder', Published', Started' <=> Started, \A s \in Bounded : Done(s) => Done(s)',
         \A i \in Invocation :
           /\ Knows(worker[i])'
           /\ \A j : HoldsRow(i, j)' => HoldsRow(i, j)
           /\ My(i)' = My(i) \/ My(i)' = NoJob,
         \A h \in Handler : Busy(h)' =>
           /\ Busy(h) /\ HJob(h)' = HJob(h)
           /\ \A i \in Invocation : handler[h].caller = i =>
                handler'[h].caller = i \/ worker'[i].pc = "idle"
           /\ handler'[h].pc \in {"compute", "write"} =>
                /\ \A s : s = HStage(h) => ~Done(s)'
                /\ handler'[h].seen.output = content'.output
           /\ handler'[h].pc = "finalize" => HStage(h) = Final /\ Done(Final)'
  PROVE  OneInv'
  <1>1. \A j : Left(j) => Left(j)'
    BY LeftGrows
  <1>2. Extraction' = Extraction /\ NoJob # Extraction
    BY OneJobs DEF Extraction, StageJob
  <1>3. ExtractionOnce'
    BY <1>2 DEF OneInv, ExtractionOnce
  <1>4. Spared'
    BY DEF OneInv, Spared
  <1>5. ASSUME NEW h \in Handler, Busy(h)', NEW j, j = HJob(h), NEW s, s = HStage(h)
        PROVE  /\ row'[j].status \in {"running", "failed"} /\ ~row'[j].stale
               /\ \A k \in Handler : Busy(k)' /\ HJob(k)' = j => k = h
               /\ \A i \in Invocation : HoldsRow(i, j)' => handler'[h].caller = i
               /\ handler'[h].pc \in {"compute", "write"} => ~Done(s)' /\ handler'[h].seen.output = content'.output
               /\ handler'[h].pc = "finalize" => s = Final /\ Done(Final)'
    <2>1. Busy(h) /\ HJob(h)' = HJob(h)
      BY <1>5
    <2>2. ASSUME NEW i \in Invocation, HoldsRow(i, j)' PROVE handler'[h].caller = i
      <3>1. handler[h].caller = i
        BY <1>5, <2>1, <2>2 DEF OneInv, Handled
      <3>2. worker'[i].pc # "idle"
        BY <2>2 DEF HoldsRow, HoldPc
      <3>3. QED
        BY <1>5, <3>1, <3>2
    <2>3. QED
      BY <1>5, <2>1, <2>2 DEF OneInv, Handled
  <1>6. Handled'
    <2>1. ASSUME NEW h \in Handler, Busy(h)' PROVE HJob(h)' = HJob(h) /\ HStage(h)' = HStage(h)
      BY <2>1 DEF HStage
    <2>2. QED
      BY <1>5, <2>1 DEF Handled, HoldsRow, Done
  <1>7. Settled'
    <2>1. SUFFICES ASSUME readiness' = "ready"
                   PROVE  /\ Done(Final)' /\ poll'.pc = "idle" /\ Left(StageJob(Final))'
                          /\ row'[StageJob(Final)].status \in {"completed", "failed"}
      BY DEF Settled, StageJob
    <2>2. /\ Done(Final) /\ poll.pc = "idle"
          /\ row[StageJob(Final)].status \in {"completed", "failed"} /\ Left(StageJob(Final))
      BY <2>1 DEF OneInv, Settled
    <2>3. ASSUME NEW j, j = StageJob(Final)
          PROVE  Left(j)'
      BY <1>1, <2>2, <2>3
    <2>4. QED
      BY <2>2, <2>3, Stages DEF StageJob
  <1>8. Polled'
    BY DEF OneInv, Polled
  <1>9. QED
    BY <1>3, <1>4, <1>6, <1>7, <1>8 DEF OneInv

\* The answer of a handler to its caller.
LEMMA RepliesTo ==
  ASSUME OneGeneration, ChainInv, OneInv, NEW h \in Handler, Busy(h),
         NEW outcome, NEW missing, Reply(h, outcome, missing)
  PROVE  /\ ~Busy(h)' /\ \A k \in Handler : k # h => handler'[k] = handler[k]
         /\ \A i \in Invocation :
              \/ worker'[i] = worker[i]
              \/ /\ worker[i].pc = "calling" /\ My(i) = HJob(h) /\ worker'[i].pc = "replied"
                 /\ worker'[i].job = My(i) /\ worker'[i].outcome = outcome
         /\ \A i \in Invocation : My(i)' = My(i) /\ \A j : HoldsRow(i, j)' => HoldsRow(i, j)
  <1>1. ~Busy(h)' /\ \A k \in Handler : k # h => handler'[k] = handler[k]
    BY DEF Reply, Busy, NoHandler, ChainInv, HandlersTyped
  <1>2. ASSUME NEW i \in Invocation
        PROVE  \/ worker'[i] = worker[i]
               \/ /\ worker[i].pc = "calling" /\ My(i) = HJob(h) /\ worker'[i].pc = "replied"
                  /\ worker'[i].job = My(i) /\ worker'[i].outcome = outcome
    <2>1. worker[i] \in Worker /\ worker \in [Invocation -> Worker]
      BY Steps DEF ChainInv, WorkersTyped
    <2>2. CASE handler[h].caller # i \/ i = Nobody
      BY <2>1, <2>2 DEF Reply
    <2>3. CASE handler[h].caller = i /\ i # Nobody
      <3>1. worker[i].pc = "calling" /\ My(i) = HJob(h)
        BY <2>3 DEF ChainInv, Callers, At
      <3>2. worker'[i] = [worker[i] EXCEPT !.pc = "replied", !.outcome = outcome, !.missing = missing]
        BY <2>1, <2>3 DEF Reply
      <3>3. worker'[i].pc = "replied" /\ worker'[i].job = worker[i].job /\ worker'[i].outcome = outcome
        BY <2>1, <3>2 DEF Worker
      <3>4. QED
        BY <3>1, <3>3 DEF My
    <2>4. QED
      BY <2>2, <2>3
  <1>3. \A i \in Invocation : My(i)' = My(i) /\ \A j : HoldsRow(i, j)' => HoldsRow(i, j)
    BY <1>2 DEF My, HoldsRow, HoldPc
  <1>4. QED
    BY <1>1, <1>2, <1>3

\* Handlers that do not write the file, and workers that die.
LEMMA OneServes ==
  ASSUME OneGeneration, ChainInv, OneInv,
         UNCHANGED <<row, activeGen, content, fileStatus, enrichment, poll>>,
         readiness' = readiness \/ readiness' # "ready",
         \A i \in Invocation :
           \/ worker'[i] = worker[i]
           \/ worker'[i] = NoWorker
           \/ /\ worker[i].pc = "calling" /\ worker'[i].pc = "replied" /\ worker'[i].job = My(i)
              /\ worker'[i].outcome # "missing" /\ (worker'[i].outcome = "ok" <=> Done(MyStage(i))),
         \A h \in Handler : Busy(h)' =>
           /\ Busy(h) /\ HJob(h)' = HJob(h)
           /\ \A i \in Invocation : handler[h].caller = i =>
                handler'[h].caller = i \/ worker'[i].pc = "idle"
           /\ handler'[h].pc \in {"compute", "write"} =>
                ~Done(HStage(h)) /\ handler'[h].seen.output = content.output
           /\ handler'[h].pc = "finalize" => HStage(h) = Final /\ Done(Final)
  PROVE  OneInv'
  <1>1. (\A s : Done(s)' <=> Done(s)) /\ (Started' <=> Started)
    BY DEF Done, Started
  <1>2. InOrder' /\ Published'
    BY <1>1, OrderStays DEF Begun, StageJob, OneInv, Published
  <1>3. ASSUME NEW i \in Invocation
        PROVE  /\ \A j : HoldsRow(i, j)' => HoldsRow(i, j)
               /\ My(i)' = My(i) \/ My(i)' = NoJob
    BY DEF HoldsRow, HoldPc, My, NoWorker
  <1>4. \A j : Left(j) => Left(j)'
    BY <1>3, LeftGrows
  <1>5. ASSUME NEW i \in Invocation PROVE Knows(worker[i])'
    <2>1. CASE worker'[i] = worker[i]
      BY <1>1, <1>4, <2>1, StillKnows
    <2>2. CASE worker'[i] = NoWorker
      <3>1. Extraction' = Extraction /\ NoJob # Extraction
        BY OneJobs DEF Extraction, StageJob
      <3>2. QED
        BY <2>2, <3>1 DEF Knows, NoWorker, Elsewhere, NotYet, Drafting
    <2>3. CASE /\ worker[i].pc = "calling" /\ worker'[i].pc = "replied" /\ worker'[i].job = My(i)
               /\ worker'[i].outcome # "missing" /\ (worker'[i].outcome = "ok" <=> Done(MyStage(i)))
      BY <1>1, <2>3, HearsReply
    <2>4. QED
      BY <2>1, <2>2, <2>3
  <1>6. ASSUME NEW h \in Handler, Busy(h)'
        PROVE  /\ Busy(h) /\ HJob(h)' = HJob(h)
               /\ \A i \in Invocation : handler[h].caller = i =>
                    handler'[h].caller = i \/ worker'[i].pc = "idle"
               /\ handler'[h].pc \in {"compute", "write"} =>
                    /\ \A s : s = HStage(h) => ~Done(s)'
                    /\ handler'[h].seen.output = content'.output
               /\ handler'[h].pc = "finalize" => HStage(h) = Final /\ Done(Final)'
    BY <1>1, <1>6
  <1>7. QED
    BY <1>1, <1>2, <1>3, <1>5, <1>6, Serves

LEMMA OneDies ==
  ASSUME OneGeneration, ChainInv, OneInv, NEW i \in Invocation, Die(i)
  PROVE  OneInv'
  <1>1. /\ UNCHANGED <<row, activeGen, content, fileStatus, enrichment, readiness, poll>>
        /\ worker' = [worker EXCEPT ![i] = NoWorker] /\ worker \in [Invocation -> Worker]
        /\ handler' = [h \in Handler |-> IF handler[h].caller = i
                                          THEN [handler[h] EXCEPT !.caller = Nobody] ELSE handler[h]]
    BY DEF Die, Return, fileVars, ChainInv, WorkersTyped
  <1>2. worker'[i].pc = "idle" /\ \A k \in Invocation : worker'[k] = worker[k] \/ worker'[k] = NoWorker
    BY <1>1 DEF NoWorker
  <1>3. ASSUME NEW h \in Handler, Busy(h)'
        PROVE  /\ Busy(h) /\ HJob(h)' = HJob(h)
               /\ \A k \in Invocation : handler[h].caller = k =>
                    handler'[h].caller = k \/ worker'[k].pc = "idle"
               /\ handler'[h].pc \in {"compute", "write"} =>
                    ~Done(HStage(h)) /\ handler'[h].seen.output = content.output
               /\ handler'[h].pc = "finalize" => HStage(h) = Final /\ Done(Final)
    <2>1. handler[h] \in Handling
      BY DEF ChainInv, HandlersTyped
    <2>2. /\ handler'[h].pc = handler[h].pc /\ handler'[h].job = handler[h].job
          /\ handler'[h].seen = handler[h].seen
          /\ handler'[h].caller = handler[h].caller \/ handler[h].caller = i
      BY <1>1, <2>1 DEF Handling
    <2>3. Busy(h) /\ HJob(h)' = HJob(h)
      BY <1>3, <2>2 DEF Busy, HJob
    <2>4. QED
      BY <1>2, <2>2, <2>3 DEF OneInv, Handled
  <1>4. QED
    BY <1>1, <1>2, <1>3, OneServes

LEMMA OneAnswers ==
  ASSUME OneGeneration, ChainInv, OneInv, NEW h \in Handler, Busy(h),
         NEW outcome, NEW missing, Reply(h, outcome, missing),
         outcome # "missing", outcome = "ok" <=> Done(HStage(h)),
         UNCHANGED <<row, activeGen, content, fileStatus, enrichment, poll>>,
         readiness' = readiness \/ readiness' # "ready"
  PROVE  OneInv'
  <1>1. /\ ~Busy(h)' /\ \A k \in Handler : k # h => handler'[k] = handler[k]
        /\ \A i \in Invocation :
             \/ worker'[i] = worker[i]
             \/ /\ worker[i].pc = "calling" /\ My(i) = HJob(h) /\ worker'[i].pc = "replied"
                /\ worker'[i].job = My(i) /\ worker'[i].outcome = outcome
    BY RepliesTo
  <1>2. ASSUME NEW i \in Invocation
        PROVE  \/ worker'[i] = worker[i]
               \/ /\ worker[i].pc = "calling" /\ worker'[i].pc = "replied" /\ worker'[i].job = My(i)
                  /\ worker'[i].outcome # "missing" /\ (worker'[i].outcome = "ok" <=> Done(MyStage(i)))
    BY <1>1 DEF MyStage, HStage
  <1>3. ASSUME NEW k \in Handler, Busy(k)'
        PROVE  /\ Busy(k) /\ HJob(k)' = HJob(k)
               /\ \A i \in Invocation : handler[k].caller = i =>
                    handler'[k].caller = i \/ worker'[i].pc = "idle"
               /\ handler'[k].pc \in {"compute", "write"} =>
                    ~Done(HStage(k)) /\ handler'[k].seen.output = content.output
               /\ handler'[k].pc = "finalize" => HStage(k) = Final /\ Done(Final)
    <2>1. k # h /\ handler'[k] = handler[k]
      BY <1>1, <1>3
    <2>2. Busy(k) /\ HJob(k)' = HJob(k)
      BY <1>3, <2>1 DEF Busy, HJob
    <2>3. QED
      BY <2>1, <2>2 DEF OneInv, Handled
  <1>4. QED
    BY <1>2, <1>3, OneServes

LEMMA OneProceeds ==
  ASSUME OneGeneration, ChainInv, OneInv, NEW h \in Handler, Busy(h),
         \A k \in Handler : k # h => handler'[k] = handler[k],
         handler'[h].job = handler[h].job, handler'[h].caller = handler[h].caller,
         handler'[h].pc \in {"compute", "write"} =>
           ~Done(HStage(h)) /\ handler'[h].seen.output = content.output,
         handler'[h].pc # "finalize",
         UNCHANGED <<row, activeGen, content, fileStatus, enrichment, readiness, worker, poll>>
  PROVE  OneInv'
  <1>1. ASSUME NEW k \in Handler, Busy(k)'
        PROVE  /\ Busy(k) /\ HJob(k)' = HJob(k)
               /\ \A i \in Invocation : handler[k].caller = i =>
                    handler'[k].caller = i \/ worker'[i].pc = "idle"
               /\ handler'[k].pc \in {"compute", "write"} =>
                    ~Done(HStage(k)) /\ handler'[k].seen.output = content.output
               /\ handler'[k].pc = "finalize" => HStage(k) = Final /\ Done(Final)
    <2>1. CASE k = h
      BY <2>1 DEF HJob
    <2>2. CASE k # h
      <3>1. handler'[k] = handler[k]
        BY <2>2
      <3>2. Busy(k) /\ HJob(k)' = HJob(k)
        BY <1>1, <3>1 DEF Busy, HJob
      <3>3. QED
        BY <3>1, <3>2 DEF OneInv, Handled
    <2>3. QED
      BY <2>1, <2>2
  <1>2. QED
    BY <1>1, OneServes

\* What a stage needs is there when it is computed.
LEMMA NothingMissing ==
  ASSUME OneGeneration, ChainInv, OneInv, NEW h \in Handler, Busy(h), NEW s \in Needs[HStage(h)]
  PROVE  Done(s)
  <1>1. HStage(h) \in Bounded /\ Begun(HStage(h))
    BY AtStage
  <1>2. PICK k \in DOMAIN Chain : Chain[k] = HStage(h)
    BY <1>1 DEF Bounded, Range
  <1>3. PICK l \in 1 .. k - 1 : s = Chain[l]
    BY <1>2, ChainAssumption
  <1>4. DOMAIN Chain = 1 .. Len(Chain) /\ Len(Chain) \in Nat
    BY ChainAssumption
  <1>5. l \in DOMAIN Chain /\ l < k
    BY <1>2, <1>3, <1>4
  <1>6. QED
    BY <1>1, <1>2, <1>3, <1>5 DEF OneInv, InOrder

LEMMA OneHandles ==
  ASSUME OneGeneration, ChainInv, OneInv, NEW h \in Handler,
         \/ PreFence(h) \/ Read(h) \/ PostFence(h) \/ FinalizeChain(h)
         \/ \E outcome \in {"resource", "error"} : ComputeFails(h, outcome)
  PROVE  OneInv'
  <1>1. Busy(h) /\ UNCHANGED <<row, activeGen, content, fileStatus, enrichment, poll>>
    BY DEF PreFence, Read, PostFence, FinalizeChain, ComputeFails, Busy, fileVars
  <1>2. /\ activeGen = 1 /\ HGen(h) = 1 /\ HStage(h) \in Bounded /\ Started
        /\ HJob(h) = StageJob(HStage(h)) /\ HJob(h) \in Job
    BY <1>1, AtStage
  <1>3. /\ handler \in [Handler -> Handling] /\ handler[h] \in Handling
        /\ content.output.result \in [Bounded -> 0 .. 1] /\ content.output.gen # 0
    BY <1>2, OneJobs DEF ChainInv, HandlersTyped, FileTyped, Content, Output, Started
  <1>4. \A s \in Bounded : content.output.result[s] = 0 <=> ~Done(s)
    BY <1>3 DEF Done
  <1>5. CASE PreFence(h)
    <2>1. handler' = [handler EXCEPT ![h].pc = "read"] /\ UNCHANGED <<worker, readiness>>
      BY <1>2, <1>5 DEF PreFence, HGoto, fileVars
    <2>2. /\ \A k \in Handler : k # h => handler'[k] = handler[k]
          /\ handler'[h].job = handler[h].job /\ handler'[h].caller = handler[h].caller
          /\ handler'[h].pc = "read"
      BY <1>3, <2>1 DEF Handling
    <2>3. QED
      BY <1>1, <2>1, <2>2, OneProceeds
  <1>6. CASE PostFence(h)
    <2>1. /\ handler' = [handler EXCEPT ![h].pc = "write"] /\ UNCHANGED <<worker, readiness>>
          /\ handler[h].pc = "compute"
      BY <1>2, <1>6 DEF PostFence, HGoto, fileVars
    <2>2. /\ \A k \in Handler : k # h => handler'[k] = handler[k]
          /\ handler'[h].job = handler[h].job /\ handler'[h].caller = handler[h].caller
          /\ handler'[h].pc = "write" /\ handler'[h].seen = handler[h].seen
      BY <1>3, <2>1 DEF Handling
    <2>3. ~Done(HStage(h)) /\ handler[h].seen.output = content.output
      BY <1>1, <2>1 DEF OneInv, Handled
    <2>4. QED
      BY <1>1, <2>1, <2>2, <2>3, OneProceeds
  <1>7. CASE Read(h)
    <2>1. CASE Done(HStage(h))
      <3>1. Reply(h, "ok", {}) /\ UNCHANGED readiness
        BY <1>2, <1>3, <1>7, <2>1 DEF Read, Done, fileVars
      <3>2. QED
        BY <1>1, <2>1, <3>1, OneAnswers
    <2>2. CASE ~Done(HStage(h))
      <3>1. {s \in Needs[HStage(h)] : content.output.result[s] = 0} = {}
        BY <1>1, NothingMissing DEF Done
      <3>2. /\ handler' = [handler EXCEPT ![h].pc = "compute", ![h].seen.output = content.output]
            /\ UNCHANGED <<worker, readiness>>
        BY <1>2, <1>3, <1>7, <2>2, <3>1 DEF Read, Done, fileVars
      <3>3. /\ \A k \in Handler : k # h => handler'[k] = handler[k]
            /\ handler'[h].job = handler[h].job /\ handler'[h].caller = handler[h].caller
            /\ handler'[h].pc = "compute" /\ handler'[h].seen.output = content.output
        <4>1. handler[h].seen \in Content
          BY <1>3 DEF Handling
        <4>2. QED
          BY <1>3, <3>2, <4>1 DEF Handling, Content
      <3>4. QED
        BY <1>1, <2>2, <3>2, <3>3, OneProceeds
    <2>3. QED
      BY <2>1, <2>2
  <1>8. ASSUME NEW outcome \in {"resource", "error"}, ComputeFails(h, outcome)
        PROVE  OneInv'
    <2>1. handler[h].pc \in {"compute", "write"} /\ Reply(h, outcome, {}) /\ UNCHANGED readiness
      BY <1>8 DEF ComputeFails, fileVars
    <2>2. ~Done(HStage(h))
      BY <1>1, <2>1 DEF OneInv, Handled
    <2>3. QED
      BY <1>1, <2>1, <2>2, OneAnswers
  <1>9. CASE FinalizeChain(h)
    <2>1. handler[h].pc = "finalize" /\ Finalize(1) /\ Reply(h, "ok", {})
      BY <1>2, <1>9 DEF FinalizeChain
    <2>2. HStage(h) = Final /\ Done(Final) /\ row[HJob(h)].status \in {"running", "failed"}
      BY <1>1, <2>1 DEF OneInv, Handled
    <2>3. row[<<1, HStage(h)>>].status \in {"running", "failed"}
      BY <1>2, <2>2 DEF StageJob
    <2>4. readiness' # "ready"
      BY <1>2, <2>1, <2>3 DEF Finalize, Verdict
    <2>5. QED
      BY <1>1, <2>1, <2>2, <2>4, OneAnswers
  <1>10. QED
    BY <1>5, <1>6, <1>7, <1>8, <1>9

\* The result of a stage is added to the output, by its handler or, for an
\* optional stage, by its worker.
LEMMA Adds ==
  ASSUME OneGeneration, ChainInv, OneInv, NEW t \in Bounded, Begun(t), ~Done(t),
         content'.output = Merged(content.output, StageJob(t)),
         t = Final => content'.payload = Enriched /\ enrichment' = "completed",
         t # Final => content'.payload = content.payload /\ enrichment' = enrichment,
         UNCHANGED <<row, activeGen, fileStatus, readiness, poll>>,
         \A i \in Invocation :
           \/ /\ worker'[i] = worker[i]
              /\ worker[i].pc \in {"replied", "fenced", "degrading", "failed", "noting", "noted"} =>
                   MyStage(i) # t
           \/ /\ worker[i].pc = "calling" /\ MyStage(i) = t /\ worker'[i].pc = "replied"
              /\ worker'[i].job = My(i) /\ worker'[i].outcome = "ok"
           \/ /\ worker[i].pc = "degrading" /\ MyStage(i) = t /\ worker'[i].pc = "merged"
              /\ worker'[i].job = My(i) /\ worker'[i].outcome = worker[i].outcome,
         \A h \in Handler : Busy(h)' =>
           /\ Busy(h) /\ HJob(h)' = HJob(h) /\ handler'[h].caller = handler[h].caller
           /\ handler'[h].pc \in {"compute", "write"} =>
                handler[h].pc \in {"compute", "write"} /\ HStage(h) # t
           /\ handler'[h].pc = "finalize" => HStage(h) = Final /\ (Done(Final) \/ t = Final)
  PROVE  OneInv'
  <1>1. /\ \A s \in Bounded : Done(s)' <=> Done(s) \/ s = t
        /\ Started' <=> Started
    <2>1. content.output \in Output /\ StageOf(StageJob(t)) = t /\ GenOf(StageJob(t)) = 1
      BY Stages, OneJobs DEF ChainInv, FileTyped, Content
    <2>2. content'.output = [content.output EXCEPT !.result[t] = 1]
      BY <2>1 DEF Merged
    <2>3. content.output.result \in [Bounded -> 0 .. MaxGen]
      BY <2>1 DEF Output
    <2>4. /\ content'.output.gen = content.output.gen
          /\ content'.output.result = [content.output.result EXCEPT ![t] = 1]
      BY <2>1, <2>2 DEF Output
    <2>5. QED
      BY <2>3, <2>4 DEF Done, Started
  <1>2. InOrder'
    <2>1. \A k \in DOMAIN Chain : Chain[k] \in Bounded
      BY Stages
    <2>2. \A s : Begun(s)' <=> Begun(s)
      BY DEF Begun, StageJob
    <2>3. QED
      BY <1>1, <2>1, <2>2 DEF OneInv, InOrder, StageJob
  <1>3. Published'
    <2>1. Started'
      BY <1>1 DEF OneInv, InOrder
    <2>2. content'.payload.kind = "enriched" => t = Final \/ Done(Final)
      BY DEF OneInv, Published
    <2>3. QED
      BY <1>1, <2>1, <2>2, Stages DEF OneInv, Published, Enriched
  <1>4. ASSUME NEW i \in Invocation
        PROVE  /\ \A j : HoldsRow(i, j)' => HoldsRow(i, j)
               /\ My(i)' = My(i)
    BY DEF HoldsRow, HoldPc, My
  <1>5. ASSUME NEW h \in Handler, Busy(h)'
        PROVE  /\ Busy(h) /\ HJob(h)' = HJob(h)
               /\ \A i \in Invocation : handler[h].caller = i =>
                    handler'[h].caller = i \/ worker'[i].pc = "idle"
               /\ handler'[h].pc \in {"compute", "write"} =>
                    /\ \A s : s = HStage(h) => ~Done(s)'
                    /\ handler'[h].seen.output = content'.output
               /\ handler'[h].pc = "finalize" => HStage(h) = Final /\ Done(Final)'
    <2>1. Busy(h) /\ HJob(h)' = HJob(h) /\ handler'[h].caller = handler[h].caller
      BY <1>5
    <2>2. handler'[h].pc \notin {"compute", "write"}
      <3>1. SUFFICES ASSUME handler'[h].pc \in {"compute", "write"} PROVE FALSE
        OBVIOUS
      <3>2. handler[h].pc \in {"compute", "write"} /\ HStage(h) # t
        BY <1>5, <3>1
      <3>3. HStage(h) \in Bounded /\ Begun(HStage(h)) /\ ~Done(HStage(h))
        BY <2>1, <3>2, AtStage DEF OneInv, Handled
      <3>4. QED
        BY <3>2, <3>3, OneHole
    <2>3. handler'[h].pc = "finalize" => HStage(h) = Final /\ Done(Final)'
      BY <1>1, <1>5, Stages
    <2>4. QED
      BY <2>1, <2>2, <2>3
  <1>6. \A j : Left(j) => Left(j)'
    BY <1>4, <1>5, LeftGrows
  <1>7. ASSUME NEW i \in Invocation PROVE Knows(worker[i])'
    <2>1. worker[i].pc \in ChainPc =>
            /\ MyStage(i) \in Bounded /\ Begun(MyStage(i)) /\ Knows(worker[i])
            /\ My(i) = worker[i].job /\ MyStage(i) = StageOf(My(i))
      BY OnStage DEF MyStage
    <2>2. CASE /\ worker'[i] = worker[i]
               /\ worker[i].pc \in {"replied", "fenced", "degrading", "failed", "noting", "noted"} =>
                    MyStage(i) # t
      <3>1. worker[i].pc \notin {"degrading", "failed", "noting", "noted"}
        BY <2>1, <2>2, OneHole DEF Knows, ChainPc
      <3>2. CASE worker[i].pc \in {"replied", "fenced", "merged", "advancing"}
        <4>1. MyStage(i) \in Bounded /\ (worker[i].pc \in {"replied", "fenced"} => MyStage(i) # t)
          BY <2>1, <2>2, <3>2 DEF ChainPc
        <4>2. \A s : s = MyStage(i) /\ Done(s)' => Done(s) \/ worker[i].pc \in {"merged", "advancing"}
          BY <1>1, <3>2, <4>1
        <4>3. UNCHANGED row /\ \A s \in Bounded : Done(s) => Done(s)'
          BY <1>1
        <4>4. /\ worker[i].pc = "degrading" => content' = content
              /\ worker[i].pc = "noting" => content'.payload = content.payload
          BY <3>1
        <4>5. QED
          BY <1>1, <1>6, <2>2, <4>2, <4>3, <4>4, StillKnows
      <3>3. CASE worker[i].pc \notin {"replied", "fenced", "merged", "advancing"}
        <4>1. Knows(worker[i]) /\ Extraction' = Extraction
          BY Steps DEF Extraction, StageJob
        <4>2. QED
          BY <1>1, <2>2, <3>1, <3>3, <4>1 DEF Knows
      <3>4. QED
        BY <3>2, <3>3
    <2>3. CASE /\ worker[i].pc = "calling" /\ MyStage(i) = t /\ worker'[i].pc = "replied"
               /\ worker'[i].job = My(i) /\ worker'[i].outcome = "ok"
      BY <1>1, <2>3, HearsReply
    <2>4. CASE /\ worker[i].pc = "degrading" /\ MyStage(i) = t /\ worker'[i].pc = "merged"
               /\ worker'[i].job = My(i) /\ worker'[i].outcome = worker[i].outcome
      <3>1. /\ Knows(worker[i]) /\ My(i) = worker[i].job /\ StageOf(My(i)) = t
            /\ My(i) # Extraction /\ row[My(i)].status # "absent"
        BY <2>1, <2>4, OnStage DEF ChainPc
      <3>2. Extraction' = Extraction /\ Done(t)'
        BY <1>1 DEF Extraction, StageJob
      <3>3. ASSUME NEW w, w = worker'[i], NEW j, j = My(i) PROVE Knows(w)'
        <4>1. /\ w.job = j /\ StageOf(w.job) = t /\ j # Extraction' /\ row'[j].status # "absent"
              /\ w.pc = "merged" /\ w.outcome # "missing"
          BY <2>4, <3>1, <3>2, <3>3 DEF Knows
        <4>2. QED
          BY <3>2, <4>1 DEF Knows, Elsewhere, NotYet, Drafting
      <3>4. QED
        BY <3>3 DEF Knows, Left, HoldsRow, Done, Busy, HJob
    <2>5. QED
      BY <2>2, <2>3, <2>4
  <1>8. QED
    BY <1>1, <1>2, <1>3, <1>4, <1>5, <1>7, Serves

LEMMA OnePersists ==
  ASSUME OneGeneration, ChainInv, OneInv, NEW h \in Handler, Persist(h)
  PROVE  OneInv'
  <1> DEFINE t == HStage(h)
  <1>1. /\ handler[h].pc = "write" /\ Busy(h)
        /\ UNCHANGED <<row, activeGen, fileStatus, readiness, poll>>
    BY DEF Persist, Busy
  <1>2. /\ activeGen = 1 /\ HGen(h) = 1 /\ t \in Bounded /\ Begun(t) /\ HJob(h) = StageJob(t)
    BY <1>1, AtStage
  <1>3. /\ ~Done(t) /\ handler[h].seen.output = content.output
        /\ \A k \in Handler : Busy(k) /\ HJob(k) = HJob(h) => k = h
        /\ \A i \in Invocation : HoldsRow(i, HJob(h)) => handler[h].caller = i
    BY <1>1 DEF OneInv, Handled
  <1>4. /\ content'.output = Merged(content.output, StageJob(t))
        /\ t = Final => content'.payload = Enriched /\ enrichment' = "completed"
        /\ t # Final => content'.payload = content.payload /\ enrichment' = enrichment
    BY <1>2, <1>3 DEF Persist, Enriched
  <1>5. ASSUME NEW i \in Invocation, MyStage(i) = t, ~At(i, "calling")
        PROVE  worker[i].pc \notin {"replied", "fenced", "degrading", "failed", "noting", "noted"}
    <2>1. SUFFICES ASSUME worker[i].pc \in {"replied", "fenced", "degrading", "failed", "noting", "noted"}
                   PROVE  FALSE
      OBVIOUS
    <2>2. My(i) = HJob(h) /\ My(i) = worker[i].job /\ Knows(worker[i])
      BY <1>2, <1>5, <2>1, OnStage DEF ChainPc
    <2>3. worker[i].pc \in {"failed", "noting", "noted"} => FALSE
      BY <1>1, <2>2 DEF Knows, Left
    <2>4. worker[i].pc \in {"replied", "fenced", "degrading"} => HoldsRow(i, HJob(h))
      BY <2>2 DEF HoldsRow, HoldPc
    <2>5. i # Nobody
      BY ChainAssumption
    <2>6. QED
      BY <1>3, <1>5, <2>1, <2>3, <2>4, <2>5 DEF ChainInv, Callers
  <1>6. CASE t = Final
    <2>1. handler' = [handler EXCEPT ![h].pc = "finalize"] /\ worker' = worker
      BY <1>6 DEF Persist, HGoto
    <2>2. handler \in [Handler -> Handling]
      BY DEF ChainInv, HandlersTyped
    <2>3. /\ handler'[h].pc = "finalize" /\ handler'[h].job = handler[h].job
          /\ handler'[h].caller = handler[h].caller
          /\ \A k \in Handler : k # h => handler'[k] = handler[k]
      BY <2>1, <2>2 DEF Handling
    <2>4. ASSUME NEW k \in Handler, Busy(k)'
          PROVE  /\ Busy(k) /\ HJob(k)' = HJob(k) /\ handler'[k].caller = handler[k].caller
                 /\ handler'[k].pc \in {"compute", "write"} =>
                      handler[k].pc \in {"compute", "write"} /\ HStage(k) # t
                 /\ handler'[k].pc = "finalize" => HStage(k) = Final /\ (Done(Final) \/ t = Final)
      <3>1. CASE k = h
        BY <1>1, <1>6, <2>3, <3>1 DEF HJob
      <3>2. CASE k # h
        <4>1. handler'[k] = handler[k]
          BY <2>3, <3>2
        <4>2. Busy(k) /\ HJob(k)' = HJob(k) /\ HJob(k) = StageJob(HStage(k))
          BY <2>4, <4>1, AtStage DEF Busy, HJob
        <4>3. HStage(k) # t
          BY <1>2, <1>3, <3>2, <4>2
        <4>4. QED
          BY <1>6, <4>1, <4>2, <4>3 DEF OneInv, Handled
      <3>3. QED
        BY <3>1, <3>2
    <2>5. \A i \in Invocation :
            /\ worker'[i] = worker[i]
            /\ worker[i].pc \in {"replied", "fenced", "degrading", "failed", "noting", "noted"} =>
                 MyStage(i) # t
      BY <1>5, <2>1 DEF At
    <2> HIDE DEF t
    <2>6. QED
      BY <1>1, <1>2, <1>3, <1>4, <2>4, <2>5, Adds
  <1>7. CASE t # Final
    <2>1. Reply(h, "ok", {})
      BY <1>7 DEF Persist
    <2>2. /\ ~Busy(h)' /\ \A k \in Handler : k # h => handler'[k] = handler[k]
          /\ \A i \in Invocation :
               \/ worker'[i] = worker[i]
               \/ /\ worker[i].pc = "calling" /\ My(i) = HJob(h) /\ worker'[i].pc = "replied"
                  /\ worker'[i].job = My(i) /\ worker'[i].outcome = "ok"
      BY <1>1, <2>1, RepliesTo
    <2>3. ASSUME NEW k \in Handler, Busy(k)'
          PROVE  /\ Busy(k) /\ HJob(k)' = HJob(k) /\ handler'[k].caller = handler[k].caller
                 /\ handler'[k].pc \in {"compute", "write"} =>
                      handler[k].pc \in {"compute", "write"} /\ HStage(k) # t
                 /\ handler'[k].pc = "finalize" => HStage(k) = Final /\ (Done(Final) \/ t = Final)
      <3>1. k # h /\ handler'[k] = handler[k]
        BY <2>2, <2>3
      <3>2. Busy(k) /\ HJob(k)' = HJob(k) /\ HJob(k) = StageJob(HStage(k))
        BY <2>3, <3>1, AtStage DEF Busy, HJob
      <3>3. HStage(k) # t
        BY <1>2, <1>3, <3>1, <3>2
      <3>4. QED
        BY <3>1, <3>2, <3>3 DEF OneInv, Handled
    <2>4. ASSUME NEW i \in Invocation
          PROVE  \/ /\ worker'[i] = worker[i]
                    /\ worker[i].pc \in {"replied", "fenced", "degrading", "failed", "noting", "noted"} =>
                         MyStage(i) # t
                 \/ /\ worker[i].pc = "calling" /\ MyStage(i) = t /\ worker'[i].pc = "replied"
                    /\ worker'[i].job = My(i) /\ worker'[i].outcome = "ok"
      BY <1>5, <2>2 DEF At, MyStage, HStage
    <2> HIDE DEF t
    <2>5. QED
      BY <1>1, <1>2, <1>3, <1>4, <2>3, <2>4, Adds
  <1>8. QED
    BY <1>6, <1>7

LEMMA OneDegrades ==
  ASSUME OneGeneration, ChainInv, OneInv, Exclusive, NEW i \in Invocation, DegradeWrite(i)
  PROVE  OneInv'
  <1> DEFINE t == MyStage(i)
  <1>1. /\ worker[i].pc = "degrading" /\ worker \in [Invocation -> Worker]
        /\ UNCHANGED <<row, activeGen, fileStatus, enrichment, readiness, handler, poll>>
        /\ content' = [worker[i].seen EXCEPT !.output = Merged(worker[i].seen.output, My(i))]
        /\ worker' = [worker EXCEPT ![i].pc = "merged", ![i].seen = Blank]
    BY DEF DegradeWrite, At, ChainInv, WorkersTyped
  <1>2. /\ t \in Bounded /\ Begun(t) /\ My(i) = StageJob(t) /\ Knows(worker[i])
        /\ My(i) = worker[i].job /\ t = StageOf(worker[i].job)
    BY <1>1, OnStage DEF ChainPc
  <1>3. ~Done(t) /\ t # Final /\ worker[i].seen = content
    BY <1>1, <1>2 DEF Knows
  <1>4. content'.output = Merged(content.output, StageJob(t)) /\ content'.payload = content.payload
    <2>1. content \in [output : Output, payload : Payload]
      BY DEF ChainInv, FileTyped, Content
    <2>2. QED
      BY <1>1, <1>2, <1>3, <2>1
  <1>5. /\ OnlyMover(i) /\ worker'[i].pc = "merged" /\ worker'[i].job = My(i)
        /\ worker'[i].outcome = worker[i].outcome
    BY <1>1, <1>2 DEF OnlyMover, Worker
  <1>6. HoldsRow(i, My(i)) /\ ~Left(My(i)) /\ \A h \in Handler : Busy(h) => HJob(h) # My(i)
    BY <1>1, NoHandlerLeft DEF HoldPc
  <1>7. ASSUME NEW k \in Invocation, k # i
        PROVE  /\ worker'[k] = worker[k]
               /\ worker[k].pc \in {"replied", "fenced", "degrading", "failed", "noting", "noted"} =>
                    MyStage(k) # t
    <2>1. worker'[k] = worker[k]
      BY <1>5, <1>7 DEF OnlyMover
    <2>2. SUFFICES ASSUME worker[k].pc \in {"replied", "fenced", "degrading", "failed", "noting", "noted"},
                          MyStage(k) = t
                   PROVE  FALSE
      BY <2>1
    <2>3. My(k) = My(i) /\ My(k) = worker[k].job /\ Knows(worker[k]) /\ My(k) \in Job
      BY <1>2, <2>2, OnStage DEF ChainPc
    <2>4. worker[k].pc \in {"failed", "noting", "noted"} => FALSE
      BY <1>6, <2>3 DEF Knows
    <2>5. worker[k].pc \in {"replied", "fenced", "degrading"} => HoldsRow(k, My(i))
      BY <2>3 DEF HoldsRow, HoldPc
    <2>6. QED
      BY <1>6, <1>7, <2>2, <2>3, <2>4, <2>5 DEF Exclusive
  <1>8. ASSUME NEW h \in Handler, Busy(h)'
        PROVE  /\ Busy(h) /\ HJob(h)' = HJob(h) /\ handler'[h].caller = handler[h].caller
               /\ handler'[h].pc \in {"compute", "write"} =>
                    handler[h].pc \in {"compute", "write"} /\ HStage(h) # t
               /\ handler'[h].pc = "finalize" => HStage(h) = Final /\ (Done(Final) \/ t = Final)
    <2>1. Busy(h) /\ HJob(h)' = HJob(h) /\ HJob(h) = StageJob(HStage(h))
      BY <1>1, <1>8, AtStage DEF Busy, HJob
    <2>2. HStage(h) # t
      BY <1>2, <1>6, <2>1
    <2>3. QED
      BY <1>1, <2>1, <2>2 DEF OneInv, Handled
  <1>9. ASSUME NEW k \in Invocation
        PROVE  \/ /\ worker'[k] = worker[k]
                  /\ worker[k].pc \in {"replied", "fenced", "degrading", "failed", "noting", "noted"} =>
                       MyStage(k) # t
               \/ /\ worker[k].pc = "degrading" /\ MyStage(k) = t /\ worker'[k].pc = "merged"
                  /\ worker'[k].job = My(k) /\ worker'[k].outcome = worker[k].outcome
    BY <1>1, <1>5, <1>7
  <1> HIDE DEF t
  <1>10. QED
    BY <1>1, <1>2, <1>3, <1>4, <1>8, <1>9, Adds

\* A worker calls the handler of its stage.
LEMMA OneCalls ==
  ASSUME OneGeneration, ChainInv, OneInv, Exclusive,
         NEW i \in Invocation, NEW h \in Handler, Call(i, h)
  PROVE  OneInv'
  <1> DEFINE j == My(i)
  <1>1. /\ worker[i].pc = "working" /\ MyStage(i) \in Bounded /\ ~Busy(h) /\ Goto(i, "calling")
        /\ UNCHANGED <<row, activeGen, content, fileStatus, enrichment, readiness, poll>>
        /\ handler' = [handler EXCEPT ![h] = [NoHandler EXCEPT !.pc = "prefence", !.job = j, !.caller = i]]
    BY DEF Call, At, Busy, fileVars
  <1>2. /\ j \in Job /\ j = StageJob(MyStage(i)) /\ j = worker[i].job /\ Knows(worker[i])
        /\ j # Extraction /\ Extraction' = Extraction /\ NoJob # Extraction
    BY <1>1, AtStage, Steps, OneJobs DEF Extraction, StageJob
  <1>3. HoldsRow(i, j) /\ ~Left(j) /\ \A k \in Handler : Busy(k) => HJob(k) # j
    BY <1>1, NoHandlerLeft DEF HoldPc
  <1>4. /\ row[j].status \in {"running", "failed"} /\ ~row[j].stale
        /\ \A k \in Invocation : HoldsRow(k, j) => k = i
    BY <1>2, <1>3 DEF Exclusive, OneInv, Spared
  <1>5. /\ handler'[h].pc = "prefence" /\ handler'[h].job = j /\ handler'[h].caller = i
        /\ \A k \in Handler : k # h => handler'[k] = handler[k]
    BY <1>1 DEF NoHandler, ChainInv, HandlersTyped
  <1>6. /\ OnlyMover(i) /\ worker'[i].pc = "calling" /\ worker'[i].job = j /\ My(i)' = j
        /\ worker'[i].outcome = worker[i].outcome
    BY <1>1, Steps
  <1>7. \A k \in Invocation : \A l : HoldsRow(k, l)' <=> HoldsRow(k, l)
    BY <1>1, <1>2, <1>6 DEF HoldsRow, HoldPc, OnlyMover
  <1>8. \A k \in Handler : Busy(k)' =>
          \/ k = h
          \/ Busy(k) /\ HJob(k)' = HJob(k) /\ HStage(k)' = HStage(k) /\ handler'[k] = handler[k]
    BY <1>5 DEF Busy, HJob, HStage
  <1>9. HJob(h)' = j /\ Busy(h)'
    BY <1>5 DEF Busy, HJob
  <1> HIDE DEF j
  <1>10. \A l : Left(l) /\ l # j => Left(l)'
    BY <1>7, <1>8, <1>9 DEF Left
  <1>11. (\A s : Done(s)' <=> Done(s)) /\ (Started' <=> Started)
    BY <1>1 DEF Done, Started
  <1>12. InOrder' /\ Spared' /\ Published' /\ Polled'
    BY <1>1, <1>11, OrderStays DEF Begun, StageJob, OneInv, Spared, Published, Polled
  <1>13. ExtractionOnce'
    <2>1. \A k \in Invocation : My(k)' = My(k)
      BY <1>6 DEF My, OnlyMover, j
    <2>2. QED
      BY <1>1, <1>2, <1>11, <2>1 DEF OneInv, ExtractionOnce
  <1>14. Handled'
    <2>1. ASSUME NEW k \in Handler, Busy(k)', NEW l, l = HJob(k)', NEW s, s = HStage(k)'
          PROVE  /\ row'[l].status \in {"running", "failed"} /\ ~row'[l].stale
                 /\ \A m \in Handler : Busy(m)' /\ HJob(m)' = l => m = k
                 /\ \A m \in Invocation : HoldsRow(m, l)' => handler'[k].caller = m
                 /\ handler'[k].pc \in {"compute", "write"} =>
                      ~Done(s)' /\ handler'[k].seen.output = content'.output
                 /\ handler'[k].pc = "finalize" => s = Final /\ Done(Final)'
      <3>1. CASE k = h
        BY <1>1, <1>3, <1>4, <1>5, <1>7, <1>8, <1>9, <2>1, <3>1
      <3>2. CASE k # h
        <4>1. /\ Busy(k) /\ HJob(k)' = HJob(k) /\ HStage(k)' = HStage(k) /\ handler'[k] = handler[k]
              /\ l = HJob(k) /\ l # j /\ s = HStage(k)
          BY <1>3, <1>8, <2>1, <3>2
        <4>2. \A m \in Handler : Busy(m)' /\ HJob(m)' = l => m = k
          BY <1>8, <1>9, <4>1 DEF OneInv, Handled
        <4>3. \A m \in Invocation : HoldsRow(m, l)' => handler'[k].caller = m
          BY <1>7, <4>1 DEF OneInv, Handled
        <4>4. /\ handler'[k].pc \in {"compute", "write"} =>
                   ~Done(HStage(k)) /\ handler'[k].seen.output = content'.output
              /\ handler'[k].pc = "finalize" => HStage(k) = Final /\ Done(Final)
              /\ row'[l].status \in {"running", "failed"} /\ ~row'[l].stale
          BY <1>1, <4>1 DEF OneInv, Handled
        <4>5. QED
          BY <1>11, <4>1, <4>2, <4>3, <4>4
      <3>3. QED
        BY <3>1, <3>2
    <2>2. QED
      BY <2>1 DEF Handled, HoldsRow, Done
  <1>15. ASSUME NEW k \in Invocation PROVE Knows(worker[k])'
    <2>1. CASE k = i
      <3>1. row'[j].status # "absent"
        BY <1>1, <1>4
      <3>2. QED
        BY <1>2, <1>6, <2>1, <3>1 DEF Knows, Elsewhere, NotYet, Drafting
    <2>2. CASE k # i
      <3>1. worker'[k] = worker[k] /\ Knows(worker[k])
        BY <1>6, <2>2, Steps DEF OnlyMover
      <3>2. ASSUME NEW l, l = worker[k].job, worker[k].pc \in {"failed", "noting", "noted"}
            PROVE  Left(l)'
        BY <1>3, <1>10, <3>1, <3>2 DEF Knows
      <3>3. QED
        BY <1>1, <1>2, <1>11, <3>1, <3>2 DEF Knows, Left, HoldsRow, Busy, HJob
    <2>3. QED
      BY <2>1, <2>2
  <1>16. Settled'
    <2>1. SUFFICES ASSUME readiness' = "ready"
                   PROVE  /\ Done(Final)' /\ poll'.pc = "idle" /\ Left(StageJob(Final))'
                          /\ row'[StageJob(Final)].status \in {"completed", "failed"}
      BY DEF Settled, StageJob
    <2>2. /\ Done(Final) /\ poll.pc = "idle"
          /\ row[StageJob(Final)].status \in {"completed", "failed"} /\ Left(StageJob(Final))
      BY <1>1, <2>1 DEF OneInv, Settled
    <2>3. ASSUME NEW l, l = StageJob(Final)
          PROVE  Left(l)'
      BY <1>3, <1>10, <2>2, <2>3
    <2>4. QED
      BY <1>1, <1>11, <2>2, <2>3 DEF StageJob
  <1>17. QED
    BY <1>12, <1>13, <1>14, <1>15, <1>16 DEF OneInv

\* Steps in which no worker moves and nobody writes the file.
LEMMA Rests ==
  ASSUME OneGeneration, ChainInv, OneInv,
         UNCHANGED <<activeGen, content, fileStatus, enrichment, worker, handler>>,
         RowsHold, InOrder', Settled', Polled'
  PROVE  OneInv'
  <1>1. Nobody \notin Invocation /\ OnlyMover(Nobody)
    BY ChainAssumption DEF OnlyMover
  <1>2. fileStatus' # "cancelled"
    BY DEF OneInv, Spared
  <1>3. QED
    BY <1>1, <1>2, Moves

LEMMA LeftRests ==
  ASSUME UNCHANGED <<worker, handler>>
  PROVE  \A j : Left(j) => Left(j)'
  BY DEF Left, HoldsRow, Busy, HJob

LEMMA OnePasses ==
  ASSUME OneGeneration, ChainInv, OneInv, NEW j \in Job, DelayElapses(j) \/ GoStale(j)
  PROVE  OneInv'
  <1>1. UNCHANGED <<activeGen, content, fileStatus, enrichment, readiness, worker, handler, poll>>
    BY DEF DelayElapses, GoStale, fileVars
  <1>2. row \in [Job -> Row] /\ row[j] \in Row /\ Extraction \in Job
    BY OneJobs DEF ChainInv, RowsTyped
  <1>3. \A k \in Job : /\ row'[k].status = row[k].status /\ row'[k].cancel = row[k].cancel
                       /\ row'[k].attempt = row[k].attempt
    BY <1>2 DEF DelayElapses, GoStale, Row
  <1>4. ASSUME NEW h \in Handler, Busy(h) PROVE ~row'[HJob(h)].stale
    <2>1. ~row[HJob(h)].stale /\ HJob(h) \in Job
      BY <1>4, AtStage DEF OneInv, Handled
    <2>2. DelayElapses(j) => row'[HJob(h)].stale = row[HJob(h)].stale
      BY <1>2, <2>1 DEF DelayElapses, Row
    <2>3. GoStale(j) => row'[HJob(h)] = row[HJob(h)]
      BY <1>2, <2>1 DEF GoStale
    <2>4. QED
      BY <2>1, <2>2, <2>3
  <1>5. RowsHold
    BY <1>2, <1>3, <1>4, AtStage DEF RowsHold, OneInv, Spared, Handled
  <1>6. ASSUME NEW s \in Bounded
        PROVE  /\ Begun(s)' <=> Begun(s)
               /\ row'[StageJob(s)].status = "completed" =>
                    row[StageJob(s)].status = "completed" \/ Done(s)
    <2>1. ASSUME NEW k, k = StageJob(s) PROVE row'[k].status = row[k].status
      BY <1>3, <2>1, OneJobs
    <2>2. QED
      BY <2>1 DEF Begun, StageJob
  <1>7. InOrder'
    BY <1>1, <1>6, OrderStays
  <1>8. \A k : Left(k) => Left(k)'
    BY <1>1, LeftRests
  <1>9. Settled'
    <2>1. ASSUME NEW k, k = StageJob(Final), readiness = "ready"
          PROVE  row'[k].status \in {"completed", "failed"} /\ Left(k)'
      BY <1>3, <1>8, <2>1, OneJobs, Stages DEF OneInv, Settled
    <2>2. QED
      BY <1>1, <2>1 DEF OneInv, Settled, Done, StageJob
  <1>10. Polled'
    BY <1>1 DEF OneInv, Polled, Done, Started
  <1>11. QED
    BY <1>1, <1>5, <1>7, <1>9, <1>10, Rests

LEMMA OnePolls ==
  ASSUME OneGeneration, ChainInv, OneInv, Exclusive, PollStep
  PROVE  OneInv'
  <1>1. UNCHANGED <<activeGen, content, fileStatus, enrichment, worker, handler>>
    BY DEF PollStep, PollRead, PollQuery, PollResume, fileVars
  <1>2. (\A s : Done(s)' <=> Done(s)) /\ (Started' <=> Started)
    BY <1>1 DEF Done, Started
  <1>3. NoPoll.pc = "idle" /\ Final \in Bounded /\ StageJob(Final) \in Job
    BY Stages, OneJobs DEF NoPoll
  <1>4. ASSUME row' = row PROVE RowsHold /\ InOrder'
    BY <1>1, <1>4, RowsRest, OrderStays DEF Begun, StageJob
  <1>5. CASE PollRead
    <2>1. /\ poll' = [pc |-> "read", gen |-> activeGen, output |-> content.output]
          /\ enrichment = "pending" \/ readiness = "pending"
          /\ UNCHANGED <<row, readiness>>
      BY <1>5 DEF PollRead, fileVars
    <2>2. Polled'
      BY <1>2, <2>1 DEF Polled, Done, Started
    <2>3. readiness' # "ready"
      BY <2>1 DEF OneInv, Settled, Published
    <2>4. QED
      BY <1>1, <1>4, <2>1, <2>2, <2>3, Rests DEF Settled
  <1>6. CASE PollQuery
    <2>1. /\ poll.pc = "read" /\ UNCHANGED <<row, readiness>>
          /\ poll' = NoPoll \/ (poll.output.gen # 0 /\ poll' = [poll EXCEPT !.pc = "resume"])
      BY <1>6 DEF PollQuery, fileVars
    <2>2. Polled'
      <3>1. poll' = NoPoll \/ (poll.output.gen # 0 /\ poll'.output = poll.output)
        BY <2>1 DEF ChainInv, PollTyped, Poll
      <3>2. QED
        BY <1>2, <1>3, <2>1, <3>1 DEF OneInv, Polled
    <2>3. readiness' # "ready"
      BY <2>1 DEF OneInv, Settled
    <2>4. QED
      BY <1>1, <1>4, <2>1, <2>2, <2>3, Rests DEF Settled
  <1>7. CASE PollResume
    <2> DEFINE holes == Unresolved(poll.output, poll.gen)
               first == CHOOSE k \in holes : \A l \in holes : k <= l
    <2>1. poll.pc = "resume" /\ poll' = NoPoll
      BY <1>7 DEF PollResume
    <2>2. activeGen = 1 /\ poll.gen = 1 /\ Started
      BY <2>1, OneJobs DEF ChainInv, PollTyped, OneInv, Polled
    <2>3. Polled'
      BY <1>3, <2>1 DEF Polled
    <2>4. readiness # "ready"
      BY <2>1 DEF OneInv, Settled
    <2>5. CASE holes = {}
      <3>1. Finalize(1) /\ row' = row
        BY <1>7, <2>2, <2>5 DEF PollResume
      <3>2. SUFFICES Settled'
        BY <1>1, <1>4, <2>3, <3>1, Rests
      <3>3. ASSUME readiness' = "ready", NEW j, j = StageJob(Final)
            PROVE  Done(Final) /\ row[j].status = "completed" /\ Left(j)
        <4>1. row[<<1, Final>>].status \notin {"failed", "absent", "superseded", "queued", "running"}
          BY <1>3, <2>2, <3>1, <3>3 DEF Finalize, Verdict
        <4>2. j \in Job /\ row[j].status # "cancelled" /\ j = <<1, Final>>
          BY <1>3, <3>3 DEF OneInv, Spared, StageJob
        <4>3. row[j].status = "completed"
          <5>1. row[j].status \in JobStatus
            BY <4>2 DEF ChainInv, RowsTyped, Row
          <5>2. QED
            BY <4>1, <4>2, <5>1 DEF JobStatus, TerminalStatus
        <4>4. Done(Final)
          BY <1>3, <3>3, <4>3 DEF OneInv, InOrder
        <4>5. \A i \in Invocation : ~HoldsRow(i, j)
          BY <4>2, <4>3 DEF Exclusive
        <4>6. \A h \in Handler : Busy(h) => HJob(h) # j
          BY <4>3 DEF OneInv, Handled
        <4>7. QED
          BY <4>3, <4>4, <4>5, <4>6 DEF Left
      <3>4. ASSUME readiness' = "ready", NEW j, j = StageJob(Final)
            PROVE  Done(Final)' /\ row'[j].status = "completed" /\ Left(j)'
        BY <1>1, <1>2, <3>1, <3>3, <3>4, LeftRests
      <3>5. QED
        BY <1>3, <2>1, <3>4 DEF Settled, StageJob
    <2>6. CASE holes # {}
      <3>1. row' = Enqueued(row, 1, Chain[first]) /\ UNCHANGED readiness
        BY <1>7, <2>2, <2>6 DEF PollResume
      <3>2. /\ first \in DOMAIN Chain
            /\ \A l \in DOMAIN Chain : l < first => poll.output.result[Chain[l]] = 1
        BY <2>2, <2>6, FirstHole
      <3> HIDE DEF first
      <3>3. \A l \in DOMAIN Chain : l < first => Done(Chain[l])
        BY <2>1, <3>2, Stages DEF OneInv, Polled
      <3>4. RowsHold /\ InOrder'
        BY <1>1, <2>2, <3>1, <3>2, <3>3, NextStage
      <3>5. Settled'
        BY <2>4, <3>1 DEF Settled
      <3>6. QED
        BY <1>1, <2>3, <3>4, <3>5, Rests
    <2>7. QED
      BY <2>5, <2>6
  <1>8. QED
    BY <1>5, <1>6, <1>7 DEF PollStep

LEMMA OneStarts ==
  ASSUME OneGeneration, ChainInv, OneInv, StartGeneration
  PROVE  OneInv'
  <1>1. /\ activeGen = 0 /\ activeGen' = 1 /\ readiness' = "pending" /\ fileStatus' = "extracting"
        /\ UNCHANGED <<content, worker, handler, poll>>
        /\ row' = [j \in Job |-> IF j = <<1, ExtractStage>> THEN NewRow ELSE Retire(row[j])]
    BY OneJobs DEF StartGeneration, ChainInv
  <1>2. /\ \A i \in Invocation : worker[i] = NoWorker
        /\ \A h \in Handler : ~Busy(h)
    BY <1>1, AtStage
  <1>3. ~Started
    BY <1>1 DEF OneInv, ExtractionOnce
  <1>4. \A j \in Job : row[j].status = "absent" /\ ~row[j].cancel
    BY <1>1, OneJobs DEF ChainInv, RowsTyped, OneInv, Spared
  <1>5. \A s \in Bounded : ~Begun(s) /\ ~Done(s)
    BY <1>3 DEF OneInv, InOrder
  <1>6. \A j \in Job : /\ row'[j].status \in {"absent", "queued"} /\ ~row'[j].cancel
                       /\ j # Extraction => row'[j] = row[j]
    BY <1>1, <1>4 DEF Retire, NewRow, NoRow, Extraction, StageJob
  <1>7. /\ ~Started' /\ Extraction' = Extraction
        /\ \A s \in Bounded : ~Begun(s)' /\ ~Done(s)'
    <2>1. ASSUME NEW s \in Bounded, NEW j, j = StageJob(s) PROVE row'[j].status = "absent"
      BY <1>4, <1>6, <2>1, OneJobs
    <2>2. QED
      BY <1>1, <1>3, <1>5, <2>1 DEF Begun, Done, Started, Extraction, StageJob
  <1>8. InOrder'
    <2>1. \A k \in DOMAIN Chain : Chain[k] \in Bounded
      BY Stages
    <2>2. \A s \in Bounded : row'[StageJob(s)].status # "completed"
      BY <1>7 DEF Begun, StageJob
    <2>3. QED
      BY <1>7, <2>1, <2>2 DEF InOrder, StageJob
  <1>9. ExtractionOnce' /\ Spared'
    BY <1>1, <1>6, <1>7 DEF OneInv, ExtractionOnce, Spared, My
  <1>10. Handled'
    BY <1>1, <1>2 DEF Handled, Busy
  <1>11. ASSUME NEW i \in Invocation PROVE Knows(worker[i])'
    BY <1>1, <1>2, <1>7 DEF Knows, NoWorker, Elsewhere, NotYet, Drafting
  <1>12. Published'
    <2>1. content.payload.kind = "none"
      BY <1>3 DEF OneInv, Published
    <2>2. QED
      BY <1>1, <1>7, <2>1, Stages DEF Published
  <1>13. Settled'
    BY <1>1 DEF Settled
  <1>14. Polled'
    <2>1. poll.pc = "idle"
      BY <1>1 DEF ChainInv, PollTyped
    <2>2. QED
      BY <1>1, <2>1 DEF Polled
  <1>15. QED
    BY <1>8, <1>9, <1>10, <1>11, <1>12, <1>13, <1>14 DEF OneInv

LEMMA OneInit ==
  ASSUME OneGeneration, Init
  PROVE  OneInv
  <1>1. /\ \A j \in Job : row[j] = NoRow
        /\ content = Blank /\ worker = [i \in Invocation |-> NoWorker]
        /\ handler = [h \in Handler |-> NoHandler] /\ poll = NoPoll
        /\ readiness = "pending" /\ fileStatus = "extracting"
    BY DEF Init
  <1>2. ~Started /\ \A s \in Bounded : ~Done(s)
    BY <1>1 DEF Started, Done, Blank
  <1>3. \A s \in Bounded : ~Begun(s) /\ row[StageJob(s)].status # "completed"
    <2>1. \A s \in Bounded : row[StageJob(s)] = NoRow
      BY <1>1, OneJobs
    <2>2. QED
      BY <2>1, Rows DEF Begun
  <1>4. InOrder
    BY <1>2, <1>3, Stages DEF InOrder
  <1>5. ExtractionOnce /\ Spared /\ Handled
    BY <1>1, <1>2, OneJobs DEF ExtractionOnce, Spared, Handled, Busy, NoHandler, My, NoWorker, NoRow
  <1>6. \A i \in Invocation : Knows(worker[i])
    BY <1>1, <1>2 DEF Knows, NoWorker, Elsewhere, NotYet, Drafting
  <1>7. Published
    BY <1>1, <1>2, Stages DEF Published, Blank
  <1>8. Settled /\ Polled
    BY <1>1 DEF Settled, Polled, NoPoll
  <1>9. QED
    BY <1>4, <1>5, <1>6, <1>7, <1>8 DEF OneInv

LEMMA OneNext ==
  ASSUME OneGeneration, ChainInv, OneInv, Exclusive, [Next]_vars
  PROVE  OneInv'
  <1>1. CASE UNCHANGED vars
    <2>1. /\ UNCHANGED <<activeGen, content, fileStatus, enrichment, worker, handler>>
          /\ UNCHANGED <<row, readiness, poll>>
      BY <1>1 DEF vars, fileVars
    <2>2. RowsHold /\ InOrder'
      BY <2>1, RowsRest, OrderStays DEF Begun, StageJob
    <2>3. \A j : Left(j) => Left(j)'
      BY <2>1, LeftRests
    <2>4. Settled'
      <3>1. ASSUME NEW j, j = StageJob(Final), readiness = "ready"
            PROVE  row'[j].status \in {"completed", "failed"} /\ Left(j)'
        BY <2>1, <2>3, <3>1 DEF OneInv, Settled
      <3>2. QED
        BY <2>1, <3>1 DEF OneInv, Settled, Done, StageJob
    <2>5. Polled'
      BY <2>1 DEF OneInv, Polled, Done, Started
    <2>6. QED
      BY <2>1, <2>2, <2>4, <2>5, Rests
  <1>2. CASE StartGeneration
    BY <1>2, OneStarts
  <1>3. ASSUME NEW i \in Invocation, WorkerProceeds(i)
        PROVE  OneInv'
    <2>1. CASE FailExhausted(i) \/ FailFile(i)
      BY <2>1, OneFails
    <2>2. CASE Claim(i)
      BY <2>2, OneClaims
    <2>3. CASE \/ BeginNormalize(i) \/ EnqueueFirst(i) \/ FinishExtract(i)
               \/ FailExtract(i) \/ CheckDispatch(i)
      BY <2>3, OneExtracts
    <2>4. CASE Publish(i) \/ Park(i)
      BY <2>4, OneDrafts
    <2>5. CASE \E h \in Handler : Call(i, h)
      BY <2>5, OneCalls
    <2>6. CASE \/ Fence(i) \/ Complete(i) \/ Advance(i)
               \/ DegradeRead(i) \/ Fail(i) \/ NoteRead(i) \/ NoteWrite(i) \/ FinalizeFailed(i)
      BY <2>6, OneChains
    <2>7. CASE DegradeWrite(i)
      BY <2>7, OneDegrades
    <2>8. QED
      BY <1>3, <2>1, <2>2, <2>3, <2>4, <2>5, <2>6, <2>7, NeverHappens DEF WorkerProceeds
  <1>4. ASSUME NEW i \in Invocation,
               \/ \E j \in Job : Load(i, j)
               \/ FailUnreadable(i)
               \/ \E h \in Handler, outcome \in {"resource", "error"} : LoseCall(i, h, outcome)
               \/ Die(i)
        PROVE  OneInv'
    BY <1>4, OneLoads, OneFails, OneDies, NeverHappens
  <1>5. ASSUME NEW h \in Handler,
               \/ \E outcome \in {"resource", "error"} : ComputeFails(h, outcome)
               \/ HandlerProceeds(h)
        PROVE  OneInv'
    BY <1>5, OneHandles, OnePersists DEF HandlerProceeds
  <1>6. ASSUME NEW j \in Job, DelayElapses(j) \/ GoStale(j)
        PROVE  OneInv'
    BY <1>6, OnePasses
  <1>7. ~RequestCancel
    BY DEF RequestCancel, OneGeneration
  <1>8. CASE PollStep
    BY <1>8, OnePolls
  <1>9. QED
    BY <1>1, <1>2, <1>3, <1>4, <1>5, <1>6, <1>7, <1>8 DEF Next

LEMMA OneInvHolds ==
  ASSUME OneGeneration
  PROVE  Spec => []OneInv
  <1>1. Init => OneInv
    BY OneInit
  <1>2. ChainInv /\ OneInv /\ Exclusive /\ [Next]_vars => OneInv'
    BY OneNext
  <1>3. QED
    BY <1>1, <1>2, ChainInvHolds, ExclusiveHolds, PTL DEF Spec

\* A file is ready only with the payload that the final stage assembled from
\* all results.
THEOREM AssembledWhenReady ==
  ASSUME OneGeneration
  PROVE  Spec => []ReadyMeansAssembled
  <1>1. ChainInv /\ OneInv => ReadyMeansAssembled
    <2>1. SUFFICES ASSUME ChainInv, OneInv, readiness = "ready" PROVE ReadyMeansAssembled
      BY DEF ReadyMeansAssembled
    <2>2. Done(Final) /\ Final \in Bounded
      BY <2>1, Stages DEF OneInv, Settled
    <2>3. Begun(Final) /\ Started
      BY <2>1, <2>2 DEF OneInv, InOrder
    <2>4. activeGen = 1
      BY <2>1, <2>3 DEF OneInv, ExtractionOnce
    <2>5. \A s \in Bounded : Done(s)
      BY <2>1, <2>2, <2>3, AllDone
    <2>6. content.payload = Enriched
      BY <2>1, <2>2 DEF OneInv, Published
    <2>7. QED
      BY <2>4, <2>5, <2>6 DEF ReadyMeansAssembled, Enriched, Done
  <1>2. QED
    BY <1>1, ChainInvHolds, OneInvHolds, PTL

\* What a step may write into the file: the first draft, or one more result.
LEMMA Writes ==
  ASSUME OneGeneration, ChainInv, OneInv, [Next]_vars, content' # content
  PROVE  /\ activeGen = 1
         /\ \/ ~Started
            \/ \E t \in Bounded :
                 /\ content'.output = Merged(content.output, StageJob(t))
                 /\ t # Final => content'.payload = content.payload
                 /\ t = Final => content'.payload = Enriched
  <1>1. ASSUME NEW i \in Invocation, Publish(i) \/ Park(i)
        PROVE  activeGen = 1 /\ ~Started
    <2>1. worker[i].pc \in {"normalizing", "parking"}
      BY <1>1 DEF Publish, Park, At
    <2>2. Knows(worker[i]) /\ activeGen = 1
      BY <2>1, Steps, AtStage
    <2>3. QED
      BY <2>1, <2>2 DEF Knows, Drafting, NotYet
  <1>2. ASSUME NEW i \in Invocation, NoteWrite(i)
        PROVE  content' = content
    <2>1. Knows(worker[i]) /\ content \in [output : Output, payload : Payload]
      BY Steps DEF ChainInv, FileTyped, Content
    <2>2. worker[i].seen.payload = content.payload
      BY <1>2, <2>1 DEF Knows, NoteWrite, At
    <2>3. QED
      BY <1>2, <2>1, <2>2 DEF NoteWrite
  <1>3. ASSUME NEW i \in Invocation, DegradeWrite(i)
        PROVE  /\ activeGen = 1
               /\ \E t \in Bounded :
                    /\ content'.output = Merged(content.output, StageJob(t))
                    /\ t # Final /\ content'.payload = content.payload
    <2>1. worker[i].pc = "degrading"
      BY <1>3 DEF DegradeWrite, At
    <2>2. /\ MyStage(i) \in Bounded /\ My(i) = StageJob(MyStage(i)) /\ Knows(worker[i])
          /\ MyStage(i) = StageOf(worker[i].job) /\ activeGen = 1
      BY <2>1, OnStage, AtStage DEF ChainPc
    <2>3. MyStage(i) # Final /\ worker[i].seen = content
      BY <2>1, <2>2 DEF Knows
    <2>4. content \in [output : Output, payload : Payload]
      BY DEF ChainInv, FileTyped, Content
    <2>5. /\ content'.output = Merged(content.output, StageJob(MyStage(i)))
          /\ content'.payload = content.payload
      BY <1>3, <2>2, <2>3, <2>4 DEF DegradeWrite
    <2>6. QED
      BY <2>2, <2>3, <2>5
  <1>4. ASSUME NEW h \in Handler, Persist(h)
        PROVE  /\ activeGen = 1
               /\ \E t \in Bounded :
                    /\ content'.output = Merged(content.output, StageJob(t))
                    /\ t # Final => content'.payload = content.payload
                    /\ t = Final => content'.payload = Enriched
    <2>1. handler[h].pc = "write" /\ Busy(h)
      BY <1>4 DEF Persist, Busy
    <2>2. activeGen = 1 /\ HGen(h) = 1 /\ HStage(h) \in Bounded /\ HJob(h) = StageJob(HStage(h))
      BY <2>1, AtStage
    <2>3. handler[h].seen.output = content.output
      BY <2>1 DEF OneInv, Handled
    <2>4. /\ content'.output = Merged(content.output, StageJob(HStage(h)))
          /\ HStage(h) # Final => content'.payload = content.payload
          /\ HStage(h) = Final => content'.payload = Enriched
      BY <1>4, <2>2, <2>3 DEF Persist, Enriched
    <2>5. QED
      BY <2>2, <2>4
  <1>5. ~(UNCHANGED vars \/ StartGeneration \/ RequestCancel \/ PollStep)
    BY DEF vars, StartGeneration, RequestCancel, PollStep, PollRead, PollQuery, PollResume, fileVars
  <1>6. \A j \in Job : ~(DelayElapses(j) \/ GoStale(j))
    BY DEF DelayElapses, GoStale, fileVars
  <1>7. \A h \in Handler :
          /\ \A outcome : ~ComputeFails(h, outcome)
          /\ ~(PreFence(h) \/ Read(h) \/ PostFence(h) \/ FinalizeChain(h))
    BY DEF ComputeFails, PreFence, Read, PostFence, FinalizeChain, fileVars
  <1>8. \A i \in Invocation :
          /\ \A j : ~Load(i, j)
          /\ \A h, outcome : ~LoseCall(i, h, outcome)
          /\ ~FailUnreadable(i) /\ ~Die(i)
    BY DEF Load, FailUnreadable, LoseCall, Die, fileVars
  <1>9. ASSUME NEW i \in Invocation, WorkerProceeds(i)
        PROVE  Publish(i) \/ Park(i) \/ DegradeWrite(i) \/ NoteWrite(i)
    <2>1. ~(\/ FailExhausted(i) \/ FailFile(i) \/ Stop(i) \/ CancelFile(i) \/ Claim(i)
            \/ BeginNormalize(i) \/ EnqueueFirst(i) \/ FinishExtract(i) \/ CheckDispatch(i)
            \/ RetryExtract(i) \/ FailExtract(i))
      BY DEF FailExhausted, FailFile, Stop, CancelFile, Claim, BeginNormalize, EnqueueFirst,
             FinishExtract, CheckDispatch, RetryExtract, FailExtract, fileVars
    <2>2. ~(\/ \E h \in Handler : Call(i, h)
            \/ Fence(i) \/ CancelStale(i) \/ Complete(i) \/ Advance(i)
            \/ DegradeRead(i) \/ Fail(i) \/ NoteRead(i) \/ FinalizeFailed(i))
      BY DEF Call, Fence, CancelStale, Complete, Advance, DegradeRead, Fail, NoteRead,
             FinalizeFailed, fileVars
    <2>3. ~(\/ BeginRequeue(i) \/ \E s \in Substage : RequeueMissingRead(i, s)
            \/ RequeueMissingWrite(i) \/ Revive(i) \/ Requeue(i))
      BY DEF BeginRequeue, RequeueMissingRead, RequeueMissingWrite, Revive, Requeue, fileVars
    <2>4. QED
      BY <1>9, <2>1, <2>2, <2>3 DEF WorkerProceeds
  <1>10. QED
    BY <1>1, <1>2, <1>3, <1>4, <1>5, <1>6, <1>7, <1>8, <1>9 DEF Next, HandlerProceeds

\* The results of a generation only accumulate: what a stage writes back is the
\* output of this moment and its own result.
THEOREM ResultsStay ==
  ASSUME OneGeneration
  PROVE  Spec => ResultsKept
  <1>1. ASSUME ChainInv, OneInv, [Next]_vars, NEW s \in Bounded,
               content.output.result[s] = activeGen, activeGen' = activeGen
        PROVE  content'.output.result[s] = activeGen
    <2>1. SUFFICES ASSUME content' # content PROVE content'.output.result[s] = activeGen
      BY <1>1
    <2>2. activeGen = 1 /\ Done(s) /\ Started
      BY <1>1, <2>1, Writes DEF Done, OneInv, InOrder
    <2>3. PICK t \in Bounded : content'.output = Merged(content.output, StageJob(t))
      BY <1>1, <2>1, <2>2, Writes
    <2>4. StageOf(StageJob(t)) = t /\ GenOf(StageJob(t)) = 1
      BY Stages, OneJobs
    <2>5. content.output \in Output /\ content.output.result \in [Bounded -> 0 .. MaxGen]
      BY <1>1 DEF ChainInv, FileTyped, Content, Output
    <2>6. content'.output.result = [content.output.result EXCEPT ![t] = 1]
      BY <2>3, <2>4, <2>5 DEF Merged, Output
    <2>7. QED
      BY <1>1, <2>2, <2>5, <2>6
  <1>2. ChainInv /\ OneInv /\ [Next]_vars =>
          [\A s \in Bounded : content.output.result[s] = activeGen /\ activeGen' = activeGen
             => content'.output.result[s] = activeGen]_vars
    BY <1>1
  <1>3. QED
    BY <1>2, ChainInvHolds, OneInvHolds, PTL DEF Spec, ResultsKept

\* Who changes the readiness of the file.
LEMMA Judges ==
  ASSUME [Next]_vars, readiness' # readiness, activeGen' = activeGen, activeGen \in Nat
  PROVE  \/ \E i \in Invocation : FinalizeFailed(i)
         \/ \E h \in Handler : FinalizeChain(h)
         \/ PollResume
  <1>1. ~(UNCHANGED vars \/ StartGeneration \/ RequestCancel \/ PollRead \/ PollQuery)
    BY DEF vars, StartGeneration, RequestCancel, PollRead, PollQuery, fileVars
  <1>2. \A j \in Job : ~(DelayElapses(j) \/ GoStale(j))
    BY DEF DelayElapses, GoStale, fileVars
  <1>3. \A h \in Handler :
          /\ \A outcome : ~ComputeFails(h, outcome)
          /\ ~(PreFence(h) \/ Read(h) \/ PostFence(h) \/ Persist(h))
    BY DEF ComputeFails, PreFence, Read, PostFence, Persist, fileVars
  <1>4. \A i \in Invocation :
          /\ \A j : ~Load(i, j)
          /\ \A h, outcome : ~LoseCall(i, h, outcome)
          /\ ~FailUnreadable(i) /\ ~Die(i)
    BY DEF Load, FailUnreadable, LoseCall, Die, fileVars
  <1>5. ASSUME NEW i \in Invocation, WorkerProceeds(i)
        PROVE  FinalizeFailed(i)
    <2>1. ~(\/ FailExhausted(i) \/ FailFile(i) \/ Stop(i) \/ CancelFile(i) \/ Claim(i)
            \/ BeginNormalize(i) \/ Publish(i) \/ EnqueueFirst(i) \/ FinishExtract(i)
            \/ CheckDispatch(i) \/ RetryExtract(i) \/ FailExtract(i) \/ Park(i))
      BY DEF FailExhausted, FailFile, Stop, CancelFile, Claim, BeginNormalize, Publish, EnqueueFirst,
             FinishExtract, CheckDispatch, RetryExtract, FailExtract, Park, fileVars
    <2>2. ~(\/ \E h \in Handler : Call(i, h)
            \/ Fence(i) \/ CancelStale(i) \/ Complete(i) \/ Advance(i)
            \/ DegradeRead(i) \/ DegradeWrite(i) \/ Fail(i) \/ NoteRead(i) \/ NoteWrite(i))
      BY DEF Call, Fence, CancelStale, Complete, Advance, DegradeRead, DegradeWrite, Fail,
             NoteRead, NoteWrite, fileVars
    <2>3. ~(\/ BeginRequeue(i) \/ \E s \in Substage : RequeueMissingRead(i, s)
            \/ RequeueMissingWrite(i) \/ Revive(i) \/ Requeue(i))
      BY DEF BeginRequeue, RequeueMissingRead, RequeueMissingWrite, Revive, Requeue, fileVars
    <2>4. QED
      BY <1>5, <2>1, <2>2, <2>3 DEF WorkerProceeds
  <1>6. QED
    BY <1>1, <1>2, <1>3, <1>4, <1>5 DEF Next, HandlerProceeds, PollStep

\* What a generation has published stands: no draft replaces the enriched
\* payload, and no late verdict the one that the file is ready.
THEOREM PublishedStays ==
  ASSUME OneGeneration
  PROVE  Spec => PublishedStands
  <1>1. ASSUME ChainInv, OneInv, [Next]_vars,
               content.payload = [kind |-> "enriched", gen |-> activeGen]
        PROVE  content'.payload = content.payload
    <2>1. SUFFICES ASSUME content' # content PROVE content'.payload = content.payload
      OBVIOUS
    <2>2. content.payload.kind = "enriched"
      BY <1>1
    <2>3. activeGen = 1 /\ Started
      BY <1>1, <2>1, <2>2, Writes DEF OneInv, Published
    <2>4. QED
      BY <1>1, <2>1, <2>3, Writes DEF Enriched
  <1>2. ASSUME ChainInv, OneInv, [Next]_vars, readiness = "ready", activeGen' = activeGen
        PROVE  readiness' = "ready"
    <2>1. /\ Done(Final) /\ poll.pc = "idle" /\ Left(StageJob(Final)) /\ Final \in Bounded
      BY <1>2, Stages DEF OneInv, Settled
    <2>2. \A s \in Bounded : Done(s)
      BY <1>2, <2>1, AllDone DEF OneInv, InOrder
    <2>3. ASSUME NEW i \in Invocation, FinalizeFailed(i) PROVE FALSE
      <3>1. worker[i].pc = "noted"
        BY <2>3 DEF FinalizeFailed, At
      <3>2. MyStage(i) \in Bounded /\ Knows(worker[i]) /\ MyStage(i) = StageOf(worker[i].job)
        BY <1>2, <3>1, OnStage DEF ChainPc, MyStage
      <3>3. QED
        BY <2>2, <3>1, <3>2 DEF Knows
    <2>4. ASSUME NEW h \in Handler, FinalizeChain(h) PROVE FALSE
      <3>1. handler[h].pc = "finalize" /\ Busy(h)
        BY <2>4 DEF FinalizeChain, Busy
      <3>2. HJob(h) = StageJob(Final)
        BY <1>2, <3>1, AtStage DEF OneInv, Handled
      <3>3. QED
        BY <2>1, <3>1, <3>2 DEF Left
    <2>5. ~PollResume
      BY <2>1 DEF PollResume
    <2>6. activeGen \in Nat
      BY <1>2 DEF ChainInv
    <2>7. QED
      BY <1>2, <2>3, <2>4, <2>5, <2>6, Judges
  <1>3. ChainInv /\ OneInv /\ [Next]_vars =>
          [activeGen' = activeGen =>
             /\ content.payload = [kind |-> "enriched", gen |-> activeGen] => content'.payload = content.payload
             /\ readiness = "ready" => readiness' = "ready"]_vars
    BY <1>1, <1>2
  <1>4. QED
    BY <1>3, ChainInvHolds, OneInvHolds, PTL DEF Spec, PublishedStands

===============================================================================
