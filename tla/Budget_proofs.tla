---------------------------- MODULE Budget_proofs ----------------------------
(***************************************************************************)
(* Proofs about Budget, for any number of requests, planning sets, writes   *)
(* and edits.                                                               *)
(***************************************************************************)
EXTENDS Budget, TLAPS

-----------------------------------------------------------------------------
(* The inductive invariant *)

\* Nobody read the budget later than it was last written, and what an approval
\* read is what the budget still is, unless its stamp moved on.
ReadsStamped ==
    \A r \in Request :
        /\ request[r].read.stamp <= budget.stamp
        /\ At(r, "approve") /\ request[r].read.stamp = budget.stamp =>
             request[r].read.figures = budget.figures

\* A request that may still take the budget back to draft or reviewed.
Mover(r) ==
    \/ At(r, "upsert")
    \/ At(r, "review") /\ request[r].read.status = "draft"
    \/ At(r, "reject") /\ request[r].read.status \notin BlockedFrom

\* Those that there are, once it is locked, have not read the lock.
MoversUnaware ==
    budget.status = "locked" =>
        \A r \in Request : Mover(r) => request[r].read.stamp < budget.stamp

\* A budget is locked by a write, so it is never that of a failed read.
LocksWritten == budget.status = "locked" => budget.stamp > 0

LockInv == MoversUnaware /\ LocksWritten

\* The figures of a planning set are those of its frozen snapshots, in the
\* requests that generate and in what is published.
Generating == {"check", "upsert", "match", "delete", "insert", "publish", "done"}
Frozen(figures) == figures.source \in Plan => figures.edits = 0
PlansFrozen ==
    /\ \A r \in Request : /\ request[r].pc \in Generating => Frozen(request[r].figures)
                          /\ At(r, "match") => request[r].figures.source = Live
    /\ published.inputs \in Plan => published.figures = [source |-> published.inputs, edits |-> 0]

\* What an undisturbed planning request has written so far.
Progress(r) ==
    LET figures == request[r].figures IN
    /\ request[r].pc \in {"delete", "insert", "publish", "done"} => budget.figures = figures
    /\ At(r, "insert") => lines = [p \in Plan |-> 0]
    /\ request[r].pc \in {"publish", "done"} =>
         lines = [p \in Plan |-> IF p = figures.source THEN 1 ELSE 0]
    /\ At(r, "done") => published.figures = figures

Undisturbed ==
    \A r \in Request : request[r].undisturbed /\ request[r].figures.source \in Plan => Progress(r)

-----------------------------------------------------------------------------
(* Types *)

LEMMA IdleTypes == Idle \in Invocation /\ Idle.read \in BudgetRow /\ NoFigures \in Figures
  <1>1. NoFigures \in Figures
    BY BudgetAssumption DEF NoFigures, Figures, Source
  <1>2. NoBudget \in BudgetRow
    BY <1>1, BudgetAssumption DEF NoBudget, BudgetRow, Status
  <1>3. QED
    BY <1>1, <1>2 DEF Idle, Invocation, Pc

LEMMA InitTypes == Init => TypeOK
  BY IdleTypes, BudgetAssumption
  DEF Init, TypeOK, NoBudget, BudgetRow, Status, Idle, Snapshot, NoSnapshot

LEMMA AfterTypes ==
  ASSUME TypeOK, NEW r \in Request, NEW pc \in Pc, NEW b \in BOOLEAN
  PROVE  /\ After(r, pc) \in Invocation /\ After(r, pc).pc = pc
         /\ After(r, pc).figures = request[r].figures
         /\ [After(r, pc) EXCEPT !.undisturbed = b] \in Invocation
         /\ [After(r, pc) EXCEPT !.undisturbed = b].pc = pc
         /\ [After(r, pc) EXCEPT !.undisturbed = b].figures = request[r].figures
  BY DEF TypeOK, After, Invocation

LEMMA Places == "idle" \in Pc /\ "latest" \in Pc /\ "insert" \in Pc /\ "upsert" \in Pc
                  /\ "match" \in Pc /\ "delete" \in Pc /\ "publish" \in Pc /\ "done" \in Pc
                  /\ "baseline" \in Pc
  BY DEF Pc

\* An invocation changes.
LEMMA BecomeTypes ==
  ASSUME TypeOK, NEW r \in Request, NEW next \in Invocation,
         next.pc \in {"delete", "insert"} => next.figures.source \in Plan,
         Become(r, next) \/ Wrote(r, next)
  PROVE  /\ request' \in [Request -> Invocation]
         /\ \A q \in Request : request'[q].pc \in {"delete", "insert"} =>
              request'[q].figures.source \in Plan
  <1>1. CASE Become(r, next)
    BY <1>1 DEF TypeOK, Become
  <1>2. CASE Wrote(r, next)
    BY <1>2 DEF TypeOK, Wrote, Invocation
  <1>3. QED
    BY <1>1, <1>2

\* A new row of budgets.
LEMMA SaveTypes ==
  ASSUME TypeOK, NEW status \in Status, NEW figures \in Figures, Save(status, figures)
  PROVE  budget' \in BudgetRow
  BY BudgetAssumption DEF TypeOK, Save, BudgetRow

\* A status action.
LEMMA SetStatusTypes ==
  ASSUME TypeOK, NEW r \in Request, NEW allowed, NEW status \in Status, SetStatus(r, allowed, status)
  PROVE  /\ budget' \in BudgetRow
         /\ request' \in [Request -> Invocation]
         /\ \A q \in Request : request'[q].pc \in {"delete", "insert"} =>
              request'[q].figures.source \in Plan
  <1>1. After(r, "latest") \in Invocation /\ After(r, "latest").pc = "latest"
    BY AfterTypes, Places
  <1>2. Idle \in Invocation /\ Idle.pc = "idle"
    BY IdleTypes DEF Idle
  <1>3. CASE request[r].read.status \notin allowed /\ Finish(r) /\ UNCHANGED budget
    BY <1>2, <1>3, BecomeTypes DEF Finish, TypeOK
  <1>4. CASE /\ Save(status, budget.figures)
             /\ Wrote(r, IF status = "locked" THEN After(r, "latest") ELSE Idle)
    <2>1. budget.figures \in Figures
      BY DEF TypeOK, BudgetRow
    <2>2. budget' \in BudgetRow
      BY <2>1, <1>4, SaveTypes
    <2>3. QED
      BY <1>1, <1>2, <1>4, <2>2, BecomeTypes
  <1>5. QED
    BY <1>3, <1>4 DEF SetStatus

LEMMA NextTypes == TypeOK /\ [Next]_vars => TypeOK'
  <1> SUFFICES ASSUME TypeOK, [Next]_vars PROVE TypeOK'
    OBVIOUS
  <1> DEFINE Typed == /\ request' \in [Request -> Invocation]
                      /\ \A q \in Request : request'[q].pc \in {"delete", "insert"} =>
                           request'[q].figures.source \in Plan
  <1>1. Idle \in Invocation /\ Idle.pc = "idle"
    BY IdleTypes DEF Idle
  <1>2. budget.figures \in Figures /\ budget.status \in Status
    BY DEF TypeOK, BudgetRow
  <1>3. ASSUME NEW r \in Request, NEW pc \in Pc, pc \notin {"delete", "insert"}
        PROVE  Goto(r, pc) \/ Shrug(r, pc) \/ Wrote(r, After(r, pc)) => Typed
    BY <1>3, AfterTypes, BecomeTypes DEF Goto, Shrug
  <1>4. ASSUME NEW r \in Request PROVE Finish(r) => Typed
    BY <1>1, BecomeTypes DEF Finish
  <1>5. CASE UNCHANGED vars
    BY <1>5 DEF vars, TypeOK
  <1>6. CASE EditAmount
    BY <1>6, BudgetAssumption DEF EditAmount, TypeOK
  <1>7. ASSUME NEW r \in Request, Generates(r) PROVE TypeOK'
    <2>1. ASSUME NEW s \in Source, Load(r, s) PROVE TypeOK'
      <3> DEFINE figures == [source |-> s, edits |-> IF s = Live THEN edits ELSE 0]
                 next    == [Idle EXCEPT !.pc = "check", !.figures = figures]
      <3>1. figures \in Figures
        BY BudgetAssumption DEF TypeOK, Figures
      <3>2. next \in Invocation /\ next.pc = "check"
        BY <3>1, <1>1 DEF Invocation, Idle, Pc
      <3>3. Typed
        BY <2>1, <3>2, BecomeTypes DEF Load
      <3>4. QED
        BY <2>1, <3>3 DEF Load, TypeOK
    <2>2. CASE CheckStatus(r)
      <3>1. /\ After(r, "upsert") \in Invocation /\ After(r, "upsert").pc = "upsert"
            /\ budget \in BudgetRow /\ NoBudget \in BudgetRow
        <4>1. budget \in BudgetRow /\ NoBudget \in BudgetRow
          BY IdleTypes DEF TypeOK, Idle
        <4>2. QED
          BY <4>1, AfterTypes, Places
      <3>2. ASSUME NEW read \in BudgetRow, Become(r, [After(r, "upsert") EXCEPT !.read = read])
            PROVE  Typed
        <4> DEFINE next == [After(r, "upsert") EXCEPT !.read = read]
        <4>1. next \in Invocation /\ next.pc = "upsert"
          BY <3>1 DEF Invocation
        <4>2. QED
          BY <3>2, <4>1, BecomeTypes
      <3>3. Typed
        BY <2>2, <3>1, <3>2, <1>4 DEF CheckStatus
      <3>4. QED
        BY <2>2, <3>3 DEF CheckStatus, TypeOK
    <2>3. CASE Upsert(r)
      <3>1. CASE ~Protected(request[r].figures)
        <4> DEFINE figures == request[r].figures
                   pc   == IF figures.source = Live THEN "match" ELSE "delete"
                   next == [After(r, pc) EXCEPT !.undisturbed = TRUE]
        <4>1. figures \in Figures /\ figures.source \in Source
          BY DEF TypeOK, Invocation, Figures
        <4>2. /\ next \in Invocation /\ next.figures = figures
              /\ next.pc \in {"delete", "insert"} => figures.source # Live
          <5>1. pc # "insert" /\ (pc = "delete" => figures.source # Live)
            OBVIOUS
          <5>2. pc \in Pc
            BY Places
          <5>3. ASSUME NEW place \in Pc
                PROVE  LET n == [After(r, place) EXCEPT !.undisturbed = TRUE]
                       IN  n \in Invocation /\ n.pc = place /\ n.figures = figures
            BY AfterTypes
          <5>4. next \in Invocation /\ next.pc = pc /\ next.figures = figures
            BY <5>2, <5>3
          <5>5. QED
            BY <5>1, <5>4
        <4>3. Save("draft", figures) /\ Wrote(r, next)
          BY <2>3, <3>1 DEF Upsert, Finish, Become
        <4>4. Typed
          BY <4>1, <4>2, <4>3, BecomeTypes DEF Source
        <4>5. budget' \in BudgetRow
          BY <4>1, <4>3, SaveTypes DEF Status
        <4>6. QED
          BY <2>3, <4>4, <4>5 DEF Upsert, TypeOK
      <3>2. CASE Protected(request[r].figures)
        BY <2>3, <3>2, <1>4 DEF Upsert, TypeOK
      <3>3. QED
        BY <3>1, <3>2
    <2>4. CASE MatchSnapshot(r)
      <3>1. Typed
        BY <2>4, <1>3, <1>4, Places DEF MatchSnapshot
      <3>2. QED
        BY <2>4, <3>1 DEF MatchSnapshot, TypeOK
    <2>5. CASE DeleteLines(r)
      <3>1. request[r].figures.source \in Plan
        BY <2>5 DEF DeleteLines, At, TypeOK
      <3>2. /\ After(r, "insert") \in Invocation /\ After(r, "insert").figures = request[r].figures
            /\ [After(r, "insert") EXCEPT !.undisturbed = FALSE] \in Invocation
            /\ [After(r, "insert") EXCEPT !.undisturbed = FALSE].figures = request[r].figures
        BY AfterTypes, Places
      <3>3. Typed
        BY <2>5, <3>1, <3>2, BecomeTypes DEF DeleteLines, Shrug
      <3>4. lines' \in [Plan -> Nat]
        BY <2>5 DEF DeleteLines, Emptied, TypeOK
      <3>5. QED
        BY <2>5, <3>3, <3>4 DEF DeleteLines, TypeOK
    <2>6. CASE InsertLines(r)
      <3>1. Typed
        BY <2>6, <1>3, Places DEF InsertLines
      <3>2. lines' \in [Plan -> Nat]
        BY <2>6 DEF InsertLines, At, TypeOK
      <3>3. QED
        BY <2>6, <3>1, <3>2 DEF InsertLines, TypeOK
    <2>7. CASE Publish(r)
      <3>1. Typed
        BY <2>7, <1>3, Places DEF Publish
      <3>2. request[r].figures \in Figures /\ request[r].figures.source \in Source
        BY DEF TypeOK, Invocation, Figures
      <3>3. published' \in Snapshot \cup {NoSnapshot}
        BY <2>7, <3>2 DEF Publish, Snapshot, TypeOK
      <3>4. QED
        BY <2>7, <3>1, <3>3 DEF Publish, TypeOK
    <2>8. CASE Respond(r)
      BY <2>8, <1>4 DEF Respond, TypeOK
    <2>9. QED
      BY <1>7, <2>1, <2>2, <2>3, <2>4, <2>5, <2>6, <2>7, <2>8 DEF Generates
  <1>8. ASSUME NEW r \in Request, Decides(r) PROVE TypeOK'
    <2>1. ASSUME NEW action \in {"review", "reject", "approve", "lock"}, Resolve(r, action)
          PROVE  TypeOK'
      <3> DEFINE next == [Idle EXCEPT !.pc = action, !.read = budget]
      <3>1. next \in Invocation /\ next.pc = action
        <4>1. budget \in BudgetRow /\ action \in Pc
          BY DEF TypeOK, Pc
        <4>2. QED
          BY <1>1, <4>1 DEF Invocation
      <3>2. Typed
        BY <2>1, <3>1, BecomeTypes DEF Resolve
      <3>3. QED
        BY <2>1, <3>2 DEF Resolve, TypeOK
    <2>2. CASE MarkReviewed(r)
      <3>1. Typed /\ budget' \in BudgetRow
        BY <2>2, SetStatusTypes DEF MarkReviewed, Status
      <3>2. QED
        BY <2>2, <3>1 DEF MarkReviewed, TypeOK
    <2>3. CASE Reject(r)
      <3>1. Typed /\ budget' \in BudgetRow
        BY <2>3, SetStatusTypes DEF Reject, Status
      <3>2. QED
        BY <2>3, <3>1 DEF Reject, TypeOK
    <2>4. CASE Approve(r)
      <3>1. Typed
        BY <2>4, <1>1, <1>4, BecomeTypes DEF Approve
      <3>2. budget' \in BudgetRow
        BY <2>4, <1>2, SaveTypes DEF Approve, TypeOK, Status
      <3>3. request[r].read.figures \in Figures
        BY DEF TypeOK, Invocation, BudgetRow
      <3>4. baselines' \in Seq(Baseline)
        <4> DEFINE new == [figures |-> budget.figures, seen |-> request[r].read.figures]
        <4>1. baselines \in Seq(Baseline)
          BY DEF TypeOK
        <4>2. new \in Baseline
          BY <1>2, <3>3 DEF Baseline
        <4>3. baselines' = Append(baselines, new) \/ baselines' = baselines
          BY <2>4 DEF Approve
        <4> HIDE DEF new
        <4>4. QED
          BY <4>1, <4>2, <4>3
      <3>5. QED
        BY <2>4, <3>1, <3>2, <3>4 DEF Approve, TypeOK
    <2>5. CASE Lock(r)
      <3>1. Typed /\ budget' \in BudgetRow
        BY <2>5, SetStatusTypes DEF Lock, Status
      <3>2. QED
        BY <2>5, <3>1 DEF Lock, TypeOK
    <2>6. CASE ReadLatest(r)
      <3>1. /\ request[r].read.figures \in Figures
            /\ published # NoSnapshot => published.figures \in Figures
        BY DEF TypeOK, Snapshot, Invocation, BudgetRow
      <3>2. ASSUME NEW figures \in Figures, Become(r, [After(r, "baseline") EXCEPT !.figures = figures])
            PROVE  Typed
        <4> DEFINE next == [After(r, "baseline") EXCEPT !.figures = figures]
        <4>1. next \in Invocation /\ next.pc = "baseline"
          BY DEF TypeOK, After, Invocation, Pc
        <4>2. QED
          BY <3>2, <4>1, BecomeTypes
      <3>3. Typed
        BY <2>6, <3>1, <3>2 DEF ReadLatest
      <3>4. QED
        BY <2>6, <3>3 DEF ReadLatest, TypeOK
    <2>7. CASE PublishBaseline(r)
      <3>1. Typed
        BY <2>7, <1>1, <1>4, BecomeTypes DEF PublishBaseline
      <3>2. published' \in Snapshot \cup {NoSnapshot}
        BY <2>7 DEF PublishBaseline, Snapshot, TypeOK, Invocation
      <3>3. QED
        BY <2>7, <3>1, <3>2 DEF PublishBaseline, TypeOK
    <2>8. QED
      BY <1>8, <2>1, <2>2, <2>3, <2>4, <2>5, <2>6, <2>7 DEF Decides
  <1>9. ASSUME NEW r \in Request, Die(r) PROVE TypeOK'
    BY <1>9, <1>4 DEF Die, TypeOK
  <1>10. QED
    BY <1>5, <1>6, <1>7, <1>8, <1>9 DEF Next

\* All state of Budget has the shape the code gives it, whatever requests do.
THEOREM TypeCorrect == Spec => []TypeOK
  BY InitTypes, NextTypes, PTL DEF Spec

-----------------------------------------------------------------------------
(* Approvals sign what was seen, and locks hold *)

\* What a change of one invocation does to all of them.
LEMMA Others ==
  ASSUME TypeOK, NEW r \in Request, NEW next \in Invocation, Become(r, next) \/ Wrote(r, next)
  PROVE  /\ request'[r] = next
         /\ \A q \in Request \ {r} :
              /\ request'[q].pc = request[q].pc
              /\ request'[q].figures = request[q].figures
              /\ request'[q].read = request[q].read
              /\ request'[q].undisturbed => request[q].undisturbed /\ ~Wrote(r, next)
  <1>1. CASE Become(r, next) /\ ~Wrote(r, next)
    BY <1>1 DEF TypeOK, Become
  <1>2. CASE Wrote(r, next)
    BY <1>2 DEF TypeOK, Wrote, Invocation
  <1>3. QED
    BY <1>1, <1>2

\* An invocation ends, goes on past the statements that matter here, or starts
\* to hold what it reads.
Moves(r, next) ==
    \/ next = Idle
    \/ /\ next.pc \notin {"upsert", "review", "reject", "approve"}
       /\ next.read = request[r].read \/ next.read = NoBudget
    \/ /\ UNCHANGED budget
       /\ \/ next.read = budget /\ (next.pc = "upsert" => budget.status \notin BlockedFrom)
          \/ next.read = NoBudget /\ next.pc = "upsert"

\* A step takes the budget to draft or reviewed, locks it, approves it, or
\* leaves it as it is.
TakesBack(r) ==
    /\ Mover(r)
    /\ UNCHANGED baselines
    /\ \E status \in {"draft", "reviewed"}, figures \in Figures :
         Save(status, figures) /\ (budget.status = "locked" => figures = budget.figures)
Locks ==
    /\ Save("locked", budget.figures)
    /\ UNCHANGED baselines
Approves(r) ==
    /\ At(r, "approve")
    /\ budget.status = "reviewed"
    /\ SameVersion(r)
    /\ Save("locked", budget.figures)
    /\ baselines' = Append(baselines, [figures |-> budget.figures,
                                       seen |-> request[r].read.figures])
Writes(r) == TakesBack(r) \/ Locks \/ Approves(r) \/ UNCHANGED <<budget, baselines>>

LEMMA AfterMoves ==
  ASSUME TypeOK, NEW r \in Request, NEW pc \in Pc \ {"upsert", "review", "reject", "approve"},
         NEW b \in BOOLEAN
  PROVE  /\ Moves(r, After(r, pc))
         /\ Moves(r, [After(r, pc) EXCEPT !.undisturbed = b])
  BY DEF TypeOK, After, Invocation, Moves

LEMMA StatusSteps ==
  ASSUME TypeOK, NEW r \in Request, NEW allowed, NEW status \in Status, SetStatus(r, allowed, status)
  PROVE  /\ \/ UNCHANGED budget
            \/ request[r].read.status \in allowed /\ Save(status, budget.figures)
         /\ \E next \in Invocation : (Become(r, next) \/ Wrote(r, next)) /\ Moves(r, next)
  <1>1. Idle \in Invocation /\ Moves(r, Idle)
    BY IdleTypes DEF Moves
  <1>2. After(r, "latest") \in Invocation /\ Moves(r, After(r, "latest"))
    BY AfterTypes, AfterMoves, Places
  <1>3. QED
    BY <1>1, <1>2 DEF SetStatus, Finish

LEMMA Steps ==
  ASSUME TypeOK, NEW r \in Request, Generates(r) \/ Decides(r) \/ Die(r)
  PROVE  /\ Writes(r)
         /\ \E next \in Invocation : (Become(r, next) \/ Wrote(r, next)) /\ Moves(r, next)
  <1> DEFINE Moved == \E next \in Invocation : (Become(r, next) \/ Wrote(r, next)) /\ Moves(r, next)
  <1>1. Finish(r) \/ Wrote(r, Idle) => Moved
    BY IdleTypes DEF Moves, Finish
  <1>2. ASSUME NEW pc \in Pc \ {"upsert", "review", "reject", "approve"}
        PROVE  Goto(r, pc) \/ Shrug(r, pc) \/ Wrote(r, After(r, pc)) => Moved
    BY AfterTypes, AfterMoves DEF Goto, Shrug
  <1>3. ASSUME NEW s \in Source, Load(r, s) PROVE Writes(r) /\ Moved
    <2> DEFINE figures == [source |-> s, edits |-> IF s = Live THEN edits ELSE 0]
               next    == [Idle EXCEPT !.pc = "check", !.figures = figures]
    <2>1. figures \in Figures
      BY BudgetAssumption DEF TypeOK, Figures
    <2>2. next \in Invocation
      BY <2>1, IdleTypes DEF Invocation, Idle, Pc
    <2>3. Moves(r, next)
      BY DEF Moves, Idle
    <2>4. QED
      BY <1>3, <2>2, <2>3 DEF Load, Writes
  <1>4. CASE CheckStatus(r)
    <2>1. After(r, "upsert") \in Invocation /\ After(r, "upsert").pc = "upsert"
      BY AfterTypes, Places
    <2>2. budget \in BudgetRow /\ NoBudget \in BudgetRow
      BY IdleTypes DEF TypeOK, Idle
    <2>3. ASSUME NEW read \in {budget, NoBudget}, read = budget => budget.status \notin BlockedFrom,
                 Become(r, [After(r, "upsert") EXCEPT !.read = read])
          PROVE  Writes(r) /\ Moved
      <3> DEFINE next == [After(r, "upsert") EXCEPT !.read = read]
      <3>1. next \in Invocation /\ next.pc = "upsert" /\ next.read = read
        BY <2>1, <2>2 DEF Invocation
      <3>2. Become(r, next) /\ UNCHANGED <<budget, baselines>>
        BY <1>4, <2>3 DEF CheckStatus
      <3>3. Moves(r, next)
        BY <2>3, <3>1, <3>2 DEF Moves
      <3>4. QED
        BY <3>1, <3>2, <3>3 DEF Writes
    <2>4. CASE Finish(r)
      BY <1>1, <1>4, <2>4 DEF CheckStatus, Writes
    <2>5. CASE budget.status \notin BlockedFrom /\ Become(r, [After(r, "upsert") EXCEPT !.read = budget])
      BY <2>3, <2>5
    <2>6. CASE Become(r, [After(r, "upsert") EXCEPT !.read = NoBudget])
      <3>1. NoBudget = budget => budget.status \notin BlockedFrom
        BY DEF NoBudget, BlockedFrom
      <3>2. QED
        BY <2>3, <2>6, <3>1
    <2>7. QED
      BY <1>4, <2>4, <2>5, <2>6 DEF CheckStatus
  <1>5. CASE Upsert(r)
    <2> DEFINE figures == request[r].figures
               pc      == IF figures.source = Live THEN "match" ELSE "delete"
               next    == [After(r, pc) EXCEPT !.undisturbed = TRUE]
    <2>1. figures \in Figures
      BY DEF TypeOK, Invocation
    <2>2. pc \in Pc \ {"upsert", "review", "reject", "approve"}
      BY Places
    <2>3. ASSUME NEW place \in Pc \ {"upsert", "review", "reject", "approve"}
          PROVE  LET n == [After(r, place) EXCEPT !.undisturbed = TRUE]
                 IN  n \in Invocation /\ Moves(r, n)
      BY AfterTypes, AfterMoves
    <2>4. CASE Protected(figures)
      BY <1>1, <1>5, <2>4 DEF Upsert, Writes
    <2>5. CASE ~Protected(figures)
      <3>1. Save("draft", figures) /\ Wrote(r, next) /\ UNCHANGED baselines /\ At(r, "upsert")
        BY <1>5, <2>5 DEF Upsert
      <3>2. TakesBack(r)
        BY <2>1, <2>5, <3>1 DEF TakesBack, Mover, Protected
      <3>3. next \in Invocation /\ Moves(r, next)
        BY <2>2, <2>3
      <3>4. QED
        BY <3>1, <3>2, <3>3 DEF Writes
    <2>6. QED
      BY <2>4, <2>5
  <1>6. CASE MatchSnapshot(r)
    BY <1>1, <1>2, <1>6, Places DEF MatchSnapshot, Writes
  <1>7. CASE DeleteLines(r)
    BY <1>2, <1>7, Places DEF DeleteLines, Writes
  <1>8. CASE InsertLines(r)
    BY <1>2, <1>8, Places DEF InsertLines, Writes
  <1>9. CASE Publish(r)
    BY <1>2, <1>9, Places DEF Publish, Writes
  <1>10. CASE Respond(r)
    BY <1>1, <1>10 DEF Respond, Writes
  <1>11. ASSUME NEW action \in {"review", "reject", "approve", "lock"}, Resolve(r, action)
         PROVE  Writes(r) /\ Moved
    <2> DEFINE next == [Idle EXCEPT !.pc = action, !.read = budget]
    <2>1. budget \in BudgetRow /\ action \in Pc
      BY DEF TypeOK, Pc
    <2>2. next \in Invocation
      BY <2>1, IdleTypes DEF Invocation
    <2>3. Become(r, next) /\ UNCHANGED <<budget, baselines>>
      BY <1>11 DEF Resolve
    <2>4. next.read = budget /\ next.pc # "upsert"
      BY DEF Idle
    <2>5. Moves(r, next)
      BY <2>3, <2>4 DEF Moves
    <2>6. QED
      BY <2>2, <2>3, <2>5 DEF Writes
  <1>12. budget.figures \in Figures
    BY DEF TypeOK, BudgetRow
  <1>13. CASE MarkReviewed(r)
    <2>1. Moved /\ (UNCHANGED budget \/ (request[r].read.status = "draft" /\ Save("reviewed", budget.figures)))
      BY <1>13, StatusSteps DEF MarkReviewed, Status
    <2>2. QED
      BY <1>12, <1>13, <2>1 DEF MarkReviewed, Writes, TakesBack, Mover
  <1>14. CASE Reject(r)
    <2>1. Moved /\ (UNCHANGED budget \/ (request[r].read.status \notin BlockedFrom /\ Save("draft", budget.figures)))
      BY <1>14, StatusSteps DEF Reject, Status
    <2>2. QED
      BY <1>12, <1>14, <2>1 DEF Reject, Writes, TakesBack, Mover
  <1>15. CASE Approve(r)
    BY <1>1, <1>15 DEF Approve, Writes, Approves
  <1>16. CASE Lock(r)
    <2>1. Moved /\ (UNCHANGED budget \/ (request[r].read.status = "approved" /\ Save("locked", budget.figures)))
      BY <1>16, StatusSteps DEF Lock, Status
    <2>2. QED
      BY <1>16, <2>1 DEF Lock, Writes, Locks
  <1>17. CASE ReadLatest(r)
    <2>1. /\ request[r].read.figures \in Figures
          /\ published # NoSnapshot => published.figures \in Figures
      BY DEF TypeOK, Snapshot, Invocation, BudgetRow
    <2>2. ASSUME NEW figures \in Figures, Become(r, [After(r, "baseline") EXCEPT !.figures = figures])
          PROVE  Moved
      <3> DEFINE next == [After(r, "baseline") EXCEPT !.figures = figures]
      <3>1. next \in Invocation /\ next.pc = "baseline" /\ next.read = request[r].read
        BY DEF TypeOK, After, Invocation, Pc
      <3>2. Moves(r, next)
        BY <3>1 DEF Moves
      <3>3. QED
        BY <2>2, <3>1, <3>2
    <2>3. QED
      BY <1>17, <2>1, <2>2 DEF ReadLatest, Writes
  <1>18. CASE PublishBaseline(r)
    BY <1>1, <1>18 DEF PublishBaseline, Writes
  <1>19. CASE Die(r)
    BY <1>1, <1>19 DEF Die, Writes
  <1>20. QED
    BY <1>3, <1>4, <1>5, <1>6, <1>7, <1>8, <1>9, <1>10, <1>11, <1>13, <1>14, <1>15, <1>16,
       <1>17, <1>18, <1>19 DEF Generates, Decides

SignInv == ReadsStamped /\ SignedAsSeen

LEMMA SaveFacts ==
  ASSUME TypeOK, NEW status \in Status, NEW figures, Save(status, figures)
  PROVE  /\ budget'.status = status /\ budget'.figures = figures
         /\ budget'.stamp = budget.stamp + 1
         /\ budget' # budget
         /\ budget.stamp \in Nat
  BY BudgetAssumption DEF TypeOK, Save, BudgetRow

LEMMA InitSigned == Init => SignInv
  BY DEF Init, SignInv, ReadsStamped, SignedAsSeen, At, Idle, NoBudget

LEMMA NextSigned == TypeOK /\ SignInv /\ [Next]_vars => SignInv'
  <1> SUFFICES ASSUME TypeOK, SignInv, [Next]_vars PROVE SignInv'
    OBVIOUS
  <1>1. CASE UNCHANGED vars
    BY <1>1 DEF vars, SignInv, ReadsStamped, SignedAsSeen, At
  <1>2. CASE EditAmount
    BY <1>2 DEF EditAmount, SignInv, ReadsStamped, SignedAsSeen, At
  <1>3. ASSUME NEW r \in Request, Generates(r) \/ Decides(r) \/ Die(r) PROVE SignInv'
    <2>1. PICK next \in Invocation : (Become(r, next) \/ Wrote(r, next)) /\ Moves(r, next)
      BY <1>3, Steps
    <2>2. /\ request'[r] = next
          /\ \A q \in Request \ {r} : request'[q].pc = request[q].pc /\ request'[q].read = request[q].read
      BY <2>1, Others
    <2>3. \/ UNCHANGED budget
          \/ budget'.stamp = budget.stamp + 1 /\ budget' # budget
      BY <1>3, Steps, SaveFacts DEF Writes, TakesBack, Locks, Approves, Status
    <2>4. /\ budget.stamp \in Nat
          /\ \A q \in Request : request[q].read.stamp \in Nat
      BY BudgetAssumption DEF TypeOK, BudgetRow, Invocation
    <2>5. ReadsStamped'
      <3> SUFFICES ASSUME NEW q \in Request
                   PROVE  /\ request'[q].read.stamp <= budget'.stamp
                          /\ At(q, "approve")' /\ request'[q].read.stamp = budget'.stamp =>
                               request'[q].read.figures = budget'.figures
        BY DEF ReadsStamped
      <3>1. CASE request'[q].read = request[q].read
        <4>1. At(q, "approve")' => At(q, "approve") \/ (request'[q].read = budget /\ UNCHANGED budget)
          BY <2>1, <2>2 DEF Moves, At, Idle
        <4>2. /\ request[q].read.stamp <= budget.stamp
              /\ At(q, "approve") /\ request[q].read.stamp = budget.stamp =>
                   request[q].read.figures = budget.figures
          BY DEF SignInv, ReadsStamped
        <4>3. QED
          BY <3>1, <4>1, <4>2, <2>3, <2>4
      <3>2. CASE request'[q].read = budget /\ UNCHANGED budget
        BY <3>2, <2>4
      <3>3. CASE request'[q].read = NoBudget /\ ~At(q, "approve")'
        <4>1. request'[q].read.stamp = 0
          BY <3>3 DEF NoBudget
        <4>2. QED
          BY <3>3, <4>1, <2>3, <2>4
      <3>4. QED
        <4>1. CASE q = r
          BY <4>1, <2>1, <2>2, <3>1, <3>2, <3>3 DEF Moves, At, Idle
        <4>2. QED
          BY <4>1, <2>2, <3>1
    <2>6. SignedAsSeen'
      <3>1. CASE UNCHANGED baselines
        BY <3>1 DEF SignInv, SignedAsSeen
      <3>2. CASE Approves(r)
        <4> DEFINE new == [figures |-> budget.figures, seen |-> request[r].read.figures]
        <4>1. new.figures = new.seen
          BY <3>2 DEF Approves, SameVersion, SignInv, ReadsStamped
        <4>2. baselines \in Seq(Baseline) /\ baselines' = Append(baselines, new)
          BY <3>2 DEF Approves, TypeOK
        <4>3. \A i \in 1 .. Len(baselines) : baselines[i].figures = baselines[i].seen
          BY DEF SignInv, SignedAsSeen
        <4> HIDE DEF new
        <4>4. \A i \in 1 .. Len(baselines') : baselines'[i].figures = baselines'[i].seen
          BY <4>1, <4>2, <4>3
        <4>5. QED
          BY <4>4 DEF SignedAsSeen
      <3>3. QED
        BY <1>3, Steps, <3>1, <3>2 DEF Writes, TakesBack, Locks
    <2>7. QED
      BY <2>5, <2>6 DEF SignInv
  <1>4. QED
    BY <1>1, <1>2, <1>3 DEF Next

\* An approval signs the figures that were read with the updated_at it carries.
THEOREM ApprovalsSignWhatWasSeen == Spec => []SignedAsSeen
  <1>1. SignInv => SignedAsSeen
    BY DEF SignInv
  <1>2. QED
    BY <1>1, TypeCorrect, InitSigned, NextSigned, PTL DEF Spec

LEMMA InitLock == Init => LockInv
  BY DEF Init, LockInv, MoversUnaware, LocksWritten, NoBudget

LEMMA NextLock == TypeOK /\ ReadsStamped /\ LockInv /\ [Next]_vars => LockInv'
  <1> SUFFICES ASSUME TypeOK, ReadsStamped, LockInv, [Next]_vars PROVE LockInv'
    OBVIOUS
  <1> USE DEF LockInv
  <1>1. CASE UNCHANGED vars
    BY <1>1 DEF vars, MoversUnaware, LocksWritten, Mover, At
  <1>2. CASE EditAmount
    BY <1>2 DEF EditAmount, MoversUnaware, LocksWritten, Mover, At
  <1>3. ASSUME NEW r \in Request, Generates(r) \/ Decides(r) \/ Die(r) PROVE LockInv'
    <2>1. PICK next \in Invocation : (Become(r, next) \/ Wrote(r, next)) /\ Moves(r, next)
      BY <1>3, Steps
    <2>2. /\ request'[r] = next
          /\ \A q \in Request \ {r} :
               request'[q].pc = request[q].pc /\ request'[q].read = request[q].read
      BY <2>1, Others
    <2>3. /\ budget.stamp \in Nat
          /\ \A q \in Request : request[q].read.stamp \in Nat
      BY BudgetAssumption DEF TypeOK, BudgetRow, Invocation
    \* A budget that is locked now was locked before, or all reads are older.
    <2>4. \/ budget'.status # "locked"
          \/ budget'.stamp = budget.stamp + 1 /\ budget' # budget
          \/ UNCHANGED budget
      <3>1. Writes(r)
        BY <1>3, Steps
      <3>2. TakesBack(r) => budget'.status # "locked"
        BY SaveFacts DEF TakesBack, Status
      <3>3. Locks \/ Approves(r) => budget'.stamp = budget.stamp + 1 /\ budget' # budget
        BY SaveFacts DEF Locks, Approves, Status
      <3>4. QED
        BY <3>1, <3>2, <3>3 DEF Writes
    <2>5. LocksWritten'
      BY <2>3, <2>4 DEF LocksWritten
    <2>6. MoversUnaware'
      <3> SUFFICES ASSUME budget'.status = "locked", NEW q \in Request, Mover(q)'
                   PROVE  request'[q].read.stamp < budget'.stamp
        BY DEF MoversUnaware
      <3>1. CASE q = r
        <4>1. UNCHANGED budget /\ next.pc \in {"upsert", "review", "reject"}
          BY <3>1, <2>1, <2>2 DEF Moves, Mover, At, Idle
        <4>2. CASE next.read = NoBudget /\ next.pc = "upsert"
          <5>1. request'[q].read.stamp = 0
            BY <3>1, <4>2, <2>2 DEF NoBudget
          <5>2. QED
            BY <5>1, <2>3, <2>5 DEF LocksWritten
        <4>3. CASE next.read = budget /\ (next.pc = "upsert" => budget.status \notin BlockedFrom)
          BY <3>1, <4>1, <4>3, <2>2 DEF Mover, At, BlockedFrom
        <4>4. QED
          BY <4>1, <4>2, <4>3, <2>1 DEF Moves, Idle
      <3>2. CASE q # r
        <4>1. Mover(q) /\ request'[q].read = request[q].read
          BY <3>2, <2>2 DEF Mover, At
        <4>2. request[q].read.stamp <= budget.stamp
          BY DEF ReadsStamped
        <4>3. CASE budget'.stamp = budget.stamp + 1
          BY <4>1, <4>2, <4>3, <2>3
        <4>4. CASE UNCHANGED budget
          BY <4>1, <4>4 DEF MoversUnaware
        <4>5. QED
          BY <2>4, <4>3, <4>4
      <3>3. QED
        BY <3>1, <3>2
    <2>7. QED
      BY <2>5, <2>6
  <1>4. QED
    BY <1>1, <1>2, <1>3 DEF Next

\* The figures of a locked budget stay, and only a request that has not read the
\* lock, or whose read failed, takes it back.
THEOREM LocksHold == Spec => LockHolds
  <1> DEFINE Unaware(r) == /\ request'[r] # request[r]
                           /\ \/ request[r].read.stamp < budget.stamp
                              \/ request[r].read = NoBudget
             Step == budget.status = "locked" =>
                 /\ budget'.figures = budget.figures
                 /\ budget'.status # "locked" => \E r \in Request : Unaware(r)
  <1>1. TypeOK /\ LockInv /\ [Next]_vars => [Step]_vars
    <2> SUFFICES ASSUME TypeOK, LockInv, Next, budget.status = "locked"
                 PROVE  /\ budget'.figures = budget.figures
                        /\ budget'.status # "locked" => \E r \in Request : Unaware(r)
      OBVIOUS
    <2>1. CASE EditAmount
      BY <2>1 DEF EditAmount
    <2>2. ASSUME NEW r \in Request, Generates(r) \/ Decides(r) \/ Die(r)
          PROVE  /\ budget'.figures = budget.figures
                 /\ budget'.status # "locked" => Unaware(r)
      <3>1. Writes(r)
        BY <2>2, Steps
      <3>2. CASE TakesBack(r)
        <4>1. budget'.figures = budget.figures /\ budget' # budget
          BY <3>2, SaveFacts DEF TakesBack, Status
        <4>2. Mover(r) /\ request[r].read.stamp < budget.stamp
          BY <3>2 DEF TakesBack, LockInv, MoversUnaware
        <4>3. PICK next \in Invocation : (Become(r, next) \/ Wrote(r, next)) /\ Moves(r, next)
          BY <2>2, Steps
        <4>4. request'[r] = next /\ request'[r].pc \notin {"upsert", "review", "reject", "approve"}
          BY <4>1, <4>3, Others DEF Moves, Idle
        <4>5. QED
          BY <4>1, <4>2, <4>4 DEF Mover, At
      <3>3. CASE Locks \/ Approves(r)
        BY <3>3, SaveFacts DEF Locks, Approves, Status
      <3>4. QED
        BY <3>1, <3>2, <3>3 DEF Writes
    <2>3. QED
      BY <2>1, <2>2 DEF Next
  <1>2. SignInv => ReadsStamped
    BY DEF SignInv
  <1>3. QED
    BY <1>1, <1>2, TypeCorrect, InitSigned, NextSigned, InitLock, NextLock, PTL DEF Spec, LockHolds

-----------------------------------------------------------------------------
(* Undisturbed planning requests *)

PlanInv == PlansFrozen /\ Undisturbed

LEMMA InitPlan == Init => PlanInv
  BY BudgetAssumption
  DEF Init, PlanInv, PlansFrozen, Undisturbed, Generating, At, Idle, NoSnapshot, Source

\* A step either tells the other requests that it wrote, or writes nothing.
Tables(r) ==
    \E next \in Invocation :
        Wrote(r, next) \/ (Become(r, next) /\ UNCHANGED <<budget, lines, published>>)

\* What a step of a request leaves for that request itself.
OwnPlan(r) ==
    /\ request'[r].pc \in Generating => Frozen(request'[r].figures)
    /\ At(r, "match")' => request'[r].figures.source = Live
    /\ request'[r].undisturbed /\ request'[r].figures.source \in Plan => Progress(r)'

LEMMA OthersPlan ==
  ASSUME TypeOK, PlanInv, NEW r \in Request, Tables(r), OwnPlan(r),
         published'.inputs \in Plan => published'.figures = [source |-> published'.inputs, edits |-> 0]
  PROVE  PlanInv'
  <1>1. PICK next \in Invocation :
           Wrote(r, next) \/ (Become(r, next) /\ UNCHANGED <<budget, lines, published>>)
    BY DEF Tables
  <1>2. \A q \in Request \ {r} :
          /\ request'[q].pc = request[q].pc /\ request'[q].figures = request[q].figures
          /\ request'[q].undisturbed => request[q].undisturbed /\ ~Wrote(r, next)
    BY <1>1, Others
  <1>3. ASSUME NEW q \in Request, q # r
        PROVE  /\ request'[q].pc \in Generating => Frozen(request'[q].figures)
               /\ At(q, "match")' => request'[q].figures.source = Live
               /\ request'[q].undisturbed /\ request'[q].figures.source \in Plan => Progress(q)'
    <2>1. /\ request'[q].pc \in Generating => Frozen(request'[q].figures)
          /\ At(q, "match")' => request'[q].figures.source = Live
      BY <1>2, <1>3 DEF PlanInv, PlansFrozen, At
    <2>2. ASSUME request'[q].undisturbed, request'[q].figures.source \in Plan
          PROVE  Progress(q)'
      <3>1. Progress(q) /\ UNCHANGED <<budget, lines, published>>
        BY <1>1, <1>2, <1>3, <2>2 DEF PlanInv, Undisturbed
      <3>2. QED
        BY <3>1, <1>2, <1>3 DEF Progress, At
    <2>3. QED
      BY <2>1, <2>2
  <1>4. QED
    BY <1>3 DEF OwnPlan, PlanInv, PlansFrozen, Undisturbed

\* An invocation that ends, or leaves the generation, has nothing to answer for.
LEMMA Elsewhere ==
  ASSUME TypeOK, NEW r \in Request, NEW next \in Invocation,
         Become(r, next) \/ Wrote(r, next), next.pc \notin Generating
  PROVE  OwnPlan(r)
  <1>1. request'[r] = next
    BY Others
  <1>2. QED
    BY <1>1 DEF OwnPlan, Progress, Generating, At

\* One that goes on with the same figures, to a statement before which nothing
\* more has to be written.
LEMMA GoesOn ==
  ASSUME TypeOK, PlanInv, NEW r \in Request, NEW next \in Invocation,
         Become(r, next) \/ Wrote(r, next), next.figures = request[r].figures,
         request[r].pc \in Generating, next.pc # "match",
         next.undisturbed /\ next.figures.source \in Plan => next.pc \notin {"delete", "insert", "publish", "done"}
  PROVE  OwnPlan(r)
  <1>1. request'[r] = next
    BY Others
  <1>2. QED
    BY <1>1 DEF OwnPlan, Progress, PlanInv, PlansFrozen, At

LEMMA GeneratesPlan ==
  ASSUME TypeOK, PlanInv, NEW r \in Request, Generates(r)
  PROVE  PlanInv'
  <1> DEFINE Published == published'.inputs \in Plan =>
                            published'.figures = [source |-> published'.inputs, edits |-> 0]
  <1>1. UNCHANGED published => Published
    BY DEF PlanInv, PlansFrozen
  <1>2. Idle \in Invocation /\ Idle.pc \notin Generating
    BY IdleTypes DEF Idle, Generating
  <1>3. Finish(r) /\ UNCHANGED <<budget, lines, published>> => PlanInv'
    BY <1>1, <1>2, OthersPlan, Elsewhere DEF Finish, Tables
  <1>4. ASSUME NEW s \in Source, Load(r, s) PROVE PlanInv'
    <2> DEFINE figures == [source |-> s, edits |-> IF s = Live THEN edits ELSE 0]
               next    == [Idle EXCEPT !.pc = "check", !.figures = figures]
    <2>1. figures \in Figures /\ Frozen(figures)
      BY BudgetAssumption DEF TypeOK, Figures, Frozen
    <2>2. next \in Invocation /\ next.pc = "check" /\ next.figures = figures /\ ~next.undisturbed
      BY <2>1, IdleTypes DEF Invocation, Idle, Pc
    <2>3. Become(r, next) /\ UNCHANGED <<budget, lines, published>>
      BY <1>4 DEF Load
    <2>4. OwnPlan(r)
      BY <2>1, <2>2, <2>3, Others DEF OwnPlan, At
    <2>5. QED
      BY <1>1, <2>2, <2>3, <2>4, OthersPlan DEF Tables
  <1>5. CASE CheckStatus(r)
    <2>1. budget \in BudgetRow /\ NoBudget \in BudgetRow
      BY IdleTypes DEF TypeOK, Idle
    <2>2. After(r, "upsert") \in Invocation
      BY AfterTypes, Places
    <2>3. ASSUME NEW read \in BudgetRow, Become(r, [After(r, "upsert") EXCEPT !.read = read])
          PROVE  PlanInv'
      <3> DEFINE next == [After(r, "upsert") EXCEPT !.read = read]
      <3>1. next \in Invocation /\ next.pc = "upsert" /\ next.figures = request[r].figures
        BY <2>2 DEF After, TypeOK, Invocation
      <3>2. OwnPlan(r)
        BY <1>5, <2>3, <3>1, GoesOn DEF CheckStatus, At, Generating
      <3>3. QED
        BY <1>1, <1>5, <2>3, <3>1, <3>2, OthersPlan DEF Tables, CheckStatus
    <2>4. CASE Finish(r)
      BY <1>3, <1>5, <2>4 DEF CheckStatus
    <2>5. QED
      BY <1>5, <2>1, <2>3, <2>4 DEF CheckStatus
  <1>6. CASE Upsert(r)
    <2> DEFINE figures == request[r].figures
               pc      == IF figures.source = Live THEN "match" ELSE "delete"
               next    == [After(r, pc) EXCEPT !.undisturbed = TRUE]
    <2>1. CASE Protected(figures)
      BY <1>3, <1>6, <2>1 DEF Upsert
    <2>2. CASE ~Protected(figures)
      <3>1. Save("draft", figures) /\ Wrote(r, next) /\ UNCHANGED <<lines, published>> /\ At(r, "upsert")
        BY <1>6, <2>2 DEF Upsert
      <3>2. budget'.figures = figures
        BY <3>1, SaveFacts DEF Status
      <3>3. pc \in Pc /\ (pc = "match" => figures.source = Live)
        BY Places
      <3>4. ASSUME NEW place \in Pc
            PROVE  LET n == [After(r, place) EXCEPT !.undisturbed = TRUE]
                   IN  n \in Invocation /\ n.pc = place /\ n.figures = figures
        BY AfterTypes
      <3>5. next \in Invocation /\ next.pc = pc /\ next.figures = figures
        BY <3>3, <3>4
      <3>6. request'[r] = next
        BY <3>1, <3>5, Others
      <3>7. Frozen(figures)
        BY <3>1 DEF PlanInv, PlansFrozen, At, Generating
      <3>8. pc \notin {"insert", "publish", "done"}
        OBVIOUS
      <3>9. OwnPlan(r)
        BY <3>2, <3>3, <3>5, <3>6, <3>7, <3>8 DEF OwnPlan, Progress, At
      <3>10. QED
        BY <1>1, <3>1, <3>5, <3>9, OthersPlan DEF Tables
    <2>3. QED
      BY <2>1, <2>2
  <1>7. CASE MatchSnapshot(r)
    <2>1. CASE Finish(r)
      BY <1>3, <1>7, <2>1 DEF MatchSnapshot
    <2>2. CASE Become(r, After(r, "publish"))
      <3>1. /\ After(r, "publish") \in Invocation /\ After(r, "publish").pc = "publish"
            /\ After(r, "publish").figures = request[r].figures
        BY AfterTypes, Places
      <3>2. request[r].figures.source \notin Plan
        BY <1>7, BudgetAssumption DEF MatchSnapshot, PlanInv, PlansFrozen
      <3>3. OwnPlan(r)
        BY <1>7, <2>2, <3>1, <3>2, GoesOn DEF MatchSnapshot, At, Generating
      <3>4. QED
        BY <1>1, <1>7, <2>2, <3>1, <3>3, OthersPlan DEF Tables, MatchSnapshot
    <2>3. QED
      BY <1>7, <2>1, <2>2 DEF MatchSnapshot, Goto
  <1>8. ASSUME NEW pc \in {"insert", "publish", "done"}, Shrug(r, pc), request[r].pc \in Generating,
               UNCHANGED <<budget, lines, published>>
        PROVE  PlanInv'
    <2> DEFINE next == [After(r, pc) EXCEPT !.undisturbed = FALSE]
    <2>1. next \in Invocation /\ next.pc = pc /\ next.figures = request[r].figures /\ ~next.undisturbed
      BY AfterTypes, Places DEF TypeOK, After, Invocation
    <2>2. Become(r, next)
      BY <1>8 DEF Shrug
    <2>3. OwnPlan(r)
      BY <1>8, <2>1, <2>2, GoesOn
    <2>4. QED
      BY <1>1, <1>8, <2>1, <2>2, <2>3, OthersPlan DEF Tables
  <1>9. ASSUME NEW pc \in {"insert", "publish", "done"}, Wrote(r, After(r, pc)),
               request[r].pc \in Generating, Published,
               request[r].undisturbed /\ request[r].figures.source \in Plan =>
                 /\ budget'.figures = request[r].figures
                 /\ pc = "insert" => lines' = [p \in Plan |-> 0]
                 /\ pc \in {"publish", "done"} =>
                      lines' = [p \in Plan |-> IF p = request[r].figures.source THEN 1 ELSE 0]
                 /\ pc = "done" => published'.figures = request[r].figures
        PROVE  PlanInv'
    <2> DEFINE next == After(r, pc)
    <2>1. /\ next \in Invocation /\ next.pc = pc /\ next.figures = request[r].figures
          /\ next.undisturbed = request[r].undisturbed
      BY AfterTypes, Places DEF TypeOK, After, Invocation
    <2>2. request'[r] = next
      BY <1>9, <2>1, Others
    <2>3. Frozen(next.figures)
      BY <1>9, <2>1 DEF PlanInv, PlansFrozen
    <2>4. OwnPlan(r)
      BY <1>9, <2>1, <2>2, <2>3 DEF OwnPlan, Progress, At
    <2>5. QED
      BY <1>9, <2>1, <2>4, OthersPlan DEF Tables
  <1>10. request[r].undisturbed /\ request[r].figures.source \in Plan => Progress(r)
    BY DEF PlanInv, Undisturbed
  <1>11. CASE DeleteLines(r)
    <2>1. CASE Shrug(r, "insert") /\ UNCHANGED lines
      BY <1>8, <1>11, <2>1 DEF DeleteLines, At, Generating
    <2>2. CASE lines' = Emptied(r) /\ Wrote(r, After(r, "insert"))
      BY <1>1, <1>9, <1>10, <1>11, <2>2 DEF DeleteLines, Emptied, At, Generating, Progress
    <2>3. QED
      BY <1>11, <2>1, <2>2 DEF DeleteLines
  <1>12. CASE InsertLines(r)
    <2>1. CASE Shrug(r, "publish") /\ UNCHANGED lines
      BY <1>8, <1>12, <2>1 DEF InsertLines, At, Generating
    <2>2. CASE /\ lines' = [lines EXCEPT ![request[r].figures.source] = @ + 1]
               /\ Wrote(r, After(r, "publish"))
      <3>1. At(r, "insert") /\ UNCHANGED <<budget, published>> /\ "insert" \in Generating
        BY <1>12 DEF InsertLines, Generating
      <3>2. ASSUME request[r].undisturbed, request[r].figures.source \in Plan
            PROVE  /\ budget'.figures = request[r].figures
                   /\ lines' = [p \in Plan |-> IF p = request[r].figures.source THEN 1 ELSE 0]
        <4>1. budget.figures = request[r].figures /\ lines = [p \in Plan |-> 0]
          BY <1>10, <3>1, <3>2 DEF Progress, At
        <4>2. QED
          BY <2>2, <3>1, <3>2, <4>1
      <3>3. QED
        BY <1>1, <1>9, <2>2, <3>1, <3>2 DEF At
    <2>3. QED
      BY <1>12, <2>1, <2>2 DEF InsertLines
  <1>13. CASE Publish(r)
    <2> DEFINE figures == request[r].figures
    <2>1. CASE Shrug(r, "done") /\ UNCHANGED published
      BY <1>8, <1>13, <2>1 DEF Publish, At, Generating
    <2>2. CASE /\ published' = IF published.inputs = figures.source THEN published
                               ELSE [inputs |-> figures.source, figures |-> figures]
               /\ Wrote(r, After(r, "done"))
      <3>1. figures.source \in Plan => figures = [source |-> figures.source, edits |-> 0]
        <4>1. figures \in Figures /\ Frozen(figures)
          BY <1>13 DEF Publish, PlanInv, PlansFrozen, At, Generating, TypeOK, Invocation
        <4>2. QED
          BY <4>1 DEF Frozen, Figures
      <3>2. Published /\ (figures.source \in Plan => published'.figures = figures)
        BY <2>2, <3>1 DEF PlanInv, PlansFrozen
      <3>3. QED
        BY <1>9, <1>10, <1>13, <2>2, <3>2 DEF Publish, At, Generating, Progress
    <2>3. QED
      BY <1>13, <2>1, <2>2 DEF Publish
  <1>14. CASE Respond(r)
    BY <1>3, <1>14 DEF Respond
  <1>15. QED
    BY <1>4, <1>5, <1>6, <1>7, <1>11, <1>12, <1>13, <1>14 DEF Generates

LEMMA DecidesPlan ==
  ASSUME TypeOK, PlanInv, NEW r \in Request, Decides(r) \/ Die(r)
  PROVE  PlanInv'
  <1> DEFINE Published == published'.inputs \in Plan =>
                            published'.figures = [source |-> published'.inputs, edits |-> 0]
  <1>1. UNCHANGED published => Published
    BY DEF PlanInv, PlansFrozen
  <1>2. ASSUME NEW next \in Invocation, next.pc \notin Generating, Published,
               Wrote(r, next) \/ (Become(r, next) /\ UNCHANGED <<budget, lines, published>>)
        PROVE  PlanInv'
    BY <1>2, Elsewhere, OthersPlan DEF Tables
  <1>3. Idle \in Invocation /\ Idle.pc \notin Generating
    BY IdleTypes DEF Idle, Generating
  <1>4. After(r, "latest") \in Invocation /\ After(r, "latest").pc \notin Generating
    BY AfterTypes, Places DEF Generating
  <1>5. ASSUME NEW action \in {"review", "reject", "approve", "lock"}, Resolve(r, action) PROVE PlanInv'
    <2> DEFINE next == [Idle EXCEPT !.pc = action, !.read = budget]
    <2>1. budget \in BudgetRow /\ action \in Pc
      BY DEF TypeOK, Pc
    <2>2. next \in Invocation /\ next.pc \notin Generating
      BY <2>1, IdleTypes DEF Invocation, Generating, Idle
    <2>3. QED
      BY <1>1, <1>2, <1>5, <2>2 DEF Resolve
  <1>6. ASSUME NEW allowed, NEW status, SetStatus(r, allowed, status), UNCHANGED <<lines, published>>
        PROVE  PlanInv'
    BY <1>1, <1>2, <1>3, <1>4, <1>6 DEF SetStatus, Finish
  <1>7. CASE MarkReviewed(r) \/ Reject(r) \/ Lock(r)
    BY <1>6, <1>7 DEF MarkReviewed, Reject, Lock
  <1>8. CASE Approve(r)
    BY <1>1, <1>2, <1>3, <1>8 DEF Approve, Finish
  <1>9. CASE ReadLatest(r)
    <2>1. /\ request[r].read.figures \in Figures
          /\ published # NoSnapshot => published.figures \in Figures
      BY DEF TypeOK, Snapshot, Invocation, BudgetRow
    <2>2. ASSUME NEW figures \in Figures, Become(r, [After(r, "baseline") EXCEPT !.figures = figures])
          PROVE  PlanInv'
      <3> DEFINE next == [After(r, "baseline") EXCEPT !.figures = figures]
      <3>1. After(r, "baseline") \in Invocation /\ After(r, "baseline").pc = "baseline"
        BY AfterTypes, Places
      <3>2. next \in Invocation /\ next.pc = "baseline"
        BY <3>1 DEF Invocation
      <3>3. next.pc \notin Generating
        BY <3>2 DEF Generating
      <3>4. QED
        BY <1>1, <1>2, <1>9, <2>2, <3>2, <3>3 DEF ReadLatest
    <2>3. QED
      BY <1>9, <2>1, <2>2 DEF ReadLatest
  <1>10. CASE PublishBaseline(r)
    <2>1. Published
      BY <1>1, <1>10, BudgetAssumption DEF PublishBaseline, Source
    <2>2. QED
      BY <1>2, <1>3, <1>10, <2>1 DEF PublishBaseline, Finish
  <1>11. CASE Die(r)
    BY <1>1, <1>2, <1>3, <1>11 DEF Die, Finish
  <1>12. QED
    BY <1>5, <1>7, <1>8, <1>9, <1>10, <1>11 DEF Decides

LEMMA NextPlan == TypeOK /\ PlanInv /\ [Next]_vars => PlanInv'
  <1> SUFFICES ASSUME TypeOK, PlanInv, [Next]_vars PROVE PlanInv'
    OBVIOUS
  <1>1. CASE UNCHANGED vars \/ EditAmount
    BY <1>1 DEF vars, EditAmount, PlanInv, PlansFrozen, Undisturbed, Progress, At
  <1>2. QED
    BY <1>1, GeneratesPlan, DecidesPlan DEF Next

\* An undisturbed planning request leaves totals, line items and snapshot of its
\* own planning set.
THEOREM UndisturbedPlansAgree == Spec => []PlanAgrees
  <1>1. PlanInv => PlanAgrees
    BY DEF PlanInv, Undisturbed, Progress, PlanAgrees, At
  <1>2. QED
    BY <1>1, TypeCorrect, InitPlan, NextPlan, PTL DEF Spec

=============================================================================
