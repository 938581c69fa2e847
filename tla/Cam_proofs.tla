---------------------------- MODULE Cam_proofs ----------------------------
(***************************************************************************)
(* Theorems about CAM runs and about the calculation they keep.            *)
(*                                                                         *)
(* CamRun, for any runs, requests, run types and edits: its types, that it *)
(* implements the ledger of CamLedger, and that the stale flag tells of    *)
(* edits.                                                                  *)
(*                                                                         *)
(* CamEngine, for any leases, pools, expenses and well-formed inputs: its  *)
(* types, what the rounding boundary keeps, that terms for a year keep     *)
(* their meaning over the segments, that a share of a pool owes what its   *)
(* days add up to, and that what is ready to be posted is complete on      *)
(* every day.  Sums over finite sets and induction over them are stated    *)
(* with functions to BOOLEAN in the place of predicates.                   *)
(***************************************************************************)
EXTENDS CamRun, CamEngine, FiniteSetTheorems, TLAPS

-----------------------------------------------------------------------------
(* Invariants *)

\* An edit that is open has room to commit, and holds rows that exist.
EditOpen ==
    /\ edit # NoEdit => edits < MaxEdits
    /\ \A r \in Run : r \in edit => Exists(r)

\* A request works on a run that exists.
CallRuns == \A c \in Call : call[c] # Idle => Exists(call[c].run)

TypeInv == TypeOK /\ EditOpen /\ CallRuns

\* Whoever is past the calculation has results that nothing blocks.
Closed == {"calculated", "under_review", "submitted", "approved", "posted", "superseded"}

CleanResults ==
    \A r \in Run : Exists(r) /\ run[r].status \in Closed =>
        run[r].result # NoResult /\ ~run[r].result.open

\* No edit marks the run any more, and no request persists results of it.
Settled(r) == run[r].status \in Final \cup {"approved"}

\* The runs an open edit has not marked were created after it did.
MarkingCovers ==
    edit # NoEdit =>
        \A r \in Run : Exists(r) /\ ~Settled(r) /\ r \notin edit => edits < run[r].born

\* The flag of a run, or its birth, tells of the edits that a source lacks.
Told(r, source) ==
    Settled(r) \/ run[r].stale \/ source.edits = edits \/ edits <= run[r].born

CallsTold ==
    \A c \in Call : call[c].pc \in {"mark", "persist"} => Told(call[c].run, call[c].seen)

ResultsTold ==
    \A r \in Run : Exists(r) /\ run[r].result # NoResult => Told(r, run[r].result.source)

StaleInv == MarkingCovers /\ CallsTold /\ ResultsTold

-----------------------------------------------------------------------------
(* Types *)

LEMMA InitTypes == Init => TypeInv
  BY RunAssumption DEF Init, TypeInv, TypeOK, EditOpen, CallRuns, NoEdit, Exists, Idle

\* A request goes on with another record.
LEMMA GotoTypes ==
  ASSUME TypeInv, NEW c \in Call, NEW m, m = Idle \/ (IsCall(m) /\ Exists(m.run)'), Goto(c, m),
         \A r \in Run : Exists(r) => Exists(r)'
  PROVE  /\ DOMAIN call' = Call
         /\ \A d \in Call : call'[d] = Idle \/ IsCall(call'[d])
         /\ CallRuns'
  <1>1. DOMAIN call' = Call /\ \A d \in Call : call'[d] = IF d = c THEN m ELSE call[d]
    BY DEF TypeInv, TypeOK, Goto
  <1>2. \A d \in Call : call'[d] = Idle \/ IsCall(call'[d])
    BY <1>1 DEF TypeInv, TypeOK
  <1>3. ASSUME NEW d \in Call, call'[d] # Idle PROVE Exists(call[d].run)'
    <2>1. CASE d = c
      BY <1>1, <1>3, <2>1
    <2>2. CASE d # c
      <3>1. call'[d] = call[d] /\ IsCall(call[d]) /\ Exists(call[d].run)
        BY <1>1, <1>3, <2>2 DEF TypeInv, TypeOK, CallRuns
      <3>2. call[d].run \in Run
        BY <3>1 DEF IsCall
      <3>3. QED
        BY <3>1, <3>2
    <2>3. QED
      BY <2>1, <2>2
  <1>4. QED
    BY <1>1, <1>2, <1>3 DEF CallRuns

\* A row of cam_runs is replaced.
LEMMA RowTypes ==
  ASSUME TypeInv, NEW r \in Run, NEW row \in RunRow, run' = [run EXCEPT ![r] = row]
  PROVE  /\ run' \in [Run -> RunRow \cup {NoRun}]
         /\ \A q \in Run : Exists(q) => Exists(q)'
         /\ Exists(r)'
  <1>1. row # NoRun
    BY DEF RunRow, NoRun, Status
  <1>2. QED
    BY <1>1 DEF TypeInv, TypeOK, Exists

LEMMA StatusTypes ==
  ASSUME TypeInv, NEW r \in Run, Exists(r), NEW to \in Status, run' = [run EXCEPT ![r].status = to]
  PROVE  /\ run' \in [Run -> RunRow \cup {NoRun}]
         /\ \A q \in Run : Exists(q) => Exists(q)'
  <1> DEFINE row == [run[r] EXCEPT !.status = to]
  <1>1. row \in RunRow
    BY DEF TypeInv, TypeOK, Exists, RunRow
  <1>2. run' = [run EXCEPT ![r] = row]
    BY DEF TypeInv, TypeOK
  <1>3. QED
    BY <1>1, <1>2, RowTypes

LEMMA ResultTypes ==
  ASSUME TypeInv, NEW r \in Run, Exists(r)
  PROVE  /\ run[r] \in RunRow /\ run[r].status \in Status /\ run[r].type \in Type
         /\ run[r].result \in Result \cup {NoResult}
         /\ run[r].stale \in BOOLEAN /\ run[r].born \in 0..MaxEdits
  BY DEF TypeInv, TypeOK, Exists, RunRow

\* A request that persists has a calculation to persist.
LEMMA PersistTypes ==
  ASSUME TypeInv, NEW c \in Call, Persist(c)
  PROVE  LET me == call[c]  row == run[me.run]
         IN  /\ me.run \in Run /\ Exists(me.run) /\ me.run \notin edit
             /\ me.seen \in Source /\ Calculated(me) \in Result
             /\ row.status \in {"ready", "calculating", "calculated"}
             /\ run' = [run EXCEPT ![me.run] =
                          [row EXCEPT !.result = Calculated(me), !.status = Outcome(me)]]
  <1> DEFINE me == call[c]
  <1>1. me \in [pc : {"mark", "persist"}, run : Run, waits : BOOLEAN, mode : Mode, seen : Source]
    BY DEF Persist, PersistFrom, TypeInv, TypeOK, Idle, IsCall
  <1>2. Calculated(me) \in Result
    BY <1>1 DEF Calculated, Result, Source
  <1>3. QED
    BY <1>1, <1>2 DEF Persist, PersistFrom, Free, TypeInv, TypeOK

LEMMA CallNextTypes ==
  ASSUME TypeInv, NEW c \in Call, CallNext(c)
  PROVE  TypeInv'
  <1> DEFINE me == call[c]
             Same == \A r \in Run : Exists(r) => Exists(r)'
             Typed == /\ DOMAIN call' = Call
                      /\ \A d \in Call : call'[d] = Idle \/ IsCall(call'[d])
                      /\ CallRuns'
  <1>1. me = Idle \/ IsCall(me)
    BY DEF TypeInv, TypeOK
  <1>2. me # Idle => Exists(me.run) /\ me.run \in Run
    BY <1>1 DEF TypeInv, CallRuns, IsCall
  <1>3. ASSUME Typed, UNCHANGED data, UNCHANGED swaps, Same, run' \in [Run -> RunRow \cup {NoRun}]
        PROVE  TypeInv'
    BY <1>3 DEF TypeInv, TypeOK, EditOpen, data
  <1>4. ASSUME UNCHANGED run PROVE Same /\ run' \in [Run -> RunRow \cup {NoRun}]
    BY <1>4 DEF TypeInv, TypeOK, Exists
  <1>5. ASSUME Ends(c), Same PROVE Typed
    BY <1>5, GotoTypes DEF Ends
  <1>6. ASSUME NEW m, IsCall(m), m.run = me.run, me # Idle, Goto(c, m), Same PROVE Typed
    BY <1>2, <1>6, GotoTypes
  <1>7. CASE Load(c)
    <2>1. PICK m \in Mode, r \in Run :
            /\ Exists(r)
            /\ Goto(c, [pc |-> "evaluate", run |-> r, waits |-> Waits(run[r].status), mode |-> m])
      BY <1>7 DEF Load, Series, Active
    <2>2. r \in Run /\ Exists(r)
      BY <2>1
    <2> DEFINE new == [pc |-> "evaluate", run |-> r, waits |-> Waits(run[r].status), mode |-> m]
    <2>3. IsCall(new) /\ new.run = r
      BY <2>2 DEF IsCall, Waits
    <2>4. Same /\ Exists(r)'
      BY <1>4, <1>7, <2>2 DEF Load
    <2> HIDE DEF new
    <2>5. Typed
      BY <2>1, <2>3, <2>4, GotoTypes DEF new
    <2>6. QED
      BY <1>3, <1>4, <1>7, <2>5 DEF Load
  <1>8. CASE Create(c)
    <2>1. PICK t \in Type, m \in Mode, r \in Run :
            /\ ~Exists(r)
            /\ run' = [run EXCEPT ![r] = [type |-> t, status |-> "draft", result |-> NoResult,
                                          stale |-> FALSE, born |-> Marked]]
            /\ Goto(c, [pc |-> "evaluate", run |-> r, waits |-> Waits("draft"), mode |-> m])
      BY <1>8 DEF Create
    <2>2. Marked \in 0..MaxEdits
      BY RunAssumption DEF TypeInv, TypeOK, EditOpen, Marked
    <2> DEFINE row == [type |-> t, status |-> "draft", result |-> NoResult,
                       stale |-> FALSE, born |-> Marked]
               new == [pc |-> "evaluate", run |-> r, waits |-> Waits("draft"), mode |-> m]
    <2>3. row \in RunRow
      BY <2>2 DEF RunRow, Status
    <2>4. /\ run' \in [Run -> RunRow \cup {NoRun}]
          /\ \A q \in Run : Exists(q) => Exists(q)'
          /\ Exists(r)'
      BY <2>1, <2>3, RowTypes
    <2>5. IsCall(new) /\ new.run = r
      BY DEF IsCall, Waits
    <2> HIDE DEF new
    <2>6. Typed
      BY <2>1, <2>4, <2>5, GotoTypes DEF new
    <2>7. QED
      BY <1>3, <1>8, <2>4, <2>6 DEF Create
  <1>9. CASE Evaluate(c)
    <2>1. PICK pc \in {"read", "unready"} : Goto(c, [me EXCEPT !.pc = pc])
      BY <1>9 DEF Evaluate
    <2>2. /\ IsCall([me EXCEPT !.pc = pc]) /\ [me EXCEPT !.pc = pc].run = me.run /\ me # Idle
      BY <1>1, <1>9 DEF Evaluate, Idle, IsCall
    <2>3. Typed
      BY <1>4, <1>6, <1>9, <2>1, <2>2 DEF Evaluate
    <2>4. QED
      BY <1>3, <1>4, <1>9, <2>3 DEF Evaluate
  <1>10. CASE ReadSources(c)
    <2>1. PICK seen \in Source :
            Goto(c, [pc |-> "mark", run |-> me.run, waits |-> me.waits, mode |-> me.mode, seen |-> seen])
      BY <1>10 DEF ReadSources
    <2> DEFINE new == [pc |-> "mark", run |-> me.run, waits |-> me.waits, mode |-> me.mode, seen |-> seen]
    <2>2. IsCall(new) /\ new.run = me.run /\ me # Idle
      BY <1>1, <1>10 DEF ReadSources, Idle, IsCall
    <2> HIDE DEF new
    <2>3. Typed
      BY <1>4, <1>6, <1>10, <2>1, <2>2 DEF ReadSources, new
    <2>4. QED
      BY <1>3, <1>4, <1>10, <2>3 DEF ReadSources
  <1>11. CASE CapUnresolved(c)
    <2>1. /\ IsCall([me EXCEPT !.pc = "unready"]) /\ [me EXCEPT !.pc = "unready"].run = me.run
          /\ me # Idle
      BY <1>1, <1>11 DEF CapUnresolved, Idle, IsCall
    <2>2. Typed
      BY <1>4, <1>6, <1>11, <2>1 DEF CapUnresolved
    <2>3. QED
      BY <1>3, <1>4, <1>11, <2>2 DEF CapUnresolved
  <1>12. CASE NotReady(c)
    <2>1. me # Idle
      BY <1>12 DEF NotReady, Idle
    <2>2. Same /\ run' \in [Run -> RunRow \cup {NoRun}]
      BY <1>2, <1>4, <1>12, <2>1, StatusTypes DEF NotReady, SetStatus, Status
    <2>3. QED
      BY <1>3, <1>5, <1>12, <2>2 DEF NotReady
  <1>13. CASE MarkReady(c)
    <2>1. IsCall([me EXCEPT !.pc = "persist"]) /\ [me EXCEPT !.pc = "persist"].run = me.run /\ me # Idle
      BY <1>1, <1>13 DEF MarkReady, Idle, IsCall
    <2>2. Same /\ run' \in [Run -> RunRow \cup {NoRun}]
      BY <1>2, <1>4, <1>13, <2>1, StatusTypes DEF MarkReady, SetStatus, Status
    <2>3. Typed
      BY <1>6, <1>13, <2>1, <2>2 DEF MarkReady
    <2>4. QED
      BY <1>3, <1>13, <2>2, <2>3 DEF MarkReady
  <1>14. CASE AlreadyPersisted(c)
    BY <1>3, <1>4, <1>5, <1>14 DEF AlreadyPersisted
  <1>15. CASE Persist(c)
    <2>1. me.run \in Run /\ Exists(me.run) /\ Calculated(me) \in Result
      BY <1>15, PersistTypes
    <2>2. run' = [run EXCEPT ![me.run] =
                    [run[me.run] EXCEPT !.result = Calculated(me), !.status = Outcome(me)]]
      BY <1>15, PersistTypes
    <2>3. run[me.run] \in RunRow /\ Outcome(me) \in Status
      BY <2>1, ResultTypes DEF Outcome, Status
    <2>4. [run[me.run] EXCEPT !.result = Calculated(me), !.status = Outcome(me)] \in RunRow
      BY <2>1, <2>3 DEF RunRow
    <2>5. Same /\ run' \in [Run -> RunRow \cup {NoRun}]
      BY <2>1, <2>2, <2>4, RowTypes
    <2>6. QED
      BY <1>3, <1>5, <1>15, <2>5 DEF Persist, PersistFrom
  <1>16. CASE Dies(c)
    BY <1>3, <1>4, <1>5, <1>16 DEF Dies
  <1>17. QED
    BY <1>7, <1>8, <1>9, <1>10, <1>11, <1>12, <1>13, <1>14, <1>15, <1>16 DEF CallNext

\* Between the requests, only the status and the openness of results change.
LEMMA ReviewTypes ==
  ASSUME TypeInv, NEW r \in Run, ReviewNext(r)
  PROVE  TypeInv'
  <1>1. Exists(r)
    BY DEF ReviewNext
  <1>2. run[r] \in RunRow
    BY <1>1, ResultTypes
  <1>3. run' \in [Run -> RunRow \cup {NoRun}] /\ \A q \in Run : Exists(q) => Exists(q)'
    <2>1. ASSUME NEW from, NEW to \in Status, Reviews(r, from, to)
          PROVE  run' \in [Run -> RunRow \cup {NoRun}] /\ \A q \in Run : Exists(q) => Exists(q)'
      BY <1>1, <2>1, StatusTypes DEF Reviews
    <2>2. CASE Submit(r) \/ ReturnToDraft(r) \/ Reject(r) \/ Approve(r) \/ Post(r)
      BY <2>1, <2>2 DEF Submit, ReturnToDraft, Reject, Approve, Post, Status
    <2>3. CASE Resolve(r)
      <3>1. run[r].result \in Result
        BY <1>2, <2>3 DEF Resolve, RunRow
      <3>2. [run[r] EXCEPT !.result.open = FALSE] \in RunRow
        BY <1>2, <3>1 DEF RunRow, Result
      <3>3. run' = [run EXCEPT ![r] = [run[r] EXCEPT !.result.open = FALSE]]
        BY <2>3 DEF Resolve, TypeInv, TypeOK
      <3>4. QED
        BY <3>2, <3>3, RowTypes
    <2>4. QED
      BY <2>2, <2>3 DEF ReviewNext
  <1>4. UNCHANGED <<data, swaps, call>>
    BY DEF ReviewNext, Submit, ReturnToDraft, Reject, Approve, Post, Resolve, Reviews
  <1>5. QED
    BY <1>3, <1>4 DEF TypeInv, TypeOK, EditOpen, CallRuns, data, IsCall

LEMMA NextTypes == TypeInv /\ [Next]_vars => TypeInv'
  <1> SUFFICES ASSUME TypeInv, [Next]_vars PROVE TypeInv'
    OBVIOUS
  <1>1. CASE UNCHANGED vars
    BY <1>1 DEF vars, TypeInv, TypeOK, EditOpen, CallRuns, Exists, IsCall
  <1>2. ASSUME NEW old \in Run, NEW new \in Run, CheckSwap(old, new) PROVE TypeInv'
    BY <1>2 DEF CheckSwap, TypeInv, TypeOK, EditOpen, CallRuns, Exists, IsCall, data
  <1>3. ASSUME NEW old \in Run, NEW new \in Run, Supersede(old, new) PROVE TypeInv'
    <2>1. run' \in [Run -> RunRow \cup {NoRun}] /\ \A q \in Run : Exists(q) => Exists(q)'
      <3>1. CASE UNCHANGED run
        BY <3>1 DEF TypeInv, TypeOK, Exists
      <3>2. CASE SetStatus(old, "superseded")
        BY <3>2, StatusTypes DEF SetStatus, Free, Status
      <3>3. QED
        BY <1>3, <3>1, <3>2 DEF Supersede
    <2>2. QED
      BY <1>3, <2>1 DEF Supersede, TypeInv, TypeOK, EditOpen, CallRuns, data, IsCall
  <1>4. CASE EditMarks
    BY <1>4, RunAssumption DEF EditMarks, MarkRuns, TypeInv, TypeOK, EditOpen, CallRuns, Exists, IsCall
  <1>5. CASE EditCommits
    <2>1. edit \in SUBSET Run /\ \A r \in edit : run[r] \in RunRow
      BY <1>5, ResultTypes DEF EditCommits, TypeInv, TypeOK, EditOpen
    <2>2. \A r \in edit : [run[r] EXCEPT !.stale = TRUE] \in RunRow
      BY <2>1 DEF RunRow
    <2>3. run' \in [Run -> RunRow \cup {NoRun}]
      BY <1>5, <2>2 DEF EditCommits, TypeInv, TypeOK
    <2>4. \A q \in Run : Exists(q) => Exists(q)'
      <3>1. \A q \in edit : [run[q] EXCEPT !.stale = TRUE] # NoRun
        BY <2>2 DEF RunRow, NoRun, Status
      <3>2. QED
        BY <1>5, <3>1 DEF EditCommits, Exists
    <2>5. edits' \in 0..MaxEdits
      BY <1>5, RunAssumption DEF EditCommits, TypeInv, TypeOK, EditOpen
    <2>6. QED
      BY <1>5, <2>3, <2>4, <2>5, RunAssumption
      DEF EditCommits, TypeInv, TypeOK, EditOpen, CallRuns, NoEdit, IsCall
  <1>6. QED
    BY <1>1, <1>2, <1>3, <1>4, <1>5, CallNextTypes, ReviewTypes DEF Next

LEMMA TypeInvHolds == Spec => []TypeInv
  BY InitTypes, NextTypes, PTL DEF Spec

\* Runs, edits and requests have the shape the code gives them, for any runs,
\* requests and edits.
THEOREM TypeCorrect == Spec => []TypeOK
  BY TypeInvHolds, PTL DEF TypeInv

-----------------------------------------------------------------------------
(* Steps of a row *)

Created(r, row) ==
    /\ ~Exists(r)
    /\ row.status = "draft" /\ row.result = NoResult /\ ~row.stale /\ row.born = Marked

\* The steps of a review, and the updates of requests that find a run not ready
\* or ready.
ReviewSteps ==
    ({"draft", "readiness_failed", "ready", "calculating"} \X {"readiness_failed", "ready"})
    \cup ({"under_review", "submitted"} \X {"calculated"})
    \cup ({"submitted"} \X {"under_review", "approved"})
    \cup {<<"approved", "posted">>, <<"posted", "superseded">>}

Moved(r, row) ==
    /\ Exists(r)
    /\ \E to \in Status :
         /\ row = [run[r] EXCEPT !.status = to]
         /\ \/ <<run[r].status, to>> \in ReviewSteps
            \/ run[r].status = "calculated" /\ to = "submitted" /\ run[r].result.mode = "posting_eligible"

Persisted(r, row) ==
    /\ Exists(r)
    /\ run[r].status \in {"ready", "calculating", "calculated"}
    /\ \E c \in Call :
         /\ call[c].pc = "persist" /\ call[c].run = r /\ Calculated(call[c]) \in Result
         /\ row = [run[r] EXCEPT !.result = Calculated(call[c]), !.status = Outcome(call[c])]

Resolved(r, row) ==
    /\ Exists(r)
    /\ run[r].status \notin Final /\ run[r].result \in Result /\ run[r].result.open
    /\ row = [run[r] EXCEPT !.result.open = FALSE]

RowStep(r, row) == Created(r, row) \/ Moved(r, row) \/ Persisted(r, row) \/ Resolved(r, row)

\* One row changes, in one of these ways.
Writes ==
    /\ UNCHANGED <<edits, edit>>
    /\ \E r \in Run, row \in RunRow : RowStep(r, row) /\ run' = [run EXCEPT ![r] = row]

LEMMA StatusSteps ==
  ASSUME TypeInv, NEW r \in Run, NEW to \in Status, Exists(r),
         \/ <<run[r].status, to>> \in ReviewSteps
         \/ run[r].status = "calculated" /\ to = "submitted" /\ run[r].result.mode = "posting_eligible",
         run' = [run EXCEPT ![r].status = to], UNCHANGED <<edits, edit>>
  PROVE  Writes
  <1> DEFINE row == [run[r] EXCEPT !.status = to]
  <1>1. row \in RunRow
    BY ResultTypes DEF RunRow
  <1>2. run' = [run EXCEPT ![r] = row]
    BY DEF TypeInv, TypeOK
  <1>3. Moved(r, row)
    BY DEF Moved
  <1>4. QED
    BY <1>1, <1>2, <1>3 DEF Writes, RowStep

\* An update of a request that goes by the table of transitions.
LEMMA RequestSteps ==
  ASSUME TypeInv, NEW r \in Run, NEW to \in {"readiness_failed", "ready"}, SetStatus(r, to),
         UNCHANGED <<edits, edit>>
  PROVE  Writes
  <1>1. Exists(r) /\ run[r].status \in Status /\ to \in Status
    BY ResultTypes DEF SetStatus, Free, Status
  <1>2. <<run[r].status, to>> \in ReviewSteps
    BY <1>1 DEF SetStatus, Permitted, Transition, ReviewSteps, Status, Final
  <1>3. QED
    BY <1>1, <1>2, StatusSteps DEF SetStatus

LEMMA CallSteps ==
  ASSUME TypeInv, NEW c \in Call, CallNext(c)
  PROVE  (UNCHANGED run \/ Writes) /\ UNCHANGED <<edits, edit>>
  <1>1. UNCHANGED <<edits, edit>>
    BY DEF CallNext, Load, Create, Evaluate, ReadSources, CapUnresolved, NotReady, MarkReady,
           AlreadyPersisted, Persist, PersistFrom, Dies, data
  <1>2. CASE Create(c)
    <2>1. PICK t \in Type, r \in Run :
            /\ ~Exists(r)
            /\ run' = [run EXCEPT ![r] = [type |-> t, status |-> "draft", result |-> NoResult,
                                          stale |-> FALSE, born |-> Marked]]
      BY <1>2 DEF Create
    <2> DEFINE row == [type |-> t, status |-> "draft", result |-> NoResult,
                       stale |-> FALSE, born |-> Marked]
    <2>2. row \in RunRow
      BY RunAssumption DEF RunRow, Status, TypeInv, TypeOK, EditOpen, Marked
    <2>3. Created(r, row)
      BY <2>1 DEF Created
    <2>4. QED
      BY <1>1, <2>1, <2>2, <2>3 DEF Writes, RowStep
  <1>3. CASE NotReady(c) \/ MarkReady(c)
    <2>1. call[c].run \in Run
      BY <1>3 DEF NotReady, MarkReady, TypeInv, TypeOK, Idle, IsCall
    <2>2. QED
      BY <1>1, <1>3, <2>1, RequestSteps DEF NotReady, MarkReady
  <1>4. CASE Persist(c)
    <2> DEFINE r   == call[c].run
               row == [run[r] EXCEPT !.result = Calculated(call[c]), !.status = Outcome(call[c])]
    <2>1. /\ r \in Run /\ Exists(r) /\ Calculated(call[c]) \in Result
          /\ run[r].status \in {"ready", "calculating", "calculated"}
          /\ run' = [run EXCEPT ![r] = row]
      BY <1>4, PersistTypes
    <2>2. call[c].pc = "persist"
      BY <1>4 DEF Persist, PersistFrom
    <2>3. row \in RunRow
      BY <2>1, ResultTypes DEF RunRow, Outcome, Status
    <2>4. Persisted(r, row)
      BY <2>1, <2>2 DEF Persisted
    <2>5. QED
      BY <1>1, <2>1, <2>3, <2>4 DEF Writes, RowStep
  <1>5. CASE Load(c) \/ Evaluate(c) \/ ReadSources(c) \/ CapUnresolved(c) \/ AlreadyPersisted(c) \/ Dies(c)
    BY <1>1, <1>5 DEF Load, Evaluate, ReadSources, CapUnresolved, AlreadyPersisted, Dies
  <1>6. QED
    BY <1>1, <1>2, <1>3, <1>4, <1>5 DEF CallNext

LEMMA ReviewingSteps ==
  ASSUME TypeInv, NEW r \in Run, ReviewNext(r)
  PROVE  Writes /\ UNCHANGED call
  <1>1. Exists(r) /\ run[r].status \in Status /\ run[r] \in RunRow /\ run[r].result \in Result \cup {NoResult}
    BY ResultTypes DEF ReviewNext
  <1>2. UNCHANGED <<edits, edit, call>>
    BY DEF ReviewNext, Submit, ReturnToDraft, Reject, Approve, Post, Resolve, Reviews, data
  <1>3. CASE Submit(r)
    BY <1>1, <1>2, <1>3, StatusSteps DEF Submit, Reviews, Status
  <1>4. CASE ReturnToDraft(r)
    BY <1>1, <1>2, <1>4, StatusSteps DEF ReturnToDraft, Reviews, Status, ReviewSteps
  <1>5. CASE Reject(r)
    BY <1>1, <1>2, <1>5, StatusSteps DEF Reject, Reviews, Status, ReviewSteps
  <1>6. CASE Approve(r)
    BY <1>1, <1>2, <1>6, StatusSteps DEF Approve, Reviews, Status, ReviewSteps
  <1>7. CASE Post(r)
    BY <1>1, <1>2, <1>7, StatusSteps DEF Post, Reviews, Status, ReviewSteps
  <1>8. CASE Resolve(r)
    <2> DEFINE row == [run[r] EXCEPT !.result.open = FALSE]
    <2>1. run[r].result \in Result
      BY <1>1, <1>8 DEF Resolve
    <2>2. row \in RunRow
      BY <1>1, <2>1 DEF RunRow, Result
    <2>3. run' = [run EXCEPT ![r] = row]
      BY <1>8 DEF Resolve, TypeInv, TypeOK
    <2>4. Resolved(r, row)
      BY <1>1, <1>8, <2>1 DEF Resolve, Resolved
    <2>5. QED
      BY <1>2, <2>2, <2>3, <2>4 DEF Writes, RowStep
  <1>9. QED
    BY <1>2, <1>3, <1>4, <1>5, <1>6, <1>7, <1>8 DEF ReviewNext

\* Every step writes one row in one of these ways, or none, or is the commit of
\* an edit.  Requests go on in steps of their own.
LEMMA Steps ==
  ASSUME TypeInv, [Next]_vars
  PROVE  \/ (UNCHANGED run \/ Writes) /\ UNCHANGED <<edits, edit>>
         \/ EditMarks
         \/ EditCommits
  <1>1. ASSUME NEW old \in Run, NEW new \in Run, CheckSwap(old, new) \/ Supersede(old, new)
        PROVE  (UNCHANGED run \/ Writes) /\ UNCHANGED <<edits, edit>>
    <2>1. UNCHANGED <<edits, edit>>
      BY <1>1 DEF CheckSwap, Supersede, data
    <2>2. CASE UNCHANGED run
      BY <2>1, <2>2
    <2>3. CASE SetStatus(old, "superseded")
      <3>1. Exists(old) /\ run[old].status \in Status /\ "superseded" \in Status
        BY <2>3, ResultTypes DEF SetStatus, Free, Status
      <3>2. <<run[old].status, "superseded">> \in ReviewSteps
        BY <2>3, <3>1 DEF SetStatus, Permitted, Transition, ReviewSteps, Status, Final
      <3>3. QED
        BY <2>1, <2>3, <3>1, <3>2, StatusSteps DEF SetStatus
    <2>4. QED
      BY <1>1, <2>2, <2>3 DEF CheckSwap, Supersede
  <1>2. CASE UNCHANGED vars
    BY <1>2 DEF vars
  <1>3. QED
    BY <1>1, <1>2, CallSteps, ReviewingSteps DEF Next, Writes

-----------------------------------------------------------------------------
(* The ledger *)

LEMMA InitClean == Init => CleanResults
  BY DEF Init, CleanResults, Exists

LEMMA ResultFacts == NoResult \notin Result
  BY DEF NoResult, Result

LEMMA NextClean == TypeInv /\ CleanResults /\ [Next]_vars => CleanResults'
  <1> SUFFICES ASSUME TypeInv, CleanResults, [Next]_vars,
                      NEW q \in Run, Exists(q)', (run[q].status \in Closed)'
               PROVE  (run[q].result # NoResult /\ ~run[q].result.open)'
    BY DEF CleanResults
  <1>1. CASE UNCHANGED run
    BY <1>1 DEF CleanResults, Exists
  <1>2. CASE EditCommits
    <2>1. run'[q] = run[q] \/ (q \in edit /\ run'[q] = [run[q] EXCEPT !.stale = TRUE])
      BY <1>2 DEF EditCommits
    <2>2. Exists(q)
      BY <2>1 DEF TypeInv, EditOpen, Exists
    <2>3. run[q] \in RunRow
      BY <2>2, ResultTypes
    <2>4. run'[q].status = run[q].status /\ run'[q].result = run[q].result
      BY <2>1, <2>3 DEF RunRow
    <2>5. QED
      BY <2>2, <2>4 DEF CleanResults
  <1>3. CASE Writes
    <2>1. PICK r \in Run, row \in RunRow : RowStep(r, row) /\ run' = [run EXCEPT ![r] = row]
      BY <1>3 DEF Writes
    <2>2. CASE q # r
      BY <2>1, <2>2 DEF CleanResults, Exists, TypeInv, TypeOK
    <2>3. CASE q = r
      <3>1. run'[q] = row /\ row.status \in Closed
        BY <2>1, <2>3 DEF TypeInv, TypeOK
      <3>2. CASE Created(r, row)
        BY <3>1, <3>2 DEF Created, Closed
      <3>3. CASE Moved(r, row)
        <4>1. run[r].status \in Closed /\ row.result = run[r].result
          BY <2>3, <3>1, <3>3, ResultTypes DEF Moved, ReviewSteps, Closed, RunRow
        <4>2. QED
          BY <2>3, <3>1, <3>3, <4>1 DEF Moved, CleanResults
      <3>4. CASE Persisted(r, row)
        <4>1. PICK c \in Call :
                /\ Calculated(call[c]) \in Result
                /\ row = [run[r] EXCEPT !.result = Calculated(call[c]), !.status = Outcome(call[c])]
          BY <3>4 DEF Persisted
        <4>2. row.result = Calculated(call[c]) /\ row.status = Outcome(call[c])
          BY <3>4, <4>1, ResultTypes DEF Persisted, RunRow
        <4>3. ~Calculated(call[c]).open
          BY <3>1, <4>2 DEF Outcome, Closed
        <4>4. QED
          BY <3>1, <4>1, <4>2, <4>3, ResultFacts
      <3>5. CASE Resolved(r, row)
        <4>1. row.result = [run[r].result EXCEPT !.open = FALSE]
          BY <3>5, ResultTypes DEF Resolved, RunRow
        <4>2. row.result \in Result /\ ~row.result.open
          BY <3>5, <4>1 DEF Resolved, Result
        <4>3. QED
          BY <3>1, <4>2, ResultFacts
      <3>6. QED
        BY <2>1, <3>2, <3>3, <3>4, <3>5 DEF RowStep
    <2>4. QED
      BY <2>2, <2>3
  <1>4. QED
    BY <1>1, <1>2, <1>3, Steps DEF EditMarks, MarkRuns

\* A reviewed result is one that nothing blocks.
LEMMA CleanHolds == Spec => []CleanResults
  BY InitClean, NextClean, TypeInvHolds, PTL DEF Spec


Phases   == [q \in Run |-> LedgerPhase(run[q])]
Resulted == [q \in Run |-> LedgerResult(run[q])]

\* Where one row changes, so do its phase and its result in the ledger.
LEMMA LedgerRow ==
  ASSUME TypeInv, NEW r \in Run, NEW row \in RunRow, run' = [run EXCEPT ![r] = row]
  PROVE  /\ Phases' = [Phases EXCEPT ![r] = LedgerPhase(row)]
         /\ Resulted' = [Resulted EXCEPT ![r] = row.result]
         /\ Phases[r] = LedgerPhase(run[r]) /\ Resulted[r] = LedgerResult(run[r])
  <1>1. row # NoRun
    BY DEF RunRow, NoRun, Status
  <1>2. LedgerResult(row) = row.result
    BY <1>1 DEF LedgerResult
  <1>3. \A q \in Run : run'[q] = IF q = r THEN row ELSE run[q]
    BY DEF TypeInv, TypeOK
  <1>4. Phases = [q \in Run |-> LedgerPhase(run[q])] /\ Resulted = [q \in Run |-> LedgerResult(run[q])]
    BY DEF Phases, Resulted
  <1>5. Phases' = [q \in Run |-> LedgerPhase(run'[q])]
    BY DEF Phases, LedgerPhase
  <1>6. Resulted' = [q \in Run |-> LedgerResult(run'[q])]
    BY DEF Resulted, LedgerResult
  <1>7. Phases' = [Phases EXCEPT ![r] = LedgerPhase(row)]
    BY <1>3, <1>4, <1>5
  <1>8. Resulted' = [Resulted EXCEPT ![r] = row.result]
    BY <1>2, <1>3, <1>4, <1>6
  <1>9. QED
    BY <1>4, <1>7, <1>8

\* A step that keeps the row's result, and moves its phase or not.
LEMMA LedgerMoves ==
  ASSUME TypeInv, NEW r \in Run, NEW row \in RunRow, run' = [run EXCEPT ![r] = row],
         row.result = LedgerResult(run[r])
  PROVE  /\ Resulted' = Resulted
         /\ LedgerPhase(row) = LedgerPhase(run[r]) => Phases' = Phases
         /\ \A from : LedgerPhase(run[r]) \in from => Ledger!Moves(r, from, LedgerPhase(row))
  <1>1. /\ Phases' = [Phases EXCEPT ![r] = LedgerPhase(row)]
        /\ Resulted' = [Resulted EXCEPT ![r] = row.result]
        /\ Phases[r] = LedgerPhase(run[r]) /\ Resulted[r] = LedgerResult(run[r])
    BY LedgerRow
  <1>2. Resulted = [q \in Run |-> Resulted[q]] /\ Phases = [q \in Run |-> Phases[q]]
    BY DEF Phases, Resulted
  <1>3. Resulted' = Resulted /\ (LedgerPhase(row) = LedgerPhase(run[r]) => Phases' = Phases)
    BY <1>1, <1>2
  <1>4. ASSUME NEW from, LedgerPhase(run[r]) \in from PROVE Ledger!Moves(r, from, LedgerPhase(row))
    BY <1>1, <1>4 DEF Ledger!Moves, Phases
  <1>5. QED
    BY <1>3, <1>4

\* A step that keeps the phase open, and replaces the result.
LEMMA LedgerCalculates ==
  ASSUME TypeInv, NEW r \in Run, NEW row \in RunRow, run' = [run EXCEPT ![r] = row],
         LedgerPhase(run[r]) = "open", LedgerPhase(row) = "open", row.result \in Result
  PROVE  Ledger!Calculate(r)
  <1>1. /\ Phases' = [Phases EXCEPT ![r] = LedgerPhase(row)]
        /\ Resulted' = [Resulted EXCEPT ![r] = row.result]
        /\ Phases[r] = LedgerPhase(run[r])
    BY LedgerRow
  <1>2. Phases = [q \in Run |-> Phases[q]]
    BY DEF Phases
  <1>3. Phases' = Phases
    BY <1>1, <1>2
  <1>4. QED
    BY <1>1, <1>3 DEF Ledger!Calculate, Phases, Resulted

LEMMA LedgerWrites ==
  ASSUME TypeInv, CleanResults, Writes
  PROVE  [Ledger!Next]_(Ledger!ledger)
  <1>1. PICK r \in Run, row \in RunRow : RowStep(r, row) /\ run' = [run EXCEPT ![r] = row]
    BY DEF Writes
  <1>2. Exists(r) => /\ run[r] \in RunRow /\ run[r].status \in Status
                     /\ LedgerResult(run[r]) = run[r].result
    BY ResultTypes DEF Exists, LedgerResult
  <1>3. \A x \in RunRow : LedgerPhase(x) = IF x.status \in {"draft", "readiness_failed", "ready",
                                                            "calculating", "calculated"}
                                           THEN "open" ELSE x.status
    BY DEF LedgerPhase, RunRow, NoRun, Status
  <1>4. CASE Created(r, row)
    <2>1. LedgerPhase(run[r]) = "absent" /\ LedgerPhase(row) = "open"
      BY <1>3, <1>4 DEF Created, Exists, LedgerPhase
    <2>2. row.result = LedgerResult(run[r])
      BY <1>4 DEF Created, Exists, LedgerResult
    <2>3. Ledger!Open(r)
      BY <1>1, <2>1, <2>2, LedgerMoves DEF Ledger!Open, Resulted
    <2>4. QED
      BY <2>3 DEF Ledger!Next
  <1>5. CASE Moved(r, row)
    <2>1. PICK to \in Status :
            /\ row = [run[r] EXCEPT !.status = to]
            /\ \/ <<run[r].status, to>> \in ReviewSteps
               \/ run[r].status = "calculated" /\ to = "submitted" /\ run[r].result.mode = "posting_eligible"
      BY <1>5 DEF Moved
    <2>2. Exists(r)
      BY <1>5 DEF Moved
    <2>3. row.status = to /\ row.result = run[r].result
      BY <1>2, <2>1, <2>2 DEF RunRow
    <2>4. /\ Resulted' = Resulted
          /\ LedgerPhase(row) = LedgerPhase(run[r]) => Phases' = Phases
          /\ \A from : LedgerPhase(run[r]) \in from => Ledger!Moves(r, from, LedgerPhase(row))
      BY <1>1, <1>2, <2>2, <2>3, LedgerMoves
    <2>5. CASE <<run[r].status, to>> \in {"draft", "readiness_failed", "ready", "calculating"} \X {"readiness_failed", "ready"}
      <3>1. LedgerPhase(row) = LedgerPhase(run[r])
        BY <1>2, <1>3, <2>2, <2>3, <2>5
      <3>2. QED
        BY <2>4, <3>1 DEF Ledger!ledger, Phases, Resulted
    <2>6. CASE run[r].status = "calculated" /\ to = "submitted" /\ run[r].result.mode = "posting_eligible"
      <3>1. LedgerPhase(row) = "submitted" /\ LedgerPhase(run[r]) = "open"
        BY <1>2, <1>3, <2>2, <2>3, <2>6
      <3>2. Submittable(run[r].result)
        BY <2>2, <2>6 DEF Submittable, CleanResults, Closed
      <3>3. Resulted[r] = run[r].result
        BY <1>2, <2>2 DEF Resulted
      <3>4. Ledger!Submit(r)
        BY <2>4, <3>1, <3>2, <3>3 DEF Ledger!Submit, Resulted
      <3>5. QED
        BY <3>4 DEF Ledger!Next
    <2>7. CASE <<run[r].status, to>> \in {"under_review", "submitted"} \X {"calculated"}
      <3>1. LedgerPhase(row) = "open" /\ LedgerPhase(run[r]) \in {"under_review", "submitted"}
        BY <1>2, <1>3, <2>2, <2>3, <2>7
      <3>2. Ledger!Return(r)
        BY <2>4, <3>1 DEF Ledger!Return, Resulted
      <3>3. QED
        BY <3>2 DEF Ledger!Next
    <2>8. CASE <<run[r].status, to>> \in {<<"submitted", "under_review">>, <<"submitted", "approved">>,
                                          <<"approved", "posted">>, <<"posted", "superseded">>}
      <3>1. LedgerPhase(row) = to /\ LedgerPhase(run[r]) = run[r].status
        BY <1>2, <1>3, <2>2, <2>3, <2>8
      <3>2. Ledger!Reject(r) \/ Ledger!Approve(r) \/ Ledger!Post(r) \/ Ledger!Supersede(r)
        BY <2>4, <2>8, <3>1 DEF Ledger!Reject, Ledger!Approve, Ledger!Post, Ledger!Supersede, Resulted
      <3>3. QED
        BY <3>2 DEF Ledger!Next
    <2>9. QED
      BY <2>1, <2>5, <2>6, <2>7, <2>8 DEF ReviewSteps
  <1>6. CASE Persisted(r, row)
    <2>1. PICK c \in Call :
            /\ Calculated(call[c]) \in Result
            /\ row = [run[r] EXCEPT !.result = Calculated(call[c]), !.status = Outcome(call[c])]
      BY <1>6 DEF Persisted
    <2>2. row.result \in Result /\ row.status \in {"readiness_failed", "calculated"}
      BY <1>2, <1>6, <2>1 DEF Persisted, RunRow, Outcome
    <2>3. LedgerPhase(run[r]) = "open" /\ LedgerPhase(row) = "open"
      BY <1>2, <1>3, <1>6, <2>2 DEF Persisted
    <2>4. Ledger!Calculate(r)
      BY <1>1, <2>2, <2>3, LedgerCalculates
    <2>5. QED
      BY <2>4 DEF Ledger!Next
  <1>7. CASE Resolved(r, row)
    <2>1. run[r].status \notin Closed /\ run[r].status \notin Final
      BY <1>7 DEF Resolved, CleanResults
    <2>2. row.status = run[r].status /\ row.result = [run[r].result EXCEPT !.open = FALSE]
      BY <1>2, <1>7 DEF Resolved, RunRow
    <2>3. row.result \in Result
      BY <1>7, <2>2 DEF Resolved, Result
    <2>4. LedgerPhase(run[r]) = "open" /\ LedgerPhase(row) = "open"
      BY <1>2, <1>3, <1>7, <2>1, <2>2 DEF Resolved, Closed, Final, Status
    <2>5. Ledger!Calculate(r)
      BY <1>1, <2>3, <2>4, LedgerCalculates
    <2>6. QED
      BY <2>5 DEF Ledger!Next
  <1>8. QED
    BY <1>1, <1>4, <1>5, <1>6, <1>7 DEF RowStep

LEMMA LedgerSteps == TypeInv /\ CleanResults /\ [Next]_vars => [Ledger!Next]_(Ledger!ledger)
  <1> SUFFICES ASSUME TypeInv, CleanResults, [Next]_vars PROVE [Ledger!Next]_(Ledger!ledger)
    OBVIOUS
  <1>1. CASE UNCHANGED run
    BY <1>1 DEF Ledger!ledger, LedgerPhase, LedgerResult
  <1>2. CASE EditCommits
    <2>1. \A q \in Run : \/ run'[q] = run[q]
                         \/ q \in edit /\ run'[q] = [run[q] EXCEPT !.stale = TRUE]
      BY <1>2 DEF EditCommits
    <2>2. \A q \in edit \cap Run : run[q] \in RunRow /\ [run[q] EXCEPT !.stale = TRUE] \in RunRow
      BY ResultTypes DEF TypeInv, EditOpen, RunRow
    <2>3. \A x \in RunRow : LedgerPhase(x) = LedgerPhase([x EXCEPT !.stale = TRUE])
                         /\ LedgerResult(x) = LedgerResult([x EXCEPT !.stale = TRUE])
      BY DEF LedgerPhase, LedgerResult, RunRow, NoRun, Status
    <2>4. \A q \in Run : LedgerPhase(run'[q]) = LedgerPhase(run[q]) /\ LedgerResult(run'[q]) = LedgerResult(run[q])
      BY <2>1, <2>2, <2>3
    <2>5. QED
      BY <2>4 DEF Ledger!ledger, LedgerPhase, LedgerResult
  <1>3. CASE EditMarks
    BY <1>1, <1>3 DEF EditMarks, MarkRuns
  <1>4. QED
    BY <1>1, <1>2, <1>3, Steps, LedgerWrites

\* The runs keep the ledger: late calculations, answers that a setup is not
\* ready, and status updates that were checked before never change what is under
\* review, and no run skips a step of its review.
THEOREM LedgerKept == Spec => KeepsLedger
  <1>1. Init => Ledger!Init
    BY DEF Init, Ledger!Init, LedgerPhase, LedgerResult
  <1>2. QED
    BY <1>1, LedgerSteps, TypeInvHolds, CleanHolds, PTL DEF Spec, KeepsLedger, Ledger!Spec

-----------------------------------------------------------------------------
(* The stale flag *)

LEMMA InitStale == Init => StaleInv
  BY DEF Init, StaleInv, MarkingCovers, CallsTold, ResultsTold, Exists, Idle, NoEdit

\* A row that is written stays settled, stale and as old as it was.
LEMMA RowStays ==
  ASSUME TypeInv, [Next]_vars, ~EditCommits, NEW r \in Run, Exists(r)
  PROVE  /\ Exists(r)'
         /\ Settled(r) => Settled(r)'
         /\ run'[r].stale = run[r].stale /\ run'[r].born = run[r].born
         /\ edits' = edits
  <1>1. CASE UNCHANGED <<run, edits>>
    BY <1>1 DEF Exists, Settled
  <1>2. CASE Writes
    <2>1. PICK q \in Run, row \in RunRow : RowStep(q, row) /\ run' = [run EXCEPT ![q] = row]
      BY <1>2 DEF Writes
    <2>2. edits' = edits
      BY <1>2 DEF Writes
    <2>3. CASE q # r
      BY <2>1, <2>2, <2>3 DEF TypeInv, TypeOK, Exists, Settled
    <2>4. CASE q = r
      <3>1. run'[r] = row /\ Exists(r)'
        BY <2>1, <2>4, RowTypes DEF TypeInv, TypeOK
      <3>2. run[r] \in RunRow
        BY ResultTypes
      <3>3. row.stale = run[r].stale /\ row.born = run[r].born
        BY <2>1, <2>4, <3>2 DEF RowStep, Created, Moved, Persisted, Resolved, RunRow
      <3>4. Settled(r) => row.status \in Final \cup {"approved"}
        <4>1. CASE Moved(r, row)
          BY <3>2, <4>1 DEF Moved, ReviewSteps, Settled, Final, RunRow
        <4>2. CASE Resolved(r, row)
          BY <3>2, <4>2 DEF Resolved, Settled, RunRow
        <4>3. CASE Persisted(r, row)
          BY <4>3 DEF Persisted, Settled, Final
        <4>4. QED
          BY <2>1, <2>4, <4>1, <4>2, <4>3 DEF RowStep, Created
      <3>5. QED
        BY <2>2, <3>1, <3>3, <3>4 DEF Settled
    <2>5. QED
      BY <2>3, <2>4
  <1>3. QED
    BY <1>1, <1>2, Steps DEF EditMarks, MarkRuns

\* What is told of a source stays told.
LEMMA ToldStays ==
  ASSUME TypeInv, MarkingCovers, [Next]_vars, NEW r \in Run, Exists(r), NEW source, Told(r, source)
  PROVE  Told(r, source)'
  <1>1. CASE ~EditCommits
    BY <1>1, RowStays DEF Told
  <1>2. CASE EditCommits
    <2>1. run[r] \in RunRow
      BY ResultTypes
    <2>2. CASE r \in edit
      BY <1>2, <2>1, <2>2 DEF EditCommits, RunRow, Told
    <2>3. CASE r \notin edit
      <3>1. run'[r] = run[r]
        BY <1>2, <2>3 DEF EditCommits
      <3>2. Settled(r) \/ edits < run[r].born
        BY <1>2, <2>3 DEF EditCommits, MarkingCovers
      <3>3. Settled(r) \/ edits' <= run[r].born
        BY <1>2, <2>1, <3>2, RunAssumption DEF EditCommits, TypeInv, TypeOK, RunRow
      <3>4. QED
        BY <3>1, <3>3 DEF Told, Settled
    <2>4. QED
      BY <2>2, <2>3
  <1>3. QED
    BY <1>1, <1>2

LEMMA MarkingStays == TypeInv /\ MarkingCovers /\ [Next]_vars => MarkingCovers'
  <1> SUFFICES ASSUME TypeInv, MarkingCovers, [Next]_vars, edit' # NoEdit,
                      NEW q \in Run, Exists(q)', ~Settled(q)', q \notin edit'
               PROVE  edits' < run'[q].born
    BY DEF MarkingCovers, NoEdit
  <1>1. ~EditCommits
    BY DEF EditCommits
  <1>2. CASE EditMarks
    BY <1>2 DEF EditMarks, MarkRuns, Settled, Exists, TypeInv, TypeOK, RunRow
  <1>3. CASE (UNCHANGED run \/ Writes) /\ UNCHANGED <<edits, edit>>
    <2>1. CASE Exists(q)
      BY <1>1, <1>3, <2>1, RowStays DEF MarkingCovers
    <2>2. CASE ~Exists(q)
      <3>1. PICK r \in Run, row \in RunRow : RowStep(r, row) /\ run' = [run EXCEPT ![r] = row]
        BY <1>3, <2>2 DEF Writes, Exists
      <3>2. r = q
        BY <2>2, <3>1 DEF Exists, TypeInv, TypeOK
      <3>3. Created(q, row) /\ run'[q] = row
        BY <2>2, <3>1, <3>2 DEF RowStep, Moved, Persisted, Resolved, TypeInv, TypeOK
      <3>4. run'[q].born = edits + 1
        BY <1>3, <3>3 DEF Created, Marked
      <3>5. QED
        BY <1>3, <3>4, RunAssumption DEF TypeInv, TypeOK
    <2>3. QED
      BY <2>1, <2>2
  <1>4. QED
    BY <1>1, <1>2, <1>3, Steps

\* A request that holds a source got it at this step, or held it before.
LEMMA Holding ==
  ASSUME TypeInv, [Next]_vars, NEW c \in Call, call'[c].pc \in {"mark", "persist"}
  PROVE  \/ /\ call[c].pc \in {"mark", "persist"}
            /\ call'[c].run = call[c].run /\ call'[c].seen = call[c].seen
         \/ ReadSources(c) /\ call'[c].run = call[c].run /\ call'[c].seen.edits = edits
  <1>1. CASE UNCHANGED call
    BY <1>1
  <1>2. ASSUME NEW d \in Call, CallNext(d), d # c PROVE UNCHANGED call[c]
    <2>1. ASSUME NEW m, Goto(d, m) PROVE UNCHANGED call[c]
      BY <1>2, <2>1 DEF Goto, TypeInv, TypeOK
    <2>2. CASE Load(d)
      BY <2>1, <2>2 DEF Load
    <2>3. CASE Create(d)
      BY <2>1, <2>3 DEF Create
    <2>4. CASE ReadSources(d)
      BY <2>1, <2>4 DEF ReadSources
    <2>5. QED
      BY <1>2, <2>1, <2>2, <2>3, <2>4 DEF CallNext, Evaluate, CapUnresolved, NotReady, MarkReady,
         AlreadyPersisted, Persist, PersistFrom, Dies, Ends
  <1>3. CASE ReadSources(c)
    <2>1. PICK seen \in Source :
            /\ seen.edits = edits
            /\ Goto(c, [pc |-> "mark", run |-> call[c].run, waits |-> call[c].waits,
                        mode |-> call[c].mode, seen |-> seen])
      BY <1>3 DEF ReadSources
    <2>2. call'[c] = [pc |-> "mark", run |-> call[c].run, waits |-> call[c].waits,
                      mode |-> call[c].mode, seen |-> seen]
      BY <2>1 DEF Goto, TypeInv, TypeOK
    <2>3. QED
      BY <1>3, <2>1, <2>2
  <1>4. CASE MarkReady(c)
    <2>1. call[c] \in [pc : {"mark", "persist"}, run : Run, waits : BOOLEAN, mode : Mode, seen : Source]
      BY <1>4 DEF MarkReady, TypeInv, TypeOK, Idle, IsCall
    <2>2. call'[c] = [call[c] EXCEPT !.pc = "persist"]
      BY <1>4 DEF MarkReady, Goto, TypeInv, TypeOK
    <2>3. QED
      BY <1>4, <2>1, <2>2 DEF MarkReady
  <1>5. CASE Load(c) \/ Create(c)
    BY <1>5 DEF Load, Create, Goto, TypeInv, TypeOK
  <1>6. CASE Evaluate(c) \/ CapUnresolved(c)
    <2>1. call[c] \in [pc : {"evaluate", "read", "unready"}, run : Run, waits : BOOLEAN, mode : Mode]
      BY <1>6 DEF Evaluate, CapUnresolved, TypeInv, TypeOK, Idle, IsCall
    <2>2. call'[c].pc \in {"read", "unready"}
      BY <1>6, <2>1 DEF Evaluate, CapUnresolved, Goto, TypeInv, TypeOK
    <2>3. QED
      BY <2>2
  <1>7. CASE NotReady(c) \/ AlreadyPersisted(c) \/ Persist(c) \/ Dies(c)
    BY <1>7 DEF NotReady, AlreadyPersisted, Persist, PersistFrom, Dies, Ends, Goto, Idle, TypeInv, TypeOK
  <1>8. CASE \E r \in Run : ReviewNext(r)
    BY <1>1, <1>8, ReviewingSteps
  <1>9. CASE EditMarks \/ EditCommits \/ \E old, new \in Run : CheckSwap(old, new) \/ Supersede(old, new)
    BY <1>1, <1>9 DEF EditMarks, MarkRuns, EditCommits, CheckSwap, Supersede
  <1>10. QED
    BY <1>1, <1>2, <1>3, <1>4, <1>5, <1>6, <1>7, <1>8, <1>9 DEF Next, CallNext, vars

LEMMA CallsStay == TypeInv /\ StaleInv /\ [Next]_vars => CallsTold'
  <1> SUFFICES ASSUME TypeInv, StaleInv, [Next]_vars,
                      NEW c \in Call, call'[c].pc \in {"mark", "persist"}
               PROVE  Told(call[c].run, call[c].seen)'
    BY DEF CallsTold
  <1>1. CASE /\ call[c].pc \in {"mark", "persist"}
             /\ call'[c].run = call[c].run /\ call'[c].seen = call[c].seen
    <2>1. call[c].run \in Run /\ Exists(call[c].run)
      BY <1>1 DEF TypeInv, TypeOK, CallRuns, Idle, IsCall
    <2>2. Told(call[c].run, call[c].seen)
      BY <1>1 DEF StaleInv, CallsTold
    <2>3. QED
      BY <1>1, <2>1, <2>2, ToldStays DEF StaleInv, Told, Settled
  <1>2. CASE ReadSources(c) /\ call'[c].run = call[c].run /\ call'[c].seen.edits = edits
    BY <1>2 DEF ReadSources, data, Told
  <1>3. QED
    BY <1>1, <1>2, Holding

LEMMA ResultsStay == TypeInv /\ StaleInv /\ [Next]_vars => ResultsTold'
  <1> SUFFICES ASSUME TypeInv, StaleInv, [Next]_vars, NEW q \in Run, Exists(q)',
                      run'[q].result # NoResult
               PROVE  Told(q, run[q].result.source)'
    BY DEF ResultsTold
  <1>1. CASE Exists(q) /\ run[q].result # NoResult /\ run'[q].result.source = run[q].result.source
    <2>1. Told(q, run[q].result.source)
      BY <1>1 DEF StaleInv, ResultsTold
    <2>2. QED
      BY <1>1, <2>1, ToldStays DEF StaleInv, Told
  <1>2. CASE UNCHANGED run
    BY <1>1, <1>2 DEF Exists
  <1>3. CASE EditCommits
    <2>1. run'[q] = run[q] \/ (q \in edit /\ run'[q] = [run[q] EXCEPT !.stale = TRUE])
      BY <1>3 DEF EditCommits
    <2>2. Exists(q)
      BY <2>1 DEF TypeInv, EditOpen, Exists
    <2>3. run'[q].result = run[q].result
      BY <2>1, <2>2, ResultTypes DEF RunRow
    <2>4. QED
      BY <1>1, <2>2, <2>3
  <1>4. CASE Writes
    <2>1. PICK r \in Run, row \in RunRow : RowStep(r, row) /\ run' = [run EXCEPT ![r] = row]
      BY <1>4 DEF Writes
    <2>2. CASE q # r
      BY <1>1, <2>1, <2>2 DEF TypeInv, TypeOK, Exists
    <2>3. CASE q = r
      <3>1. run'[q] = row
        BY <2>1, <2>3 DEF TypeInv, TypeOK
      <3>2. CASE Created(r, row)
        BY <3>1, <3>2 DEF Created
      <3>3. CASE Moved(r, row)
        <4>1. Exists(q) /\ run'[q].result = run[q].result
          BY <2>3, <3>1, <3>3, ResultTypes DEF Moved, RunRow
        <4>2. QED
          BY <1>1, <4>1
      <3>4. CASE Persisted(r, row)
        <4>1. PICK c \in Call :
                /\ call[c].pc = "persist" /\ call[c].run = r
                /\ row = [run[r] EXCEPT !.result = Calculated(call[c]), !.status = Outcome(call[c])]
          BY <3>4 DEF Persisted
        <4>2. Exists(q) /\ row.result.source = call[c].seen
          BY <2>3, <3>4, <4>1, ResultTypes DEF Persisted, RunRow, Calculated
        <4>3. Told(q, call[c].seen)
          BY <2>3, <4>1 DEF StaleInv, CallsTold
        <4>4. QED
          BY <3>1, <4>2, <4>3, ToldStays DEF StaleInv, Told
      <3>5. CASE Resolved(r, row)
        <4>1. Exists(q) /\ row.result = [run[q].result EXCEPT !.open = FALSE] /\ run[q].result \in Result
          BY <2>3, <3>5, ResultTypes DEF Resolved, RunRow
        <4>2. row.result.source = run[q].result.source /\ run[q].result # NoResult
          BY <4>1, ResultFacts DEF Result
        <4>3. QED
          BY <1>1, <3>1, <4>1, <4>2
      <3>6. QED
        BY <2>1, <3>2, <3>3, <3>4, <3>5 DEF RowStep
    <2>4. QED
      BY <2>2, <2>3
  <1>5. QED
    BY <1>2, <1>3, <1>4, Steps DEF EditMarks, MarkRuns

LEMMA StaleInvHolds == Spec => []StaleInv
  <1>1. TypeInv /\ StaleInv /\ [Next]_vars => StaleInv'
    BY MarkingStays, CallsStay, ResultsStay DEF StaleInv
  <1>2. QED
    BY <1>1, InitStale, TypeInvHolds, PTL DEF Spec

\* The flag of a run that nobody has approved tells of every edit its results
\* lack, though requests calculate from what they read before the edit, and an
\* edit marks the runs before it commits.
THEOREM StaleShows == Spec => []StaleShowsEdits
  <1>1. StaleInv => StaleShowsEdits
    BY DEF StaleInv, ResultsTold, Told, StaleShowsEdits, Settled
  <1>2. QED
    BY <1>1, StaleInvHolds, PTL

-----------------------------------------------------------------------------
(* Induction *)

\* A set of naturals has a least element.
LEMMA LeastNat ==
  ASSUME NEW S, S \subseteq Nat, S # {}
  PROVE  \E k \in S : \A l \in S : k <= l
  <1> DEFINE Less == {p \in Nat \X Nat : p[1] < p[2]}
  <1>1. IsWellFoundedOn(Less, Nat)
    BY NatLessThanWellFounded DEF OpToRel
  <1>2. \E k \in S : \A l \in S : <<l, k>> \notin Less
    <2> HIDE DEF Less
    <2>1. QED
      BY <1>1, WFMin
  <1>3. \A k, l \in S : <<l, k>> \notin Less => k <= l
    OBVIOUS
  <1>4. QED
    BY <1>2, <1>3

\* Induction over the naturals, for a predicate that is a function.
LEMMA Induct ==
  ASSUME NEW P \in [Nat -> BOOLEAN], P[0], \A n \in Nat : P[n] => P[n + 1]
  PROVE  \A n \in Nat : P[n]
  <1> DEFINE Fails == {n \in Nat : ~P[n]}
  <1>1. SUFFICES ASSUME Fails # {} PROVE FALSE
    OBVIOUS
  <1>2. PICK k \in Fails : \A l \in Fails : k <= l
    BY <1>1, LeastNat
  <1>3. k # 0 /\ k - 1 \in Nat /\ k - 1 \notin Fails
    BY <1>2
  <1>4. P[k - 1 + 1]
    BY <1>3
  <1>5. QED
    BY <1>2, <1>4

\* Without any of its elements a set has one element less.
LEMMA Remove ==
  ASSUME NEW T, IsFiniteSet(T), NEW n \in Nat, Cardinality(T) = n + 1
  PROVE  T # {} /\ \A x \in T : IsFiniteSet(T \ {x}) /\ Cardinality(T \ {x}) = n
  <1>1. T # {}
    BY FS_EmptySet
  <1>2. ASSUME NEW x \in T PROVE IsFiniteSet(T \ {x}) /\ Cardinality(T \ {x}) = n
    <2>1. Cardinality(T \ {x}) = Cardinality(T) - 1 /\ IsFiniteSet(T \ {x})
      BY FS_RemoveElement
    <2>2. QED
      BY <2>1
  <1>3. QED
    BY <1>1, <1>2

\* Induction over the subsets of a finite set.
LEMMA SetInduct ==
  ASSUME NEW S, IsFiniteSet(S), NEW P \in [SUBSET S -> BOOLEAN], P[{}],
         \A T \in SUBSET S : \A x \in S \ T : P[T] => P[T \cup {x}]
  PROVE  \A T \in SUBSET S : P[T]
  <1> DEFINE Q == [n \in Nat |-> \A T \in SUBSET S : Cardinality(T) = n => P[T]]
  <1>1. \A T \in SUBSET S : IsFiniteSet(T) /\ Cardinality(T) \in Nat
    BY FS_Subset, FS_CardinalityType
  <1>2. Q[0]
    BY <1>1, FS_EmptySet
  <1>3. ASSUME NEW n \in Nat, Q[n] PROVE Q[n + 1]
    <2>1. SUFFICES ASSUME NEW T \in SUBSET S, Cardinality(T) = n + 1 PROVE P[T]
      OBVIOUS
    <2>2. T # {} /\ \A x \in T : Cardinality(T \ {x}) = n
      BY <1>1, <2>1, Remove
    <2>3. PICK x \in T : Cardinality(T \ {x}) = n
      BY <2>2
    <2>4. P[T \ {x}]
      BY <1>3, <2>3
    <2>5. (T \ {x}) \cup {x} = T
      BY <2>3
    <2>6. QED
      BY <2>4, <2>5
  <1>4. \A n \in Nat : Q[n]
    <2>1. Q \in [Nat -> BOOLEAN] /\ \A n \in Nat : Q[n] => Q[n + 1]
      BY <1>3
    <2> HIDE DEF Q
    <2>2. QED
      BY <1>2, <2>1, Induct
  <1>5. QED
    BY <1>1, <1>4

-----------------------------------------------------------------------------
(* Sums *)

Pick(s) == CHOOSE x \in s : TRUE

\* What it is to sum up the values of f over the subsets of S.
SumsUp(f, S, iter) ==
    iter = [s \in SUBSET S |-> IF s = {} THEN 0 ELSE f[Pick(s)] + iter[s \ {Pick(s)}]]

\* A sum over the subsets of a finite set, one element after the other, exists.
LEMMA SumsUpExists ==
  ASSUME NEW f, NEW S, IsFiniteSet(S), \A x \in S : f[x] \in Int
  PROVE  \E iter \in [SUBSET S -> Int] : SumsUp(f, S, iter)
  <1> DEFINE Body(g, s) == IF s = {} THEN 0 ELSE f[Pick(s)] + g[s \ {Pick(s)}]
             Q == [n \in Nat |-> \E g \in [SUBSET S -> Int] :
                      \A s \in SUBSET S : Cardinality(s) <= n => g[s] = Body(g, s)]
  <1>1. \A s \in SUBSET S : IsFiniteSet(s) /\ Cardinality(s) \in Nat /\ Cardinality(s) <= Cardinality(S)
    BY FS_Subset, FS_CardinalityType
  <1>2. \A s \in SUBSET S : s # {} => Pick(s) \in s
    BY DEF Pick
  <1>3. Q[0]
    <2> DEFINE g == [s \in SUBSET S |-> 0]
    <2>1. \A s \in SUBSET S : Cardinality(s) <= 0 => g[s] = Body(g, s)
      BY <1>1, FS_EmptySet
    <2>2. g \in [SUBSET S -> Int]
      OBVIOUS
    <2>3. QED
      BY <2>1, <2>2
  <1>4. ASSUME NEW n \in Nat, Q[n] PROVE Q[n + 1]
    <2>1. PICK g \in [SUBSET S -> Int] : \A s \in SUBSET S : Cardinality(s) <= n => g[s] = Body(g, s)
      BY <1>4
    <2> DEFINE h == [s \in SUBSET S |-> Body(g, s)]
    <2>2. h \in [SUBSET S -> Int]
      BY <1>2
    <2>3. ASSUME NEW s \in SUBSET S, Cardinality(s) <= n + 1 PROVE h[s] = Body(h, s)
      <3>1. CASE s = {}
        BY <3>1
      <3>2. CASE s # {}
        <4>1. Pick(s) \in s /\ s \ {Pick(s)} \in SUBSET S
          BY <1>2, <3>2
        <4>2. Cardinality(s \ {Pick(s)}) = Cardinality(s) - 1
          BY <1>1, <4>1, FS_RemoveElement
        <4>3. Cardinality(s \ {Pick(s)}) <= n
          BY <1>1, <2>3, <4>2
        <4>4. g[s \ {Pick(s)}] = Body(g, s \ {Pick(s)})
          BY <2>1, <4>1, <4>3
        <4>5. g[s \ {Pick(s)}] = h[s \ {Pick(s)}]
          BY <4>1, <4>4
        <4>6. QED
          BY <3>2, <4>5
      <3>3. QED
        BY <3>1, <3>2
    <2>4. \E k \in [SUBSET S -> Int] : \A s \in SUBSET S : Cardinality(s) <= n + 1 => k[s] = Body(k, s)
      <3> HIDE DEF h, Body, Q
      <3>1. QED
        BY <2>2, <2>3
    <2>5. n + 1 \in Nat
      OBVIOUS
    <2> HIDE DEF Body
    <2>6. QED
      BY <2>4, <2>5
  <1>5. \A n \in Nat : Q[n]
    <2>1. Q \in [Nat -> BOOLEAN] /\ \A n \in Nat : Q[n] => Q[n + 1]
      BY <1>4
    <2> HIDE DEF Q
    <2>2. QED
      BY <1>3, <2>1, Induct
  <1>6. PICK g \in [SUBSET S -> Int] : \A s \in SUBSET S : Cardinality(s) <= Cardinality(S) => g[s] = Body(g, s)
    BY <1>1, <1>5
  <1>7. g = [s \in SUBSET S |-> Body(g, s)]
    BY <1>1, <1>6
  <1>8. QED
    BY <1>7 DEF SumsUp

\* Sums over a part of a set agree with those over the set.
LEMMA SumsUpAgree ==
  ASSUME NEW f, NEW S, IsFiniteSet(S), NEW T \in SUBSET S, NEW g, NEW h,
         SumsUp(f, S, g), SumsUp(f, T, h)
  PROVE  g[T] = h[T]
  <1> DEFINE Q == [n \in Nat |-> \A s \in SUBSET T : Cardinality(s) = n => g[s] = h[s]]
  <1>1. \A s \in SUBSET T : IsFiniteSet(s) /\ Cardinality(s) \in Nat
    BY FS_Subset, FS_CardinalityType
  <1>2. \A s \in SUBSET T : s # {} => Pick(s) \in s
    BY DEF Pick
  <1>3. Q[0]
    <2>1. g[{}] = 0 /\ h[{}] = 0
      BY DEF SumsUp
    <2>2. QED
      BY <1>1, <2>1, FS_EmptySet
  <1>4. ASSUME NEW n \in Nat, Q[n] PROVE Q[n + 1]
    <2>1. SUFFICES ASSUME NEW s \in SUBSET T, Cardinality(s) = n + 1 PROVE g[s] = h[s]
      OBVIOUS
    <2>2. s # {} /\ \A x \in s : Cardinality(s \ {x}) = n
      BY <1>1, <2>1, Remove
    <2>3. Cardinality(s \ {Pick(s)}) = n
      BY <1>2, <2>2
    <2>4. g[s \ {Pick(s)}] = h[s \ {Pick(s)}]
      BY <1>4, <2>3
    <2>5. g[s] = f[Pick(s)] + g[s \ {Pick(s)}] /\ h[s] = f[Pick(s)] + h[s \ {Pick(s)}]
      BY <2>2 DEF SumsUp
    <2>6. QED
      BY <2>4, <2>5
  <1>5. \A n \in Nat : Q[n]
    <2>1. Q \in [Nat -> BOOLEAN] /\ \A n \in Nat : Q[n] => Q[n + 1]
      BY <1>4
    <2> HIDE DEF Q
    <2>2. QED
      BY <1>3, <2>1, Induct
  <1>6. QED
    BY <1>1, <1>5

\* The sum of the library is such a sum.
LEMMA SumIs ==
  ASSUME NEW f, NEW S, IsFiniteSet(S), \A x \in S : f[x] \in Int
  PROVE  \E iter \in [SUBSET S -> Int] : SumsUp(f, S, iter) /\ SumFunctionOnSet(f, S) = iter[S]
  <1> DEFINE iter == CHOOSE iter : iter = [s \in SUBSET S |->
                 IF s = {} THEN 0 ELSE f[CHOOSE x \in s : TRUE] + iter[s \ {CHOOSE x \in s : TRUE}]]
  <1>1. SumFunctionOnSet(f, S) = iter[S]
    BY Zenon DEF SumFunctionOnSet, FoldFunctionOnSet, MapThenFoldSet
  <1>2. PICK g \in [SUBSET S -> Int] : SumsUp(f, S, g)
    BY SumsUpExists
  <1>3. SumsUp(f, S, iter)
    BY <1>2, Zenon DEF SumsUp, Pick
  <1> HIDE DEF iter
  <1>4. \A T \in SUBSET S : IsFiniteSet(T)
    BY FS_Subset
  <1>5. ASSUME NEW T \in SUBSET S PROVE iter[T] = g[T]
    <2> DEFINE h == [s \in SUBSET T |-> g[s]]
    <2>1. \A s \in SUBSET T : s # {} => s \ {Pick(s)} \in SUBSET T
      OBVIOUS
    <2>2. h = [s \in SUBSET T |-> IF s = {} THEN 0 ELSE f[Pick(s)] + h[s \ {Pick(s)}]]
      BY <1>2, <2>1 DEF SumsUp
    <2>3. SumsUp(f, T, h)
      BY <2>2 DEF SumsUp
    <2>4. h[T] = g[T]
      OBVIOUS
    <2> HIDE DEF h
    <2>5. QED
      BY <1>3, <2>3, <2>4, SumsUpAgree
  <1>6. iter = g
    BY <1>3, <1>5, <1>2 DEF SumsUp
  <1>7. QED
    BY <1>1, <1>3, <1>6

\* The sum of nothing.
LEMMA SumEmpty ==
  ASSUME NEW f
  PROVE  SumFunctionOnSet(f, {}) = 0
  <1>1. PICK iter \in [SUBSET {} -> Int] : SumsUp(f, {}, iter) /\ SumFunctionOnSet(f, {}) = iter[{}]
    BY SumIs, FS_EmptySet
  <1>2. QED
    BY <1>1 DEF SumsUp

\* What the library adds first.
LEMMA SumPick ==
  ASSUME NEW f, NEW S, IsFiniteSet(S), \A x \in S : f[x] \in Int, S # {}
  PROVE  /\ SumFunctionOnSet(f, S) \in Int
         /\ SumFunctionOnSet(f, S) = f[Pick(S)] + SumFunctionOnSet(f, S \ {Pick(S)})
  <1> DEFINE T == S \ {Pick(S)}
  <1>1. PICK g \in [SUBSET S -> Int] : SumsUp(f, S, g) /\ SumFunctionOnSet(f, S) = g[S]
    BY SumIs
  <1>2. IsFiniteSet(T) /\ T \in SUBSET S
    BY FS_Subset
  <1>3. PICK h \in [SUBSET T -> Int] : SumsUp(f, T, h) /\ SumFunctionOnSet(f, T) = h[T]
    BY <1>2, SumIs
  <1>4. g[T] = h[T]
    BY <1>1, <1>2, <1>3, SumsUpAgree
  <1>5. g[S] = f[Pick(S)] + g[T]
    BY <1>1 DEF SumsUp
  <1>6. QED
    BY <1>1, <1>3, <1>4, <1>5

\* A sum of integers is an integer.
LEMMA SumInt ==
  ASSUME NEW f, NEW S, IsFiniteSet(S), \A x \in S : f[x] \in Int
  PROVE  SumFunctionOnSet(f, S) \in Int
  <1>1. CASE S = {}
    BY <1>1, SumEmpty
  <1>2. CASE S # {}
    BY <1>2, SumPick
  <1>3. QED
    BY <1>1, <1>2

\* The order in which a sum is taken does not matter.
LEMMA SumRemove ==
  ASSUME NEW f, NEW S, IsFiniteSet(S), \A x \in S : f[x] \in Int, NEW y \in S
  PROVE  SumFunctionOnSet(f, S) = f[y] + SumFunctionOnSet(f, S \ {y})
  <1> DEFINE Any(T) == \A x \in T : SumFunctionOnSet(f, T) = f[x] + SumFunctionOnSet(f, T \ {x})
             Q == [n \in Nat |-> \A T \in SUBSET S : Cardinality(T) = n => Any(T)]
  <1>1. \A T \in SUBSET S : IsFiniteSet(T) /\ Cardinality(T) \in Nat
    BY FS_Subset, FS_CardinalityType
  <1>2. \A T \in SUBSET S : SumFunctionOnSet(f, T) \in Int
    BY <1>1, SumInt
  <1>3. Q[0]
    BY <1>1, FS_EmptySet
  <1>4. ASSUME NEW n \in Nat, Q[n] PROVE Q[n + 1]
    <2>1. ASSUME NEW T \in SUBSET S, Cardinality(T) = n + 1 PROVE Any(T)
      <3>1. T # {} /\ \A x \in T : Cardinality(T \ {x}) = n
        BY <1>1, <2>1, Remove
      <3> DEFINE c == Pick(T)
      <3>2. c \in T
        BY <3>1 DEF Pick
      <3>3. SumFunctionOnSet(f, T) = f[c] + SumFunctionOnSet(f, T \ {c})
        BY <1>1, <3>1, SumPick
      <3> HIDE DEF c
      <3>4. ASSUME NEW x \in T, x # c PROVE SumFunctionOnSet(f, T) = f[x] + SumFunctionOnSet(f, T \ {x})
        <4>1. Any(T \ {c}) /\ Any(T \ {x})
          BY <1>4, <3>1, <3>2
        <4>2. x \in T \ {c} /\ c \in T \ {x} /\ (T \ {c}) \ {x} = (T \ {x}) \ {c}
          BY <3>2, <3>4
        <4> DEFINE rest == SumFunctionOnSet(f, (T \ {x}) \ {c})
        <4>3. SumFunctionOnSet(f, T \ {c}) = f[x] + rest
          BY <4>1, <4>2
        <4>4. SumFunctionOnSet(f, T \ {x}) = f[c] + rest
          BY <4>1, <4>2
        <4>5. rest \in Int /\ f[x] \in Int /\ f[c] \in Int
          BY <1>2, <3>2
        <4> HIDE DEF rest
        <4>6. QED
          BY <3>3, <4>3, <4>4, <4>5
      <3>5. QED
        BY <3>3, <3>4
    <2>2. n + 1 \in Nat
      OBVIOUS
    <2> HIDE DEF Any
    <2>3. QED
      BY <2>1, <2>2
  <1>5. \A n \in Nat : Q[n]
    <2>1. Q \in [Nat -> BOOLEAN] /\ \A n \in Nat : Q[n] => Q[n + 1]
      BY <1>4
    <2> HIDE DEF Q
    <2>2. QED
      BY <1>3, <2>1, Induct
  <1>6. Any(S)
    <2> HIDE DEF Any
    <2>1. QED
      BY <1>1, <1>5
  <1>7. QED
    BY <1>6

\* One more to add.
LEMMA SumInsert ==
  ASSUME NEW f, NEW T, IsFiniteSet(T), NEW x, x \notin T, \A y \in T \cup {x} : f[y] \in Int
  PROVE  SumFunctionOnSet(f, T \cup {x}) = f[x] + SumFunctionOnSet(f, T)
  <1>1. IsFiniteSet(T \cup {x})
    BY FS_AddElement
  <1>2. (T \cup {x}) \ {x} = T
    OBVIOUS
  <1>3. SumFunctionOnSet(f, T \cup {x}) = f[x] + SumFunctionOnSet(f, (T \cup {x}) \ {x})
    BY <1>1, SumRemove
  <1>4. QED
    BY <1>2, <1>3

\* How sums compare follows from how the summands do.
LEMMA SumLinear ==
  ASSUME NEW S, IsFiniteSet(S), NEW f, NEW g, NEW h, NEW a \in Int,
         \A x \in S : f[x] \in Int /\ g[x] \in Int /\ h[x] = f[x] + a * g[x]
  PROVE  SumFunctionOnSet(h, S) = SumFunctionOnSet(f, S) + a * SumFunctionOnSet(g, S)
  <1> DEFINE P == [T \in SUBSET S |->
                     SumFunctionOnSet(h, T) = SumFunctionOnSet(f, T) + a * SumFunctionOnSet(g, T)]
  <1>1. \A T \in SUBSET S : IsFiniteSet(T)
    BY FS_Subset
  <1>2. \A x \in S : h[x] \in Int
    OBVIOUS
  <1>3. P[{}]
    <2>1. /\ SumFunctionOnSet(f, {}) = 0 /\ SumFunctionOnSet(g, {}) = 0 /\ SumFunctionOnSet(h, {}) = 0
          /\ 0 = 0 + a * 0
      BY SumEmpty
    <2>2. QED
      BY <2>1
  <1>4. ASSUME NEW T \in SUBSET S, NEW x \in S \ T, P[T] PROVE P[T \cup {x}]
    <2> DEFINE F == SumFunctionOnSet(f, T)
               G == SumFunctionOnSet(g, T)
    <2>1. F \in Int /\ G \in Int
      BY <1>1, SumInt
    <2>2. SumFunctionOnSet(f, T \cup {x}) = f[x] + F /\ SumFunctionOnSet(g, T \cup {x}) = g[x] + G
      BY <1>1, SumInsert
    <2>3. SumFunctionOnSet(h, T \cup {x}) = h[x] + SumFunctionOnSet(h, T)
      BY <1>1, <1>2, SumInsert
    <2>4. SumFunctionOnSet(h, T) = F + a * G
      BY <1>4
    <2> HIDE DEF F, G
    <2>5. h[x] + (F + a * G) = f[x] + F + a * (g[x] + G)
      <3>1. a * (g[x] + G) = a * g[x] + a * G
        BY <2>1
      <3>2. a * g[x] \in Int /\ a * G \in Int
        BY <2>1
      <3>3. QED
        BY <2>1, <3>1, <3>2
    <2>6. QED
      BY <2>2, <2>3, <2>4, <2>5
  <1>5. \A T \in SUBSET S : P[T]
    <2>1. P \in [SUBSET S -> BOOLEAN] /\ \A T \in SUBSET S : \A x \in S \ T : P[T] => P[T \cup {x}]
      BY <1>4
    <2> HIDE DEF P
    <2>2. QED
      BY <1>3, <2>1, SetInduct
  <1>6. QED
    BY <1>5

\* The sum of sums.
LEMMA SumPlus ==
  ASSUME NEW S, IsFiniteSet(S), NEW f, NEW g, NEW h,
         \A x \in S : f[x] \in Int /\ g[x] \in Int /\ h[x] = f[x] + g[x]
  PROVE  SumFunctionOnSet(h, S) = SumFunctionOnSet(f, S) + SumFunctionOnSet(g, S)
  <1>1. PICK a \in Int : a = 1
    OBVIOUS
  <1>2. \A x \in S : f[x] \in Int /\ g[x] \in Int /\ h[x] = f[x] + a * g[x]
    BY <1>1
  <1>3. SumFunctionOnSet(h, S) = SumFunctionOnSet(f, S) + a * SumFunctionOnSet(g, S)
    BY <1>2, SumLinear
  <1>4. SumFunctionOnSet(g, S) \in Int
    BY SumInt
  <1>5. QED
    BY <1>1, <1>3, <1>4

\* The larger what is added, the larger the sum.
LEMMA SumMonotone ==
  ASSUME NEW S, IsFiniteSet(S), NEW f, NEW g,
         \A x \in S : f[x] \in Int /\ g[x] \in Int /\ f[x] <= g[x]
  PROVE  SumFunctionOnSet(f, S) <= SumFunctionOnSet(g, S)
  <1> DEFINE P == [T \in SUBSET S |-> TRUE /\ SumFunctionOnSet(f, T) <= SumFunctionOnSet(g, T)]
  <1>1. \A T \in SUBSET S : IsFiniteSet(T)
    BY FS_Subset
  <1>3. P[{}]
    <2>1. SumFunctionOnSet(f, {}) = 0 /\ SumFunctionOnSet(g, {}) = 0
      BY SumEmpty
    <2>2. SumFunctionOnSet(f, {}) <= SumFunctionOnSet(g, {})
      BY <2>1
    <2>3. QED
      BY <2>2
  <1>4. ASSUME NEW T \in SUBSET S, NEW x \in S \ T, P[T] PROVE P[T \cup {x}]
    <2> DEFINE F == SumFunctionOnSet(f, T)
               G == SumFunctionOnSet(g, T)
    <2>1. F \in Int /\ G \in Int
      BY <1>1, SumInt
    <2>2. SumFunctionOnSet(f, T \cup {x}) = f[x] + F /\ SumFunctionOnSet(g, T \cup {x}) = g[x] + G
      BY <1>1, SumInsert
    <2>3. F <= G
      BY <1>4
    <2> HIDE DEF F, G
    <2>4. SumFunctionOnSet(f, T \cup {x}) <= SumFunctionOnSet(g, T \cup {x})
      <3>1. f[x] \in Int /\ g[x] \in Int /\ f[x] <= g[x]
        OBVIOUS
      <3>2. QED
        BY <2>1, <2>2, <2>3, <3>1
    <2>5. QED
      BY <2>4
  <1>5. \A T \in SUBSET S : P[T]
    <2>1. P \in [SUBSET S -> BOOLEAN] /\ \A T \in SUBSET S : \A x \in S \ T : P[T] => P[T \cup {x}]
      BY <1>4
    <2> HIDE DEF P
    <2>2. QED
      BY <1>3, <2>1, SetInduct
  <1>6. QED
    BY <1>5

\* Equal amounts have equal sums.
LEMMA SumEqual ==
  ASSUME NEW S, IsFiniteSet(S), NEW f, NEW g, \A x \in S : f[x] \in Int /\ f[x] = g[x]
  PROVE  SumFunctionOnSet(f, S) = SumFunctionOnSet(g, S)
  <1>1. SumFunctionOnSet(f, S) <= SumFunctionOnSet(g, S)
    BY SumMonotone
  <1>2. SumFunctionOnSet(g, S) <= SumFunctionOnSet(f, S)
    BY SumMonotone
  <1>3. SumFunctionOnSet(f, S) \in Int /\ SumFunctionOnSet(g, S) \in Int
    BY SumInt
  <1>4. QED
    BY <1>1, <1>2, <1>3

\* A constant is summed up by counting.
LEMMA SumCount ==
  ASSUME NEW S, IsFiniteSet(S), NEW f, NEW c \in Int, \A x \in S : f[x] = c
  PROVE  SumFunctionOnSet(f, S) = c * Cardinality(S)
  <1> DEFINE P == [T \in SUBSET S |-> SumFunctionOnSet(f, T) = c * Cardinality(T)]
  <1>1. \A T \in SUBSET S : IsFiniteSet(T) /\ Cardinality(T) \in Nat
    BY FS_Subset, FS_CardinalityType
  <1>3. P[{}]
    <2>1. SumFunctionOnSet(f, {}) = 0 /\ Cardinality({}) = 0 /\ c * 0 = 0
      BY SumEmpty, FS_EmptySet
    <2>2. QED
      BY <2>1
  <1>4. ASSUME NEW T \in SUBSET S, NEW x \in S \ T, P[T] PROVE P[T \cup {x}]
    <2>1. SumFunctionOnSet(f, T \cup {x}) = c + SumFunctionOnSet(f, T)
      BY <1>1, SumInsert
    <2>2. Cardinality(T \cup {x}) = Cardinality(T) + 1
      BY <1>1, FS_AddElement
    <2>3. SumFunctionOnSet(f, T) = c * Cardinality(T)
      BY <1>4
    <2>4. c + c * Cardinality(T) = c * (Cardinality(T) + 1)
      BY <1>1
    <2>5. QED
      BY <2>1, <2>2, <2>3, <2>4
  <1>5. \A T \in SUBSET S : P[T]
    <2>1. P \in [SUBSET S -> BOOLEAN] /\ \A T \in SUBSET S : \A x \in S \ T : P[T] => P[T \cup {x}]
      BY <1>4
    <2> HIDE DEF P
    <2>2. QED
      BY <1>3, <2>1, SetInduct
  <1>6. QED
    BY <1>5

\* The summands outside a part of a set are zero.
LEMMA SumPart ==
  ASSUME NEW S, IsFiniteSet(S), NEW U \in SUBSET S, NEW f,
         \A x \in S : f[x] \in Int, \A x \in S \ U : f[x] = 0
  PROVE  SumFunctionOnSet(f, S) = SumFunctionOnSet(f, U)
  <1> DEFINE P == [T \in SUBSET S |-> SumFunctionOnSet(f, T) = SumFunctionOnSet(f, T \cap U)]
  <1>1. \A T \in SUBSET S : IsFiniteSet(T) /\ IsFiniteSet(T \cap U)
    BY FS_Subset, FS_Intersection
  <1>3. P[{}]
    <2>1. {} \cap U = {}
      OBVIOUS
    <2>2. QED
      BY <2>1
  <1>4. ASSUME NEW T \in SUBSET S, NEW x \in S \ T, P[T] PROVE P[T \cup {x}]
    <2>1. SumFunctionOnSet(f, T \cup {x}) = f[x] + SumFunctionOnSet(f, T)
      BY <1>1, SumInsert
    <2>2. SumFunctionOnSet(f, T) = SumFunctionOnSet(f, T \cap U) /\ SumFunctionOnSet(f, T) \in Int
      BY <1>1, <1>4, SumInt
    <2>3. CASE x \in U
      <3>1. (T \cup {x}) \cap U = (T \cap U) \cup {x} /\ x \notin T \cap U
        BY <2>3
      <3>2. SumFunctionOnSet(f, (T \cap U) \cup {x}) = f[x] + SumFunctionOnSet(f, T \cap U)
        BY <1>1, <3>1, SumInsert
      <3>3. QED
        BY <2>1, <2>2, <3>1, <3>2
    <2>4. CASE x \notin U
      <3>1. (T \cup {x}) \cap U = T \cap U /\ f[x] = 0
        BY <2>4
      <3>2. SumFunctionOnSet(f, T \cup {x}) = SumFunctionOnSet(f, T)
        BY <2>1, <2>2, <3>1
      <3>3. QED
        BY <2>2, <3>1, <3>2
    <2>5. QED
      BY <2>3, <2>4
  <1>5. \A T \in SUBSET S : P[T]
    <2>1. P \in [SUBSET S -> BOOLEAN] /\ \A T \in SUBSET S : \A x \in S \ T : P[T] => P[T \cup {x}]
      BY <1>4
    <2> HIDE DEF P
    <2>2. QED
      BY <1>3, <2>1, SetInduct
  <1>6. S \cap U = U
    OBVIOUS
  <1>7. QED
    BY <1>5, <1>6

\* A sum of naturals is a natural.
LEMMA SumNat ==
  ASSUME NEW S, IsFiniteSet(S), NEW f, \A x \in S : f[x] \in Nat
  PROVE  SumFunctionOnSet(f, S) \in Nat
  <1> DEFINE zero == [x \in S |-> 0]
  <1>1. SumFunctionOnSet(zero, S) <= SumFunctionOnSet(f, S)
    BY SumMonotone
  <1>2. SumFunctionOnSet(zero, S) = 0 * Cardinality(S)
    BY SumCount
  <1>3. SumFunctionOnSet(f, S) \in Int /\ Cardinality(S) \in Nat
    BY SumInt, FS_CardinalityType
  <1>4. QED
    BY <1>1, <1>2, <1>3

\* The same of Sum, whose summands are an operator.
LEMMA SumOfFunction ==
  ASSUME NEW f, NEW S, f = [x \in S |-> f[x]]
  PROVE  SumFunction(f) = SumFunctionOnSet(f, S)
  BY DEF SumFunction

-----------------------------------------------------------------------------
(* Rounding and counting *)

\* Math.round: at most half a unit off, halves go up.
LEMMA RoundDivIs ==
  ASSUME NEW n \in Int, NEW d \in Nat \ {0}
  PROVE  /\ RoundDiv(n, d) \in Int
         /\ 2 * (d * RoundDiv(n, d)) <= 2 * n + d
         /\ 2 * n + d < 2 * (d * RoundDiv(n, d)) + 2 * d
  <1> DEFINE e == 2 * d
             m == 2 * n + d
             q == m \div e
  <1>1. e \in Nat \ {0} /\ m \in Int
    OBVIOUS
  <1>2. q \in Int /\ e * q <= m /\ m < e * q + e
    <2> HIDE DEF e, m
    <2>1. QED
      BY <1>1
  <1>3. e * q = 2 * (d * q)
    <2> HIDE DEF q
    <2>1. QED
      BY <1>2
  <1>4. q = RoundDiv(n, d)
    BY DEF RoundDiv
  <1>5. QED
    <2> HIDE DEF q
    <2>1. QED
      BY <1>2, <1>3, <1>4

\* In a strict total order on a finite set, as many elements have a place
\* below m as there are such places.
IsStrictOrder(D, before) ==
    /\ before \in SUBSET (D \X D)
    /\ \A x \in D : <<x, x>> \notin before
    /\ \A x, y, z \in D : <<x, y>> \in before /\ <<y, z>> \in before => <<x, z>> \in before
    /\ \A x, y \in D : x # y => <<x, y>> \in before \/ <<y, x>> \in before

ArePlaces(D, before, place) ==
    place \in [D -> Nat] /\ \A x \in D : place[x] = Cardinality({y \in D : <<y, x>> \in before})

\* Counting those that come before gives the elements of a finite set, in a
\* strict order of all of them, the places 0, 1, 2 and so on.
LEMMA Ranking ==
  ASSUME NEW D, IsFiniteSet(D), NEW before, IsStrictOrder(D, before), NEW place, ArePlaces(D, before, place)
  PROVE  /\ \A x, y \in D : <<x, y>> \in before => place[x] < place[y]
         /\ \A m \in Nat : m <= Cardinality(D) => Cardinality({x \in D : place[x] < m}) = m
  <1> DEFINE Ahead(x) == {y \in D : <<y, x>> \in before}
             Below(m) == {x \in D : place[x] < m}
             Full(m) == m <= Cardinality(D) => Cardinality(Below(m)) = m
  <1> USE DEF IsStrictOrder, ArePlaces
  <1>1. \A x \in D : IsFiniteSet(Ahead(x)) /\ place[x] = Cardinality(Ahead(x))
    BY FS_Subset
  <1>2. ASSUME NEW x \in D, NEW y \in D, <<x, y>> \in before PROVE place[x] < place[y]
    <2>1. Ahead(x) \in SUBSET Ahead(y) /\ x \in Ahead(y) /\ x \notin Ahead(x)
      BY <1>2
    <2>2. Cardinality(Ahead(x)) <= Cardinality(Ahead(y)) /\ Cardinality(Ahead(x)) # Cardinality(Ahead(y))
      BY <1>1, <2>1, FS_Subset
    <2>3. place[x] = Cardinality(Ahead(x)) /\ place[y] = Cardinality(Ahead(y))
      BY <1>1
    <2>4. place[x] \in Nat /\ place[y] \in Nat
      OBVIOUS
    <2> HIDE DEF Ahead
    <2>5. QED
      BY <2>2, <2>3, <2>4
  <1>3. \A m \in Nat : IsFiniteSet(Below(m))
    BY FS_Subset
  <1> DEFINE Q == [m \in Nat |-> Full(m)]
  <1>4. Cardinality(D) \in Nat
    BY FS_CardinalityType
  <1>5. Full(0)
    <2>1. Below(0) = {}
      OBVIOUS
    <2>2. QED
      BY <2>1, FS_EmptySet
  <1>6. ASSUME NEW m \in Nat, Full(m) PROVE Full(m + 1)
    <2>1. CASE ~(m + 1 <= Cardinality(D))
      BY <2>1
    <2>2. CASE m + 1 <= Cardinality(D)
      <3>1. Cardinality(Below(m)) = m
        BY <1>4, <1>6, <2>2
      <3>2. D \ Below(m) # {}
        <4>1. Below(m) # D
          BY <1>4, <2>2, <3>1
        <4>2. QED
          BY <4>1
      <3> DEFINE places == {place[x] : x \in D \ Below(m)}
      <3>3. PICK n \in places : \A o \in places : n <= o
        <4>1. places \subseteq Nat /\ places # {}
          BY <3>2
        <4> HIDE DEF places
        <4>2. QED
          BY <4>1, LeastNat
      <3>4. PICK l \in D \ Below(m) : place[l] = n
        BY <3>3
      <3>5. \A x \in D \ Below(m) : place[l] <= place[x]
        BY <3>3, <3>4
      <3>6. Ahead(l) = Below(m)
        <4>1. ASSUME NEW x \in Ahead(l) PROVE x \in Below(m)
          <5>1. x \in D /\ place[x] < place[l]
            BY <1>2, <3>4
          <5>2. QED
            BY <3>5, <5>1
        <4>2. ASSUME NEW x \in Below(m) PROVE x \in Ahead(l)
          <5>1. place[x] < place[l] /\ x # l
            BY <3>4
          <5>2. ~(<<l, x>> \in before)
            BY <1>2, <3>4, <5>1
          <5>3. QED
            BY <3>4, <5>1, <5>2
        <4>3. Ahead(l) \subseteq D /\ Below(m) \subseteq D
          OBVIOUS
        <4> HIDE DEF Ahead, Below
        <4>4. QED
          BY <4>1, <4>2
      <3>7. place[l] = m
        BY <1>1, <3>1, <3>4, <3>6
      <3>8. \A x \in D : x # l => place[x] # m
        <4>1. SUFFICES ASSUME NEW x \in D, x # l, place[x] = m PROVE FALSE
          OBVIOUS
        <4>2. place[x] < place[l] \/ place[l] < place[x]
          BY <1>2, <3>4, <4>1
        <4>3. QED
          BY <3>7, <4>1, <4>2
      <3>9. Below(m + 1) = Below(m) \cup {l}
        BY <3>4, <3>7, <3>8
      <3>10. Cardinality(Below(m) \cup {l}) = m + 1
        BY <1>3, <3>1, <3>4, FS_AddElement
      <3>11. QED
        BY <3>9, <3>10
    <2>3. QED
      BY <2>1, <2>2
  <1>7. \A m \in Nat : Q[m]
    <2>1. Q \in [Nat -> BOOLEAN]
      OBVIOUS
    <2>2. Q[0] /\ \A m \in Nat : Q[m] => Q[m + 1]
      <3> HIDE DEF Full
      <3>1. QED
        BY <1>5, <1>6
    <2> HIDE DEF Q
    <2>3. QED
      BY <2>1, <2>2, Induct
  <1>8. QED
    BY <1>2, <1>7

\* Sums over functions.
LEMMA TotalNat ==
  ASSUME NEW f, NEW S, IsFiniteSet(S), DOMAIN f = S, \A x \in S : f[x] \in Nat
  PROVE  SumFunction(f) \in Nat
  BY SumNat DEF SumFunction

\* Images of finite sets are finite.
LEMMA FiniteImage ==
  ASSUME NEW S, IsFiniteSet(S), NEW f, DOMAIN f = S, f = [x \in S |-> f[x]]
  PROVE  IsFiniteSet({f[x] : x \in S})
  <1> DEFINE T == {f[x] : x \in S}
  <1>1. f \in Surjection(S, T)
    BY DEF Surjection
  <1> HIDE DEF T
  <1>2. IsFiniteSet(T)
    BY <1>1, FS_Surjection
  <1>3. QED
    BY <1>2 DEF T

\* Rounding leaves no sign where there is none.
LEMMA RoundDivNat ==
  ASSUME NEW n \in Nat, NEW d \in Nat \ {0}
  PROVE  RoundDiv(n, d) \in Nat
  <1>1. RoundDiv(n, d) \in Int /\ 2 * n + d < 2 * (d * RoundDiv(n, d)) + 2 * d
    BY RoundDivIs
  <1> DEFINE q == RoundDiv(n, d)
  <1> HIDE DEF q
  <1>2. q \in Int /\ 2 * n + d < 2 * (d * q) + 2 * d
    BY <1>1 DEF q
  <1>3. SUFFICES ASSUME q <= -1 PROVE FALSE
    BY <1>2 DEF q
  <1>4. d * q <= -d /\ d * q \in Int
    BY <1>2, <1>3
  <1>5. QED
    BY <1>2, <1>4

\* Rounding stays within whole bounds.
LEMMA RoundDivAtMost ==
  ASSUME NEW n \in Int, NEW d \in Nat \ {0}, NEW m \in Int, n <= d * m
  PROVE  RoundDiv(n, d) <= m
  <1>1. RoundDiv(n, d) \in Int /\ 2 * (d * RoundDiv(n, d)) <= 2 * n + d
    BY RoundDivIs
  <1> DEFINE q == RoundDiv(n, d)
  <1> HIDE DEF q
  <1>2. q \in Int /\ 2 * (d * q) <= 2 * n + d
    BY <1>1 DEF q
  <1>3. SUFFICES ASSUME q >= m + 1 PROVE FALSE
    BY <1>2 DEF q
  <1>4. d * q >= d * (m + 1)
    BY <1>2, <1>3
  <1>5. d * (m + 1) = d * m + d /\ d * m \in Int /\ d * q \in Int
    BY <1>2
  <1>6. QED
    BY <1>2, <1>4, <1>5

\* A product of naturals.
LEMMA Product ==
  ASSUME NEW a \in Nat, NEW b \in Nat
  PROVE  a * b \in Nat
  OBVIOUS

IsWindow(w) == w.from \in Int /\ w.to \in Int /\ w.from <= w.to

\* Windows have a day at least.
LEMMA LengthIs ==
  ASSUME NEW w, IsWindow(w)
  PROVE  Length(w) \in Nat \ {0}
  BY DEF IsWindow, Length

\* A window is as long as it has days.
LEMMA DaysAre ==
  ASSUME NEW w, IsWindow(w)
  PROVE  IsFiniteSet(DaysOf(w)) /\ Cardinality(DaysOf(w)) = Length(w)
  BY FS_Interval DEF IsWindow, DaysOf, Length

\* Windows overlap on no more days than they have.
LEMMA OverlapIs ==
  ASSUME NEW v, NEW w, IsWindow(v), IsWindow(w)
  PROVE  Overlap(v, w) \in Nat /\ Overlap(v, w) <= Length(w) /\ Overlap(v, w) <= Length(v)
  <1>1. IsFiniteSet(DaysOf(w)) /\ Cardinality(DaysOf(w)) = Length(w)
    BY DaysAre
  <1>2. IsFiniteSet(DaysOf(v)) /\ Cardinality(DaysOf(v)) = Length(v)
    BY DaysAre
  <1>3. /\ Cardinality(DaysOf(v) \cap DaysOf(w)) <= Cardinality(DaysOf(v))
        /\ Cardinality(DaysOf(v) \cap DaysOf(w)) <= Cardinality(DaysOf(w))
        /\ IsFiniteSet(DaysOf(v) \cap DaysOf(w))
    BY <1>1, <1>2, FS_Intersection
  <1>4. QED
    BY <1>1, <1>2, <1>3, FS_CardinalityType DEF Overlap

-----------------------------------------------------------------------------
(* More about sums *)

\* A sum does not depend on the names of what is added.
LEMMA SumRenamed ==
  ASSUME NEW S, IsFiniteSet(S), NEW h, h = [x \in S |-> h[x]], \A x, y \in S : h[x] = h[y] => x = y,
         NEW f, NEW g, \A x \in S : f[h[x]] \in Int /\ g[x] = f[h[x]]
  PROVE  SumFunctionOnSet(f, {h[x] : x \in S}) = SumFunctionOnSet(g, S)
  <1> DEFINE image(T) == {h[x] : x \in T}
             P == [T \in SUBSET S |-> TRUE /\ SumFunctionOnSet(f, image(T)) = SumFunctionOnSet(g, T)]
  <1>1. P \in [SUBSET S -> BOOLEAN] /\ P[{}]
    <2>1. image({}) = {}
      OBVIOUS
    <2>2. \A T \in SUBSET S : (TRUE /\ SumFunctionOnSet(f, image(T)) = SumFunctionOnSet(g, T)) \in BOOLEAN
      OBVIOUS
    <2>3. SumFunctionOnSet(f, {}) = SumFunctionOnSet(g, {})
      BY SumEmpty
    <2> HIDE DEF image
    <2>4. QED
      BY <2>1, <2>2, <2>3
  <1>2. ASSUME NEW T \in SUBSET S, NEW x \in S \ T, P[T] PROVE P[T \cup {x}]
    <2>1. image(T \cup {x}) = image(T) \cup {h[x]}
      OBVIOUS
    <2>2. h[x] \notin image(T)
      OBVIOUS
    <2>3. IsFiniteSet(T)
      BY FS_Subset
    <2>4. IsFiniteSet(image(T))
      <3> DEFINE hT == [y \in T |-> h[y]]
      <3>1. IsFiniteSet({hT[y] : y \in T}) /\ {hT[y] : y \in T} = image(T)
        <4>1. hT = [y \in T |-> hT[y]] /\ DOMAIN hT = T
          OBVIOUS
        <4>2. {hT[y] : y \in T} = image(T)
          OBVIOUS
        <4> HIDE DEF hT
        <4>3. IsFiniteSet({hT[y] : y \in T})
          BY <2>3, <4>1, FiniteImage
        <4>4. QED
          BY <4>2, <4>3
      <3>2. QED
        BY <3>1
    <2>5. \A z \in image(T) \cup {h[x]} : f[z] \in Int
      OBVIOUS
    <2>6. SumFunctionOnSet(f, image(T)) = SumFunctionOnSet(g, T)
      BY <1>2
    <2>7. \A y \in T \cup {x} : g[y] \in Int
      OBVIOUS
    <2>8. g[x] = f[h[x]]
      OBVIOUS
    <2> HIDE DEF image, P
    <2>9. SumFunctionOnSet(f, image(T) \cup {h[x]}) = f[h[x]] + SumFunctionOnSet(f, image(T))
      BY <2>2, <2>4, <2>5, SumInsert
    <2>10. SumFunctionOnSet(g, T \cup {x}) = g[x] + SumFunctionOnSet(g, T)
      BY <2>3, <2>7, SumInsert
    <2>11. SumFunctionOnSet(f, image(T \cup {x})) = SumFunctionOnSet(g, T \cup {x})
      BY <2>1, <2>6, <2>8, <2>9, <2>10
    <2>12. T \cup {x} \in SUBSET S
      OBVIOUS
    <2>13. QED
      BY <2>11, <2>12 DEF P
  <1>3. \A T \in SUBSET S : P[T]
    <2> HIDE DEF P
    <2>1. QED
      BY <1>1, <1>2, SetInduct
  <1>4. QED
    BY <1>3

\* The sizes of sets apart add up to the size of their union.
LEMMA SumOfSizes ==
  ASSUME NEW S, IsFiniteSet(S), NEW F, \A x \in S : IsFiniteSet(F[x]),
         \A x, y \in S : x # y => F[x] \cap F[y] = {},
         NEW f, \A x \in S : f[x] = Cardinality(F[x])
  PROVE  /\ SumFunctionOnSet(f, S) = Cardinality(UNION {F[x] : x \in S})
         /\ IsFiniteSet(UNION {F[x] : x \in S})
  <1> DEFINE all(T) == UNION {F[x] : x \in T}
             P == [T \in SUBSET S |-> IsFiniteSet(all(T)) /\ SumFunctionOnSet(f, T) = Cardinality(all(T))]
  <1>1. \A x \in S : f[x] \in Int
    BY FS_CardinalityType
  <1>2. P \in [SUBSET S -> BOOLEAN] /\ P[{}]
    <2>1. all({}) = {}
      OBVIOUS
    <2>2. SumFunctionOnSet(f, {}) = 0 /\ Cardinality({}) = 0 /\ IsFiniteSet({})
      BY SumEmpty, FS_EmptySet
    <2>3. \A T \in SUBSET S : (IsFiniteSet(all(T)) /\ SumFunctionOnSet(f, T) = Cardinality(all(T))) \in BOOLEAN
      OBVIOUS
    <2> HIDE DEF all
    <2>4. QED
      BY <2>1, <2>2, <2>3
  <1>3. ASSUME NEW T \in SUBSET S, NEW x \in S \ T, P[T] PROVE P[T \cup {x}]
    <2>1. all(T \cup {x}) = all(T) \cup F[x]
      OBVIOUS
    <2>2. all(T) \cap F[x] = {}
      <3>1. \A y \in T : F[y] \cap F[x] = {}
        OBVIOUS
      <3>2. QED
        BY <3>1
    <2>3. IsFiniteSet(all(T)) /\ SumFunctionOnSet(f, T) = Cardinality(all(T))
      BY <1>3
    <2> HIDE DEF all, P
    <2>4. IsFiniteSet(all(T) \cup F[x])
          /\ Cardinality(all(T) \cup F[x]) = Cardinality(all(T)) + Cardinality(F[x]) - Cardinality(all(T) \cap F[x])
      BY <2>3, FS_Union
    <2>5. Cardinality(all(T) \cap F[x]) = 0 /\ Cardinality(all(T)) \in Int /\ Cardinality(F[x]) \in Int
      <3>1. Cardinality(all(T) \cap F[x]) = 0
        BY <2>2, FS_EmptySet
      <3>2. Cardinality(all(T)) \in Int
        BY <2>3, FS_CardinalityType
      <3>3. Cardinality(F[x]) \in Int
        BY FS_CardinalityType
      <3>4. QED
        BY <3>1, <3>2, <3>3
    <2>6. SumFunctionOnSet(f, T \cup {x}) = f[x] + SumFunctionOnSet(f, T)
      <3>1. IsFiniteSet(T)
        BY FS_Subset
      <3>2. QED
        BY <1>1, <3>1, SumInsert
    <2>7. f[x] = Cardinality(F[x])
      OBVIOUS
    <2>8. SumFunctionOnSet(f, T \cup {x}) = Cardinality(all(T \cup {x})) /\ IsFiniteSet(all(T \cup {x}))
      <3> DEFINE old == Cardinality(all(T))
                 new == Cardinality(F[x])
      <3>1. Cardinality(all(T) \cup F[x]) = old + new - 0
        BY <2>4, <2>5
      <3>2. SumFunctionOnSet(f, T \cup {x}) = new + old
        BY <2>3, <2>6, <2>7
      <3>3. old \in Int /\ new \in Int
        BY <2>5
      <3> HIDE DEF old, new
      <3>4. SumFunctionOnSet(f, T \cup {x}) = Cardinality(all(T) \cup F[x])
        BY <3>1, <3>2, <3>3
      <3>5. QED
        BY <2>1, <2>4, <3>4
    <2>9. T \cup {x} \in SUBSET S
      OBVIOUS
    <2>10. QED
      BY <2>8, <2>9 DEF P
  <1>4. \A T \in SUBSET S : P[T]
    <2> HIDE DEF P
    <2>1. QED
      BY <1>2, <1>3, SetInduct
  <1>5. P[S]
    BY <1>4
  <1>6. QED
    BY <1>5

\* Bounds of what is added bound the sum.
LEMMA SumWithin ==
  ASSUME NEW S, IsFiniteSet(S), NEW f, NEW g, NEW k \in Int, NEW a \in Int, NEW m \in Int,
         \A x \in S : f[x] \in Int /\ g[x] \in Int /\ 2 * (k * f[x]) <= 2 * (a * g[x]) + m
  PROVE  2 * (k * SumFunctionOnSet(f, S)) <= 2 * (a * SumFunctionOnSet(g, S)) + m * Cardinality(S)
  <1> DEFINE zero == [x \in S |-> 0]
             const == [x \in S |-> m]
             kf == [x \in S |-> k * f[x]]
             ag == [x \in S |-> a * g[x]]
             low == [x \in S |-> 0 + 2 * kf[x]]
             high == [x \in S |-> m + 2 * ag[x]]
  <1>1. \A x \in S : /\ zero[x] = 0 /\ const[x] = m
                     /\ kf[x] \in Int /\ kf[x] = zero[x] + k * f[x]
                     /\ ag[x] \in Int /\ ag[x] = zero[x] + a * g[x]
                     /\ low[x] = zero[x] + 2 * kf[x] /\ high[x] = const[x] + 2 * ag[x]
                     /\ low[x] \in Int /\ high[x] \in Int /\ low[x] <= high[x]
    OBVIOUS
  <1> HIDE DEF zero, const, kf, ag, low, high
  <1> DEFINE F == SumFunctionOnSet(f, S)
             G == SumFunctionOnSet(g, S)
  <1>2. SumFunctionOnSet(zero, S) = 0 * Cardinality(S) /\ SumFunctionOnSet(const, S) = m * Cardinality(S)
    <2>1. SumFunctionOnSet(zero, S) = 0 * Cardinality(S)
      <3>1. \A x \in S : zero[x] = 0
        BY <1>1
      <3>2. 0 \in Int
        OBVIOUS
      <3>3. QED
        BY <3>1, <3>2, SumCount
    <2>2. SumFunctionOnSet(const, S) = m * Cardinality(S)
      BY <1>1, SumCount
    <2>3. QED
      BY <2>1, <2>2
  <1>3. F \in Int /\ G \in Int /\ Cardinality(S) \in Int
    BY SumInt, FS_CardinalityType
  <1>4. SumFunctionOnSet(kf, S) = k * F
    <2>1. SumFunctionOnSet(kf, S) = SumFunctionOnSet(zero, S) + k * F
      BY <1>1, SumLinear
    <2>2. k * F \in Int
      BY <1>3
    <2> HIDE DEF F
    <2>3. QED
      BY <1>2, <1>3, <2>1, <2>2
  <1>5. SumFunctionOnSet(ag, S) = a * G
    <2>1. SumFunctionOnSet(ag, S) = SumFunctionOnSet(zero, S) + a * G
      BY <1>1, SumLinear
    <2>2. a * G \in Int
      BY <1>3
    <2> HIDE DEF G
    <2>3. QED
      BY <1>2, <1>3, <2>1, <2>2
  <1>6. SumFunctionOnSet(low, S) = SumFunctionOnSet(zero, S) + 2 * SumFunctionOnSet(kf, S)
    BY <1>1, SumLinear
  <1>7. SumFunctionOnSet(high, S) = SumFunctionOnSet(const, S) + 2 * SumFunctionOnSet(ag, S)
    BY <1>1, SumLinear
  <1>8. SumFunctionOnSet(low, S) <= SumFunctionOnSet(high, S)
    BY <1>1, SumMonotone
  <1>9. k * F \in Int /\ a * G \in Int /\ m * Cardinality(S) \in Int
    BY <1>3
  <1> HIDE DEF F, G
  <1>10. 2 * (k * F) <= 2 * (a * G) + m * Cardinality(S)
    BY <1>2, <1>3, <1>4, <1>5, <1>6, <1>7, <1>8, <1>9
  <1>11. QED
    BY <1>10 DEF F, G

-----------------------------------------------------------------------------
(* The rounding boundary of a pool *)

\* An amount is its ledger units and a remainder of at most half a unit.
LEMMA RemainderIs ==
  ASSUME NEW x \in Int
  PROVE  /\ InUnits(x) \in Int /\ Remainder(x) \in Int
         /\ Unit * InUnits(x) \in Int
         /\ x = Unit * InUnits(x) + Remainder(x)
         /\ -Unit <= 2 * Remainder(x) /\ 2 * Remainder(x) < Unit
  <1>1. Unit \in Nat \ {0}
    BY CalcAssumption
  <1>2. /\ InUnits(x) \in Int
        /\ 2 * (Unit * InUnits(x)) <= 2 * x + Unit
        /\ 2 * x + Unit < 2 * (Unit * InUnits(x)) + 2 * Unit
    BY <1>1, RoundDivIs DEF InUnits
  <1>3. Unit * InUnits(x) \in Int
    BY <1>1, <1>2
  <1>4. Remainder(x) = x - Unit * InUnits(x)
    BY DEF Remainder
  <1> DEFINE u == Unit * InUnits(x)
  <1> HIDE DEF u
  <1>5. /\ u \in Int /\ 2 * u <= 2 * x + Unit /\ 2 * x + Unit < 2 * u + 2 * Unit
        /\ Remainder(x) = x - u
    BY <1>2, <1>3, <1>4 DEF u
  <1>6. Remainder(x) \in Int /\ x = u + Remainder(x) /\ -Unit <= 2 * Remainder(x) /\ 2 * Remainder(x) < Unit
    BY <1>1, <1>5
  <1>7. QED
    BY <1>2, <1>3, <1>6 DEF u

\* As many leases were rounded down when units are missing, and as many up when
\* there are too many, as units are given out or taken.
LEMMA ResidualIs ==
  ASSUME NEW D, IsFiniteSet(D), NEW amount \in [D -> Int]
  PROVE  LET r == Residual(amount)
         IN  /\ r \in Int
             /\ r > 0 => r <= Cardinality({l \in D : Remainder(amount[l]) > 0})
             /\ r < 0 => -r <= Cardinality({l \in D : Remainder(amount[l]) < 0})
             /\ InUnits(SumFunctionOnSet(amount, D)) \in Int
             /\ SumFunctionOnSet([l \in D |-> InUnits(amount[l])], D) \in Int
             /\ r = InUnits(SumFunctionOnSet(amount, D)) - SumFunctionOnSet([l \in D |-> InUnits(amount[l])], D)
  <1> DEFINE k == [l \in D |-> InUnits(amount[l])]
             r == [l \in D |-> Remainder(amount[l])]
             R == Residual(amount)
             X == SumFunctionOnSet(amount, D)
             K == SumFunctionOnSet(k, D)
             E == SumFunctionOnSet(r, D)
             up == {l \in D : Remainder(amount[l]) > 0}
             down == {l \in D : Remainder(amount[l]) < 0}
  <1>1. Unit \in Nat \ {0}
    BY CalcAssumption
  <1>2. \A l \in D : /\ k[l] \in Int /\ r[l] \in Int /\ amount[l] = r[l] + Unit * k[l]
                     /\ -Unit <= 2 * r[l] /\ 2 * r[l] < Unit
    <2>1. SUFFICES ASSUME NEW l \in D
                   PROVE /\ k[l] \in Int /\ r[l] \in Int /\ amount[l] = r[l] + Unit * k[l]
                         /\ -Unit <= 2 * r[l] /\ 2 * r[l] < Unit
      OBVIOUS
    <2>2. amount[l] \in Int
      OBVIOUS
    <2>3. k[l] = InUnits(amount[l]) /\ r[l] = Remainder(amount[l])
      OBVIOUS
    <2> HIDE DEF k, r
    <2>4. QED
      BY <2>2, <2>3, RemainderIs
  <1>3. \A l \in D : (r[l] > 0 <=> l \in up) /\ (r[l] < 0 <=> l \in down)
    OBVIOUS
  <1>4. X = E + Unit * K /\ X \in Int /\ E \in Int /\ K \in Int
    <2>1. \A l \in D : amount[l] \in Int
      OBVIOUS
    <2> HIDE DEF k, r
    <2>2. QED
      BY <1>1, <1>2, <2>1, SumLinear, SumInt
  <1>5. R = InUnits(X) - K
    <2>1. amount = [l \in D |-> amount[l]] /\ DOMAIN amount = D
      OBVIOUS
    <2>2. [l \in DOMAIN amount |-> amount[l]] = amount
      BY <2>1
    <2>3. DOMAIN k = D
      OBVIOUS
    <2>4. QED
      BY <2>1, <2>2, <2>3 DEF Residual, Sum, SumFunction
  <1>6. InUnits(X) \in Int /\ X = Unit * InUnits(X) + Remainder(X) /\ Remainder(X) \in Int
        /\ -Unit <= 2 * Remainder(X) /\ 2 * Remainder(X) < Unit
    BY <1>4, RemainderIs
  <1>7. R \in Int /\ E = Unit * R + Remainder(X)
    <2> HIDE DEF R, X, K, E
    <2>1. R \in Int
      BY <1>4, <1>5, <1>6
    <2>2. Unit * InUnits(X) = Unit * R + Unit * K
      <3>1. InUnits(X) = R + K
        BY <1>4, <1>5, <1>6, <2>1
      <3>2. QED
        BY <1>1, <1>4, <2>1, <3>1
    <2>3. Unit * R \in Int /\ Unit * K \in Int
      BY <1>1, <1>4, <2>1
    <2> DEFINE a == Unit * R
               b == Unit * K
    <2>4. X = E + b /\ X = (a + b) + Remainder(X) /\ a \in Int /\ b \in Int
      BY <1>4, <1>6, <2>2, <2>3
    <2> HIDE DEF a, b
    <2>5. E = a + Remainder(X)
      BY <1>4, <1>6, <2>4
    <2>6. QED
      BY <2>1, <2>5 DEF a
  \* twice the remainders, bounded by a unit for each that counts
  <1> DEFINE zero == [l \in D |-> 0]
             twice == [l \in D |-> 2 * r[l]]
             above == [l \in D |-> IF l \in up THEN Unit ELSE 0]
             below == [l \in D |-> IF l \in down THEN -Unit ELSE 0]
  <1>8. SumFunctionOnSet(twice, D) = 2 * E
    <2>1. \A l \in D : zero[l] = 0 /\ twice[l] = 0 + 2 * r[l]
      BY <1>2
    <2>2. SumFunctionOnSet(zero, D) = 0
      <3>1. \A l \in D : zero[l] = 0
        OBVIOUS
      <3> HIDE DEF zero
      <3>2. SumFunctionOnSet(zero, D) = 0 * Cardinality(D) /\ Cardinality(D) \in Nat
        BY <3>1, SumCount, FS_CardinalityType
      <3>3. QED
        BY <3>2
    <2>3. SumFunctionOnSet(twice, D) = SumFunctionOnSet(zero, D) + 2 * E
      <3> HIDE DEF zero, twice, r
      <3>1. QED
        BY <1>2, <2>1, SumLinear
    <2> HIDE DEF zero, twice, E
    <2>4. QED
      BY <1>4, <2>2, <2>3
  <1>9. up \in SUBSET D /\ down \in SUBSET D /\ IsFiniteSet(up) /\ IsFiniteSet(down)
        /\ Cardinality(up) \in Nat /\ Cardinality(down) \in Nat
    BY FS_Subset, FS_CardinalityType
  <1>10. 2 * E <= Unit * Cardinality(up)
    <2>1. \A l \in D : twice[l] \in Int /\ above[l] \in Int /\ twice[l] <= above[l]
      <3>1. SUFFICES ASSUME NEW l \in D PROVE twice[l] \in Int /\ above[l] \in Int /\ twice[l] <= above[l]
        OBVIOUS
      <3>2. twice[l] = 2 * r[l] /\ above[l] = IF r[l] > 0 THEN Unit ELSE 0
        BY <1>3
      <3> HIDE DEF r, twice, above
      <3>3. QED
        BY <1>1, <1>2, <3>2
    <2>2. (\A l \in D \ up : above[l] = 0) /\ \A l \in up : above[l] = Unit
      BY <1>9
    <2> HIDE DEF twice, above, up
    <2>3. SumFunctionOnSet(twice, D) <= SumFunctionOnSet(above, D)
      BY <2>1, SumMonotone
    <2>4. SumFunctionOnSet(above, D) = SumFunctionOnSet(above, up)
      BY <1>9, <2>1, <2>2, SumPart
    <2>5. SumFunctionOnSet(above, up) = Unit * Cardinality(up)
      BY <1>1, <1>9, <2>2, SumCount
    <2>6. QED
      BY <1>8, <2>3, <2>4, <2>5
  <1>11. -Unit * Cardinality(down) <= 2 * E
    <2>1. \A l \in D : twice[l] \in Int /\ below[l] \in Int /\ below[l] <= twice[l]
      <3>1. SUFFICES ASSUME NEW l \in D PROVE twice[l] \in Int /\ below[l] \in Int /\ below[l] <= twice[l]
        OBVIOUS
      <3>2. twice[l] = 2 * r[l] /\ below[l] = IF r[l] < 0 THEN -Unit ELSE 0
        BY <1>3
      <3> HIDE DEF r, twice, below
      <3>3. QED
        BY <1>1, <1>2, <3>2
    <2>2. (\A l \in D \ down : below[l] = 0) /\ \A l \in down : below[l] = -Unit
      BY <1>9
    <2> HIDE DEF twice, below, down
    <2>3. SumFunctionOnSet(below, D) <= SumFunctionOnSet(twice, D)
      BY <2>1, SumMonotone
    <2>4. SumFunctionOnSet(below, D) = SumFunctionOnSet(below, down)
      BY <1>9, <2>1, <2>2, SumPart
    <2>5. SumFunctionOnSet(below, down) = -Unit * Cardinality(down)
      BY <1>1, <1>9, <2>2, SumCount
    <2>6. QED
      BY <1>8, <2>3, <2>4, <2>5
  <1>12. R > 0 => R <= Cardinality(up)
    <2> DEFINE m == Cardinality(up)
    <2> HIDE DEF R, E, X, up
    <2>1. SUFFICES ASSUME R > 0, m < R PROVE FALSE
      BY <1>7, <1>9 DEF m
    <2>2. m \in Nat /\ m + 1 <= R
      BY <1>7, <1>9, <2>1
    <2> HIDE DEF m
    <2>3. Unit * (m + 1) <= Unit * R
      BY <1>1, <1>7, <2>2
    <2>4. Unit * (m + 1) = Unit * m + Unit /\ Unit * m \in Nat /\ Unit * R \in Int
      BY <1>1, <1>7, <2>2
    <2>5. 2 * (Unit * R) + 2 * Remainder(X) <= Unit * m
      BY <1>4, <1>6, <1>7, <1>10, <2>4 DEF m
    <2>6. QED
      BY <1>1, <1>6, <2>3, <2>4, <2>5
  <1>13. R < 0 => -R <= Cardinality(down)
    <2> DEFINE m == Cardinality(down)
    <2> HIDE DEF R, E, X, down
    <2>1. SUFFICES ASSUME R < 0, m < -R PROVE FALSE
      BY <1>7, <1>9 DEF m
    <2>2. m \in Nat /\ R <= -m - 1
      BY <1>7, <1>9, <2>1
    <2> HIDE DEF m
    <2>3. Unit * R <= Unit * (-m - 1)
      BY <1>1, <1>7, <2>2
    <2>4. Unit * (-m - 1) = -Unit * m - Unit /\ -Unit * m \in Int /\ -Unit * m <= 0 /\ Unit * R \in Int
      BY <1>1, <1>7, <2>2
    <2>5. -Unit * m <= 2 * (Unit * R) + 2 * Remainder(X)
      BY <1>4, <1>6, <1>7, <1>11, <2>4 DEF m
    <2>6. QED
      BY <1>1, <1>6, <2>3, <2>4, <2>5
  <1>14. QED
    BY <1>4, <1>5, <1>6, <1>7, <1>12, <1>13

Sign(amount) == IF Residual(amount) < 0 THEN -1 ELSE 1
PlaceOf(amount, l) == Cardinality({k \in DOMAIN amount : Before(amount, Sign(amount), k, l)})
\* The leases that are given a unit, or from which one is taken.
Shifted(amount) == {l \in DOMAIN amount : PlaceOf(amount, l) < Sign(amount) * Residual(amount)}

\* As many leases are moved by a unit as the residual has units, and those on
\* the side it is on.
LEMMA ShiftedIs ==
  ASSUME NEW D \in SUBSET Nat, IsFiniteSet(D), NEW amount \in [D -> Int]
  PROVE  LET s == Sign(amount)
             M == Shifted(amount)
             r(l) == Remainder(amount[l])
         IN  /\ s \in {-1, 1} /\ M \in SUBSET D
             /\ s * Residual(amount) \in Nat /\ Cardinality(M) = s * Residual(amount)
             /\ \A l \in D : r(l) \in Int
             /\ \A l \in M : s * r(l) > 0
             /\ \A l \in M : \A k \in D \ M : s * r(k) <= s * r(l)
  <1> DEFINE s == Sign(amount)
             R == Residual(amount)
             M == Shifted(amount)
             r == [l \in D |-> Remainder(amount[l])]
             before == {e \in D \X D : Before(amount, s, e[1], e[2])}
             place == [l \in D |-> PlaceOf(amount, l)]
             good == {l \in D : s * r[l] > 0}
  <1>1. DOMAIN amount = D
    OBVIOUS
  <1>2. \A l \in D : r[l] \in Int
    BY RemainderIs
  <1>3. R \in Int /\ s \in {-1, 1} /\ s * R \in Nat
    <2>1. R \in Int
      BY ResidualIs
    <2>2. s = IF R < 0 THEN -1 ELSE 1
      BY DEF Sign
    <2> HIDE DEF R, s
    <2>3. QED
      BY <2>1, <2>2
  <1>4. \A x, y \in D : <<x, y>> \in before <=> (s * (r[x] - r[y]) > 0 \/ (s * (r[x] - r[y]) = 0 /\ x < y))
    BY DEF Before
  <1>5. /\ \A x \in D : <<x, x>> \notin before
        /\ \A x, y, z \in D : <<x, y>> \in before /\ <<y, z>> \in before => <<x, z>> \in before
        /\ \A x, y \in D : x # y => <<x, y>> \in before \/ <<y, x>> \in before
    <2> HIDE DEF before, s, r
    <2>1. CASE s = 1
      BY <1>2, <1>4, <2>1
    <2>2. CASE s = -1
      BY <1>2, <1>4, <2>2
    <2>3. QED
      BY <1>3, <2>1, <2>2
  <1>6. \A x \in D : IsFiniteSet({y \in D : <<y, x>> \in before})
    BY FS_Subset
  <1>7. \A x \in D : place[x] = Cardinality({y \in D : <<y, x>> \in before})
    <2>1. SUFFICES ASSUME NEW x \in D PROVE place[x] = Cardinality({y \in D : <<y, x>> \in before})
      OBVIOUS
    <2>2. {y \in D : <<y, x>> \in before} = {k \in DOMAIN amount : Before(amount, s, k, x)}
      BY <1>1
    <2>3. QED
      BY <2>2 DEF PlaceOf
  <1>8. place \in [D -> Nat]
    <2>1. \A x \in D : place[x] \in Nat
      BY <1>6, <1>7, FS_CardinalityType
    <2>2. QED
      BY <2>1
  <1>9. before \in SUBSET (D \X D)
    OBVIOUS
  <1>10. /\ \A x, y \in D : <<x, y>> \in before => place[x] < place[y]
         /\ \A m \in Nat : m <= Cardinality(D) => Cardinality({x \in D : place[x] < m}) = m
    <2> HIDE DEF before, place, s, R, r, good, M
    <2>1. IsStrictOrder(D, before)
      BY <1>5, <1>9 DEF IsStrictOrder
    <2>2. ArePlaces(D, before, place)
      BY <1>7, <1>8 DEF ArePlaces
    <2>3. QED
      BY <2>1, <2>2, Ranking
  <1>11. M = {x \in D : place[x] < s * R}
    BY <1>1 DEF Shifted
  <1>12. /\ IsFiniteSet(good) /\ good \in SUBSET D /\ Cardinality(good) \in Nat
         /\ Cardinality(D) \in Nat /\ Cardinality(good) <= Cardinality(D)
    BY FS_Subset, FS_CardinalityType
  <1>13. s * R <= Cardinality(good)
    <2>1. CASE R > 0
      <3>1. s = 1
        BY <2>1, <1>3 DEF Sign
      <3>2. good = {l \in D : Remainder(amount[l]) > 0}
        <4>1. \A l \in D : 1 * r[l] > 0 <=> Remainder(amount[l]) > 0
          <5>1. \A l \in D : r[l] = Remainder(amount[l])
            OBVIOUS
          <5> HIDE DEF r
          <5>2. QED
            BY <1>2, <5>1
        <4>2. QED
          BY <3>1, <4>1
      <3>3. R <= Cardinality(good)
        BY <2>1, <3>2, ResidualIs
      <3> HIDE DEF R, s, good
      <3>4. QED
        BY <1>3, <3>1, <3>3
    <2>2. CASE R < 0
      <3>1. s = -1
        BY <2>2 DEF Sign
      <3>2. good = {l \in D : Remainder(amount[l]) < 0}
        <4>1. \A l \in D : (-1) * r[l] > 0 <=> Remainder(amount[l]) < 0
          <5>1. \A l \in D : r[l] = Remainder(amount[l])
            OBVIOUS
          <5> HIDE DEF r
          <5>2. QED
            BY <1>2, <5>1
        <4>2. QED
          BY <3>1, <4>1
      <3>3. -R <= Cardinality(good)
        BY <2>2, <3>2, ResidualIs
      <3> HIDE DEF R, s, good
      <3>4. QED
        BY <1>3, <3>1, <3>3
    <2>3. CASE R = 0
      <3> HIDE DEF R, s, good
      <3>1. s * R = 0
        BY <2>3, <1>3
      <3>2. QED
        BY <1>12, <3>1
    <2> HIDE DEF R
    <2>4. QED
      BY <1>3, <2>1, <2>2, <2>3
  <1>14. Cardinality(M) = s * R
    <2> HIDE DEF R, s, good, M, place
    <2>1. QED
      BY <1>3, <1>10, <1>11, <1>12, <1>13
  <1>15. ASSUME NEW l \in M PROVE s * r[l] > 0
    <2>1. SUFFICES ASSUME ~(s * r[l] > 0) PROVE FALSE
      OBVIOUS
    <2>2. l \in D /\ place[l] < s * R
      BY <1>11
    <2>3. good \subseteq {y \in D : <<y, l>> \in before}
      <3>1. SUFFICES ASSUME NEW y \in good PROVE <<y, l>> \in before
        OBVIOUS
      <3>2. y \in D /\ s * r[y] > 0
        OBVIOUS
      <3> HIDE DEF s, r, before, good, M
      <3>3. s * (r[y] - r[l]) > 0
        BY <1>2, <1>3, <2>1, <2>2, <3>2
      <3>4. QED
        BY <1>4, <2>2, <3>2, <3>3
    <2>4. Cardinality(good) <= Cardinality({y \in D : <<y, l>> \in before})
      BY <1>6, <2>2, <2>3, FS_Subset
    <2> HIDE DEF s, R, good, place, before, M
    <2>5. QED
      BY <1>3, <1>7, <1>8, <1>12, <1>13, <2>2, <2>4
  <1>16. ASSUME NEW l \in M, NEW k \in D \ M PROVE s * r[k] <= s * r[l]
    <2>1. place[l] < s * R /\ ~(place[k] < s * R) /\ l \in D /\ k \in D
      BY <1>11
    <2>2. <<k, l>> \notin before
      <3> HIDE DEF s, R, place, before, M
      <3>1. QED
        BY <1>3, <1>8, <1>10, <2>1
    <2> HIDE DEF s, R, place, before, M, r
    <2>3. ~(s * (r[k] - r[l]) > 0)
      BY <1>4, <2>1, <2>2
    <2>4. QED
      BY <1>2, <1>3, <2>1, <2>3
  <1>17. \A l \in D : r[l] = Remainder(amount[l])
    OBVIOUS
  <1>18. M \in SUBSET D
    BY <1>1 DEF Shifted
  <1> HIDE DEF s, R, M, r, place, before, good
  <1>19. QED
    BY <1>2, <1>3, <1>14, <1>15, <1>16, <1>17, <1>18 DEF s, R, M

\* The rounding boundary: the ledger amounts of a pool add up to its rounded
\* total, and each is its rounded amount or, if it is moved, one unit beside it.
LEMMA RoundedIs ==
  ASSUME NEW D \in SUBSET Nat, IsFiniteSet(D), NEW amount \in [D -> Int]
  PROVE  /\ Rounded(amount) \in [D -> Int]
         /\ \A l \in D : Rounded(amount)[l] =
                InUnits(amount[l]) + (IF l \in Shifted(amount) THEN Sign(amount) ELSE 0)
         /\ SumFunctionOnSet(Rounded(amount), D) = InUnits(SumFunctionOnSet(amount, D))
  <1> DEFINE s == Sign(amount)
             R == Residual(amount)
             M == Shifted(amount)
             f == Rounded(amount)
             k == [l \in D |-> InUnits(amount[l])]
             step == [l \in D |-> IF l \in M THEN s ELSE 0]
  <1>1. DOMAIN amount = D
    OBVIOUS
  <1>2. /\ s \in {-1, 1} /\ M \in SUBSET D
        /\ s * R \in Nat /\ Cardinality(M) = s * R
    BY ShiftedIs
  <1>3. R \in Int /\ InUnits(SumFunctionOnSet(amount, D)) \in Int /\ SumFunctionOnSet(k, D) \in Int
        /\ R = InUnits(SumFunctionOnSet(amount, D)) - SumFunctionOnSet(k, D)
    BY ResidualIs
  <1>4. f = [l \in D |-> InUnits(amount[l]) + (IF l \in M THEN s ELSE 0)]
    <2>1. \A l \in D : l \in M <=> PlaceOf(amount, l) < s * R
      BY <1>1 DEF Shifted
    <2>2. f = [l \in D |-> InUnits(amount[l]) + (IF PlaceOf(amount, l) < s * R THEN s ELSE 0)]
      BY <1>1 DEF Rounded, PlaceOf, Sign
    <2> HIDE DEF f, s, R, M
    <2>3. QED
      BY <2>1, <2>2
  <1>5. \A l \in D : /\ k[l] \in Int /\ step[l] \in Int /\ k[l] = InUnits(amount[l])
                     /\ f[l] = k[l] + step[l]
    <2>1. SUFFICES ASSUME NEW l \in D
                   PROVE /\ k[l] \in Int /\ step[l] \in Int /\ k[l] = InUnits(amount[l])
                         /\ f[l] = k[l] + step[l]
      OBVIOUS
    <2>2. k[l] = InUnits(amount[l]) /\ step[l] = (IF l \in M THEN s ELSE 0) /\ f[l] = k[l] + step[l]
      BY <1>4
    <2>3. k[l] \in Int /\ amount[l] \in Int
      BY <2>2, RemainderIs
    <2> HIDE DEF f, s, M, k, step
    <2>4. QED
      BY <1>2, <2>2, <2>3
  <1>6. f \in [D -> Int]
    <2> HIDE DEF s, M, k, step
    <2>1. \A l \in D : f[l] \in Int
      BY <1>5
    <2>2. f = [l \in D |-> f[l]]
      BY <1>4
    <2> HIDE DEF f
    <2>3. QED
      BY <2>1, <2>2
  <1>7. SumFunctionOnSet(step, D) = R
    <2>1. IsFiniteSet(M)
      BY <1>2, FS_Subset
    <2>2. (\A l \in D \ M : step[l] = 0) /\ \A l \in M : step[l] = s
      BY <1>2
    <2>6. s \in Int
      BY <1>2
    <2> HIDE DEF s, R, M, step
    <2>3. SumFunctionOnSet(step, D) = SumFunctionOnSet(step, M)
      BY <1>2, <1>5, <2>2, SumPart
    <2>4. SumFunctionOnSet(step, M) = s * Cardinality(M)
      BY <2>1, <2>2, <2>6, SumCount
    <2>5. s * (s * R) = R
      BY <1>2, <1>3
    <2>7. QED
      BY <1>2, <2>3, <2>4, <2>5
  <1>8. SumFunctionOnSet(f, D) = SumFunctionOnSet(k, D) + SumFunctionOnSet(step, D)
    <2> HIDE DEF f, k, step, s, M, R
    <2>1. \A x \in D : k[x] \in Int /\ step[x] \in Int /\ f[x] = k[x] + step[x]
      BY <1>5
    <2>2. QED
      BY <2>1, SumPlus
  <1>9. SumFunctionOnSet(f, D) = InUnits(SumFunctionOnSet(amount, D))
    <2> DEFINE X == InUnits(SumFunctionOnSet(amount, D))
               K == SumFunctionOnSet(k, D)
    <2>1. SumFunctionOnSet(f, D) = K + R /\ R = X - K /\ X \in Int /\ K \in Int
      BY <1>3, <1>7, <1>8
    <2> HIDE DEF X, K, R, f
    <2>2. QED
      BY <2>1 DEF X
  <1>10. \A l \in D : f[l] = InUnits(amount[l]) + (IF l \in M THEN s ELSE 0)
    BY <1>4
  <1> HIDE DEF f, s, M, R, k, step
  <1>11. QED
    BY <1>6, <1>9, <1>10 DEF f, s, M

\* No amount of nothing or more is rounded to less than nothing.
LEMMA RoundedNat ==
  ASSUME NEW D \in SUBSET Nat, IsFiniteSet(D), NEW amount \in [D -> Nat]
  PROVE  Rounded(amount) \in [D -> Nat]
  <1> DEFINE f == Rounded(amount)
             s == Sign(amount)
             M == Shifted(amount)
  <1>1. amount \in [D -> Int]
    OBVIOUS
  <1>2. f \in [D -> Int] /\ \A l \in D : f[l] = InUnits(amount[l]) + (IF l \in M THEN s ELSE 0)
    BY <1>1, RoundedIs
  <1>3. /\ s \in {-1, 1} /\ \A l \in M : s * Remainder(amount[l]) > 0
    BY <1>1, ShiftedIs
  <1>4. Unit \in Nat \ {0}
    BY CalcAssumption
  <1>5. ASSUME NEW l \in D PROVE f[l] \in Nat
    <2> DEFINE k == InUnits(amount[l])
               r == Remainder(amount[l])
    <2>1. /\ k \in Int /\ r \in Int /\ amount[l] = Unit * k + r /\ amount[l] \in Nat
          /\ -Unit <= 2 * r /\ 2 * r < Unit
      BY <1>1, RemainderIs
    <2>2. f[l] = k + (IF l \in M THEN s ELSE 0) /\ (l \in M => s * r > 0)
      BY <1>2, <1>3
    <2> HIDE DEF f, s, M, k, r
    <2>3. k >= 0
      <3>1. SUFFICES ASSUME k <= -1 PROVE FALSE
        BY <2>1
      <3>2. Unit * k <= -Unit
        BY <1>4, <2>1, <3>1
      <3>3. Unit * k \in Int
        BY <1>4, <2>1
      <3>4. QED
        BY <1>4, <2>1, <3>2, <3>3
    <2>4. k = 0 => r >= 0
      BY <1>4, <2>1
    <2>5. CASE l \in M /\ s = -1
      <3>1. r < 0
        BY <2>1, <2>2, <2>5
      <3>2. k # 0
        BY <2>1, <2>4, <3>1
      <3>3. QED
        BY <2>1, <2>2, <2>3, <2>5, <3>2
    <2>6. CASE ~(l \in M /\ s = -1)
      BY <1>3, <2>1, <2>2, <2>3, <2>6
    <2>7. QED
      BY <2>5, <2>6
  <1>6. QED
    <2> HIDE DEF f
    <2>1. QED
      BY <1>2, <1>5 DEF f

Off(x, units) == LET d == Unit * units - x IN IF d < 0 THEN -d ELSE d

\* No ledger amount is a whole unit off, and no unit is better given to another
\* lease.
LEMMA RoundedClose ==
  ASSUME NEW D \in SUBSET Nat, IsFiniteSet(D), NEW amount \in [D -> Int]
  PROVE  LET f == Rounded(amount)
         IN  /\ \A l \in D : Off(amount[l], f[l]) < Unit
             /\ \A l, k \in D : l # k =>
                   Off(amount[l], f[l]) + Off(amount[k], f[k])
                       <= Off(amount[l], f[l] - 1) + Off(amount[k], f[k] + 1)
  <1> DEFINE f == Rounded(amount)
             s == Sign(amount)
             M == Shifted(amount)
             r == [l \in D |-> Remainder(amount[l])]
             \* how far the ledger amount is above what is owed
             e == [l \in D |-> (IF l \in M THEN s * Unit ELSE 0) - r[l]]
  <1>1. Unit \in Nat \ {0}
    BY CalcAssumption
  <1>2. \A l \in D : r[l] = Remainder(amount[l]) /\ e[l] = (IF l \in M THEN s * Unit ELSE 0) - r[l]
    OBVIOUS
  <1>3. \A l \in D : /\ r[l] \in Int /\ InUnits(amount[l]) \in Int
                     /\ Unit * InUnits(amount[l]) \in Int /\ amount[l] = Unit * InUnits(amount[l]) + r[l]
                     /\ -Unit <= 2 * r[l] /\ 2 * r[l] < Unit
    <2>1. \A l \in D : amount[l] \in Int
      OBVIOUS
    <2> HIDE DEF r
    <2>2. QED
      BY <1>2, <2>1, RemainderIs
  <1>4. /\ s \in {-1, 1} /\ M \in SUBSET D
        /\ \A l \in M : s * r[l] > 0
        /\ \A l \in M : \A k \in D \ M : s * r[k] <= s * r[l]
    BY ShiftedIs
  <1>5. \A l \in D : f[l] = InUnits(amount[l]) + (IF l \in M THEN s ELSE 0)
    BY RoundedIs
  <1> HIDE DEF f, s, M, r, e
  <1>6. ASSUME NEW l \in D
        PROVE  /\ e[l] \in Int
               /\ Unit * f[l] - amount[l] = e[l]
               /\ Unit * (f[l] - 1) - amount[l] = e[l] - Unit
               /\ Unit * (f[l] + 1) - amount[l] = e[l] + Unit
    <2> DEFINE k == InUnits(amount[l])
               b == IF l \in M THEN s ELSE 0
    <2>1. k \in Int /\ b \in {-1, 0, 1} /\ f[l] = k + b
      BY <1>3, <1>4, <1>5
    <2>2. e[l] = b * Unit - r[l]
      BY <1>1, <1>2
    <2>3. Unit * k \in Int /\ amount[l] = Unit * k + r[l] /\ r[l] \in Int
      BY <1>3
    <2> HIDE DEF k, b
    <2>4. /\ Unit * f[l] = Unit * k + b * Unit
          /\ Unit * (f[l] - 1) = Unit * k + b * Unit - Unit
          /\ Unit * (f[l] + 1) = Unit * k + b * Unit + Unit
          /\ b * Unit \in Int
      BY <1>1, <2>1
    <2> DEFINE u == Unit * k
               v == b * Unit
    <2>5. u \in Int /\ v \in Int
      BY <2>3, <2>4
    <2> HIDE DEF u, v
    <2>6. /\ Unit * f[l] = u + v /\ Unit * (f[l] - 1) = u + v - Unit /\ Unit * (f[l] + 1) = u + v + Unit
          /\ amount[l] = u + r[l] /\ e[l] = v - r[l]
      BY <2>2, <2>3, <2>4 DEF u, v
    <2>7. QED
      BY <1>1, <2>3, <2>5, <2>6
  <1> DEFINE Abs(x) == IF x < 0 THEN -x ELSE x
  <1>7. \A l \in D : /\ Off(amount[l], f[l]) = Abs(e[l])
                     /\ Off(amount[l], f[l] - 1) = Abs(e[l] - Unit)
                     /\ Off(amount[l], f[l] + 1) = Abs(e[l] + Unit)
    BY <1>6 DEF Off
  <1>8. \A l \in D : s * r[l] \in Int /\ (s = 1 => s * r[l] = r[l]) /\ (s = -1 => s * r[l] = -r[l])
    BY <1>3, <1>4
  <1>9. \A l \in D : (s = 1 => s * Unit = Unit) /\ (s = -1 => s * Unit = -Unit)
    BY <1>1
  <1>10. ASSUME NEW l \in D PROVE -Unit < e[l] /\ e[l] < Unit
    <2>1. CASE l \in M /\ s = 1
      BY <1>1, <1>2, <1>3, <1>4, <1>8, <1>9, <2>1
    <2>2. CASE l \in M /\ s = -1
      BY <1>1, <1>2, <1>3, <1>4, <1>8, <1>9, <2>2
    <2>3. CASE l \notin M
      BY <1>1, <1>2, <1>3, <2>3
    <2>4. QED
      BY <1>4, <2>1, <2>2, <2>3
  <1>11. ASSUME NEW l \in D, NEW k \in D, e[l] > 0, e[k] < 0 PROVE e[l] - e[k] <= Unit
    <2>1. CASE s = 1
      <3>1. CASE l \in M /\ k \in D \ M
        <4>1. e[l] = Unit - r[l] /\ e[k] = -r[k]
          BY <1>1, <1>2, <1>3, <1>9, <2>1, <3>1
        <4>2. r[k] <= r[l]
          BY <1>4, <1>8, <2>1, <3>1
        <4>3. QED
          BY <1>1, <1>3, <4>1, <4>2
      <3>2. CASE l \notin M /\ k \notin M
        BY <1>1, <1>2, <1>3, <3>2
      <3>3. CASE k \in M
        <4>1. e[k] = Unit - r[k]
          BY <1>2, <1>9, <2>1, <3>3
        <4>2. QED
          BY <1>1, <1>3, <1>11, <4>1
      <3>4. QED
        BY <3>1, <3>2, <3>3
    <2>2. CASE s = -1
      <3>1. CASE k \in M /\ l \in D \ M
        <4>1. e[k] = -Unit - r[k] /\ e[l] = -r[l]
          BY <1>1, <1>2, <1>3, <1>9, <2>2, <3>1
        <4>2. -r[l] <= -r[k]
          BY <1>4, <1>8, <2>2, <3>1
        <4>3. QED
          BY <1>1, <1>3, <4>1, <4>2
      <3>2. CASE l \notin M /\ k \notin M
        BY <1>1, <1>2, <1>3, <3>2
      <3>3. CASE l \in M
        <4>1. e[l] = -Unit - r[l]
          BY <1>2, <1>9, <2>2, <3>3
        <4>2. QED
          BY <1>1, <1>3, <1>11, <4>1
      <3>4. QED
        BY <3>1, <3>2, <3>3
    <2>3. QED
      BY <1>4, <2>1, <2>2
  <1>12. ASSUME NEW l \in D PROVE Abs(e[l]) < Unit
    BY <1>1, <1>6, <1>10
  <1>13. ASSUME NEW l \in D, NEW k \in D PROVE Abs(e[l]) + Abs(e[k]) <= Abs(e[l] - Unit) + Abs(e[k] + Unit)
    <2>1. e[l] \in Int /\ e[k] \in Int
      BY <1>6
    <2>2. QED
      BY <1>1, <1>10, <1>11, <2>1
  <1>14. QED
    <2> HIDE DEF Abs
    <2>1. QED
      BY <1>7, <1>12, <1>13 DEF f

-----------------------------------------------------------------------------
(* Segments *)

\* A piece of a window lies in it, and nothing is cut inside of it.
LEMMA PieceIs ==
  ASSUME NEW w, IsWindow(w), NEW cuts, cuts \subseteq Int, NEW p \in Pieces(w, cuts)
  PROVE  /\ p = [from |-> p.from, to |-> p.to] /\ IsWindow(p)
         /\ w.from <= p.from /\ p.to <= w.to
         /\ \A c \in cuts : ~(p.from < c /\ c <= p.to)
         /\ \A q \in Pieces(w, cuts) : ~(p.from < q.from /\ q.from <= p.to)
         /\ \A q \in Pieces(w, cuts) : p.from = q.from => p = q
  <1> DEFINE starts == {w.from} \cup {c \in cuts : w.from < c /\ c <= w.to}
             ends(s) == {w.to} \cup {t - 1 : t \in {u \in starts : u > s}}
             piece(s) == [from |-> s, to |-> Min(ends(s))]
  <1>1. Pieces(w, cuts) = {piece(s) : s \in starts}
    BY Zenon DEF Pieces
  <1>2. \A s \in starts : s \in Int /\ w.from <= s /\ s <= w.to
    <2>1. w.from \in Int /\ w.to \in Int /\ w.from <= w.to
      BY DEF IsWindow
    <2>2. \A c \in cuts : c \in Int
      OBVIOUS
    <2>3. ASSUME NEW s \in starts PROVE s \in Int /\ w.from <= s /\ s <= w.to
      <3>1. s = w.from \/ (s \in cuts /\ w.from < s /\ s <= w.to)
        OBVIOUS
      <3> HIDE DEF starts
      <3>2. CASE s = w.from
        BY <2>1, <3>2
      <3>3. CASE s \in cuts /\ w.from < s /\ s <= w.to
        BY <2>1, <2>2, <3>3
      <3>4. QED
        BY <3>1, <3>2, <3>3
    <2> HIDE DEF starts
    <2>4. QED
      BY <2>3
  <1>3. ASSUME NEW s \in starts
        PROVE  Min(ends(s)) \in ends(s) /\ \A x \in ends(s) : Min(ends(s)) <= x
    <2> DEFINE N == {x - s : x \in ends(s)}
    <2>1. \A x \in ends(s) : x \in Int /\ s <= x
      BY <1>2, <1>3 DEF IsWindow
    <2>2. N \subseteq Nat /\ N # {}
      <3>1. \A x \in ends(s) : x - s \in Nat
        BY <1>2, <2>1
      <3>2. w.to \in ends(s)
        OBVIOUS
      <3> HIDE DEF ends
      <3>3. QED
        BY <3>1, <3>2
    <2>3. PICK n \in N : \A o \in N : n <= o
      <3> HIDE DEF N
      <3>1. QED
        BY <2>2, LeastNat
    <2>4. PICK x \in ends(s) : n = x - s
      <3> HIDE DEF ends
      <3>1. QED
        BY <2>3
    <2>5. \A y \in ends(s) : x <= y
      <3>1. \A y \in ends(s) : x - s <= y - s
        <4> HIDE DEF ends
        <4>1. QED
          BY <2>3, <2>4
      <3>2. s \in Int
        BY <1>2
      <3> HIDE DEF ends
      <3>3. QED
        BY <2>1, <2>4, <3>1, <3>2
    <2> HIDE DEF ends
    <2>6. QED
      BY <2>4, <2>5 DEF Min
  <1>4. ASSUME NEW s \in starts
        PROVE  /\ IsWindow(piece(s)) /\ piece(s).from = s /\ piece(s).to = Min(ends(s))
               /\ piece(s).to <= w.to
               /\ \A u \in starts : ~(s < u /\ u <= piece(s).to)
    <2>1. Min(ends(s)) \in ends(s) /\ \A x \in ends(s) : Min(ends(s)) <= x
      BY <1>3
    <2>2. \A x \in ends(s) : x \in Int /\ s <= x
      BY <1>2, <1>4 DEF IsWindow
    <2>3. w.to \in ends(s) /\ \A u \in starts : u > s => u - 1 \in ends(s)
      OBVIOUS
    <2> HIDE DEF ends
    <2>4. QED
      BY <1>2, <2>1, <2>2, <2>3 DEF IsWindow
  <1>5. PICK s \in starts : p = piece(s)
    BY <1>1
  <1>6. p.from = s /\ IsWindow(p) /\ p.to <= w.to /\ p = [from |-> p.from, to |-> p.to]
    BY <1>4, <1>5
  <1>7. ASSUME NEW c \in cuts PROVE ~(p.from < c /\ c <= p.to)
    <2>1. SUFFICES ASSUME p.from < c, c <= p.to PROVE FALSE
      OBVIOUS
    <2>2. c \in starts
      BY <1>2, <1>6, <2>1 DEF IsWindow
    <2> HIDE DEF piece, starts
    <2>3. QED
      BY <1>4, <1>5, <1>6, <2>1, <2>2
  <1>8. ASSUME NEW q \in Pieces(w, cuts)
        PROVE  ~(p.from < q.from /\ q.from <= p.to) /\ (p.from = q.from => p = q)
    <2>1. PICK t \in starts : q = piece(t)
      BY <1>1
    <2>2. q.from = t
      BY <1>4, <2>1
    <2> HIDE DEF piece, starts
    <2>3. QED
      BY <1>4, <1>5, <1>6, <2>1, <2>2
  <1>9. w.from <= p.from
    BY <1>2, <1>6
  <1>10. QED
    BY <1>6, <1>7, <1>8, <1>9

\* Each day of a window is in a piece.
LEMMA PieceOf ==
  ASSUME NEW w, IsWindow(w), NEW cuts, cuts \subseteq Int, NEW d \in DaysOf(w)
  PROVE  \E p \in Pieces(w, cuts) : d \in DaysOf(p)
  <1> DEFINE starts == {w.from} \cup {c \in cuts : w.from < c /\ c <= w.to}
             N == {d - s : s \in {u \in starts : u <= d}}
  <1>1. d \in Int /\ w.from <= d /\ d <= w.to
    BY DEF DaysOf, IsWindow
  <1>2. \A s \in starts : s \in Int
    BY DEF IsWindow
  <1>3. N \subseteq Nat /\ N # {}
    <2>1. w.from \in starts
      OBVIOUS
    <2> HIDE DEF starts
    <2>2. QED
      BY <1>1, <1>2, <2>1
  <1>4. PICK n \in N : \A o \in N : n <= o
    <2> HIDE DEF N
    <2>1. QED
      BY <1>3, LeastNat
  <1>5. PICK s \in starts : s <= d /\ n = d - s
    BY <1>4
  <1>6. \A u \in starts : u <= d => u <= s
    <2> HIDE DEF starts
    <2>1. \A u \in starts : u <= d => d - s <= d - u
      BY <1>4, <1>5
    <2>2. QED
      BY <1>1, <1>2, <1>5, <2>1
  <1> DEFINE p == [from |-> s, to |-> Min({w.to} \cup {t - 1 : t \in {u \in starts : u > s}})]
  <1>7. p \in Pieces(w, cuts)
    <2>1. Pieces(w, cuts) =
            {[from |-> o, to |-> Min({w.to} \cup {t - 1 : t \in {u \in starts : u > o}})] : o \in starts}
      BY Zenon DEF Pieces
    <2> HIDE DEF starts
    <2>2. QED
      BY <2>1
  <1>8. p.from = s
    OBVIOUS
  <1> HIDE DEF p
  <1>9. IsWindow(p)
    BY <1>7, PieceIs
  <1>10. d <= p.to
    <2>1. SUFFICES ASSUME p.to < d PROVE FALSE
      BY <1>1, <1>9 DEF IsWindow
    <2> DEFINE ends == {w.to} \cup {t - 1 : t \in {u \in starts : u > s}}
    <2>2. p.to = Min(ends)
      BY DEF p
    <2>3. \A x \in ends : x \in Int /\ d <= x
      <3>1. w.to \in Int
        BY DEF IsWindow
      <3> HIDE DEF starts
      <3>2. \A t \in starts : t > s => t - 1 \in Int /\ d <= t - 1
        BY <1>1, <1>2, <1>5, <1>6
      <3>3. QED
        BY <1>1, <3>1, <3>2
    <2>4. \E x \in ends : \A y \in ends : x <= y
      <3> DEFINE M == {x - d : x \in ends}
      <3>1. w.to \in ends
        OBVIOUS
      <3> HIDE DEF ends
      <3>2. M \subseteq Nat /\ M # {}
        BY <1>1, <2>3, <3>1
      <3>3. PICK m \in M : \A o \in M : m <= o
        <4> HIDE DEF M
        <4>1. QED
          BY <3>2, LeastNat
      <3>4. PICK x \in ends : m = x - d
        BY <3>3
      <3>5. \A y \in ends : x - d <= y - d
        BY <3>3, <3>4
      <3>6. \A y \in ends : x <= y
        BY <1>1, <2>3, <3>4, <3>5
      <3>7. QED
        BY <3>6
    <2>5. Min(ends) \in ends
      <3> HIDE DEF ends
      <3>1. QED
        BY <2>4 DEF Min
    <2> HIDE DEF ends
    <2>6. QED
      BY <1>1, <2>1, <2>2, <2>3, <2>5
  <1>11. d \in DaysOf(p)
    BY <1>1, <1>5, <1>8, <1>9, <1>10 DEF DaysOf, IsWindow
  <1>12. QED
    BY <1>7, <1>11

\* Rows with a window are windows.
LEMMA WindowsAre ==
  ASSUME NEW S, AreWindows(S)
  PROVE  IsFiniteSet(S) /\ \A w \in S : IsWindow(w)
  BY DEF AreWindows, IsWindow

\* Cuts are days.
LEMMA CutsInt ==
  ASSUME NEW S, \A w \in S : IsWindow(w)
  PROVE  Cuts(S) \subseteq Int
  <1>1. \A w \in S : w.from \in Int /\ w.to + 1 \in Int
    BY DEF IsWindow
  <1>2. QED
    BY <1>1 DEF Cuts

\* What begins or ends is a window.
LEMMA WindowsOf ==
  ASSUME NEW in, WellFormed(in)
  PROVE  /\ \A x \in in.premises : IsWindow(x) /\ \A a \in x.areas : IsWindow(a)
         /\ \A p \in Pool : \A m \in in.pools[p].members : IsWindow(m)
         /\ \A x \in in.occupancy \cup in.policies \cup in.participants \cup in.measurements : IsWindow(x)
         /\ \A e \in Expense : in.expense[e].period # None => IsWindow(in.expense[e].period)
         /\ DOMAIN in.pools = Pool
  <1>1. \A e \in Expense : in.expense[e].period # None => IsWindow(in.expense[e].period)
    BY WindowsAre DEF WellFormed
  <1>2. /\ \A x \in in.premises : IsWindow(x) /\ \A a \in x.areas : IsWindow(a)
        /\ \A p \in Pool : \A m \in in.pools[p].members : IsWindow(m)
    BY WindowsAre DEF WellFormed
  <1>3. \A x \in in.occupancy \cup in.policies \cup in.participants \cup in.measurements : IsWindow(x)
    BY WindowsAre DEF WellFormed
  <1>4. DOMAIN in.pools = Pool
    BY DEF WellFormed
  <1>5. QED
    BY <1>1, <1>2, <1>3, <1>4

\* Boundaries are days.
LEMMA BoundariesInt ==
  ASSUME NEW in, WellFormed(in)
  PROVE  Boundaries(in) \subseteq Int
  <1> DEFINE areas == UNION {x.areas : x \in in.premises}
             members == UNION {in.pools[p].members : p \in DOMAIN in.pools}
  <1>1. \A a \in areas : IsWindow(a)
    BY WindowsOf
  <1>2. \A m \in members : IsWindow(m)
    BY WindowsOf
  <1>3. Cuts(areas) \subseteq Int /\ Cuts(members) \subseteq Int
    <2> HIDE DEF areas, members
    <2>1. QED
      BY <1>1, <1>2, CutsInt
  <1>4. Cuts(in.premises) \subseteq Int /\ Cuts(in.occupancy) \subseteq Int
        /\ Cuts(in.policies) \subseteq Int /\ Cuts(in.participants) \subseteq Int
    <2>1. (\A x \in in.premises : IsWindow(x)) /\ (\A x \in in.occupancy : IsWindow(x))
          /\ (\A x \in in.policies : IsWindow(x)) /\ (\A x \in in.participants : IsWindow(x))
      BY WindowsOf
    <2>2. QED
      BY <2>1, CutsInt
  <1>5. Boundaries(in) = Cuts(in.premises) \cup Cuts(areas) \cup Cuts(in.occupancy)
                         \cup Cuts(in.policies) \cup Cuts(members) \cup Cuts(in.participants)
    BY DEF Boundaries
  <1> HIDE DEF areas, members
  <1>6. QED
    BY <1>3, <1>4, <1>5

\* The period is a window.
LEMMA PeriodIs ==
  /\ IsWindow(Period) /\ MonthStart \subseteq Int /\ DaysOf(Period) = 1 .. Days /\ Days \in Nat \ {0}
  /\ Period.from = 1 /\ Period.to = Days
  BY CalcAssumption DEF Period, IsWindow, DaysOf

\* A segment is a window of the period in which nothing begins or ends.
LEMMA SegmentIs ==
  ASSUME NEW in, WellFormed(in), NEW seg \in Segments(in)
  PROVE  /\ seg \in [from : DaysOf(Period), to : DaysOf(Period)] /\ IsWindow(seg)
         /\ \A b \in Boundaries(in) : ~(seg.from < b /\ b <= seg.to)
  <1>1. PICK month \in Pieces(Period, MonthStart) : seg \in Pieces(month, Boundaries(in))
    BY DEF Segments
  <1>2. IsWindow(month) /\ 1 <= month.from /\ month.to <= Days
    BY <1>1, PeriodIs, PieceIs
  <1>3. Boundaries(in) \subseteq Int
    BY BoundariesInt
  <1>4. /\ seg = [from |-> seg.from, to |-> seg.to] /\ IsWindow(seg)
        /\ month.from <= seg.from /\ seg.to <= month.to
        /\ \A b \in Boundaries(in) : ~(seg.from < b /\ b <= seg.to)
    BY <1>1, <1>2, <1>3, PieceIs
  <1>5. seg.from \in 1 .. Days /\ seg.to \in 1 .. Days
    BY <1>2, <1>4, PeriodIs DEF IsWindow
  <1>6. QED
    BY <1>4, <1>5, PeriodIs

\* There are finitely many segments.
LEMMA SegmentsFinite ==
  ASSUME NEW in, WellFormed(in)
  PROVE  IsFiniteSet(Segments(in))
  <1> DEFINE D == DaysOf(Period)
             S == D \X D
             f == [x \in S |-> [from |-> x[1], to |-> x[2]]]
             T == {f[x] : x \in S}
  <1>1. IsFiniteSet(D)
    BY PeriodIs, FS_Interval
  <1>2. IsFiniteSet(S)
    BY <1>1, FS_Product
  <1>3. IsFiniteSet(T)
    <2>1. DOMAIN f = S /\ f = [x \in S |-> f[x]]
      OBVIOUS
    <2> HIDE DEF f, S
    <2>2. QED
      BY <1>2, <2>1, FiniteImage
  <1>4. ASSUME NEW seg \in Segments(in) PROVE seg \in T
    <2>1. seg \in [from : D, to : D]
      BY SegmentIs
    <2>2. seg.from \in D /\ seg.to \in D /\ seg = [from |-> seg.from, to |-> seg.to]
      BY <2>1
    <2>3. <<seg.from, seg.to>> \in S /\ f[<<seg.from, seg.to>>] = seg
      BY <2>2
    <2> HIDE DEF f, S
    <2>4. QED
      BY <2>3
  <1> HIDE DEF T
  <1>5. QED
    BY <1>3, <1>4, FS_Subset

\* Each day of the period is in one segment, and in no other.
LEMMA SegmentOf ==
  ASSUME NEW in, WellFormed(in), NEW d \in DaysOf(Period)
  PROVE  \E seg \in Segments(in) : d \in DaysOf(seg)
  <1>1. PICK month \in Pieces(Period, MonthStart) : d \in DaysOf(month)
    BY PeriodIs, PieceOf
  <1>2. IsWindow(month)
    BY <1>1, PeriodIs, PieceIs
  <1>3. PICK seg \in Pieces(month, Boundaries(in)) : d \in DaysOf(seg)
    BY <1>1, <1>2, BoundariesInt, PieceOf
  <1>4. QED
    BY <1>1, <1>3 DEF Segments

\* Segments do not overlap: no day is charged twice.
LEMMA SegmentsApart ==
  ASSUME NEW in, WellFormed(in), NEW s \in Segments(in), NEW t \in Segments(in),
         NEW d, d \in DaysOf(s), d \in DaysOf(t)
  PROVE  s = t
  <1>1. PICK m \in Pieces(Period, MonthStart) : s \in Pieces(m, Boundaries(in))
    BY DEF Segments
  <1>2. PICK n \in Pieces(Period, MonthStart) : t \in Pieces(n, Boundaries(in))
    BY DEF Segments
  <1>3. /\ IsWindow(m) /\ ~(m.from < n.from /\ n.from <= m.to) /\ (m.from = n.from => m = n)
        /\ IsWindow(n) /\ ~(n.from < m.from /\ m.from <= n.to)
    BY <1>1, <1>2, PeriodIs, PieceIs
  <1>4. /\ IsWindow(s) /\ m.from <= s.from /\ s.to <= m.to
        /\ IsWindow(t) /\ n.from <= t.from /\ t.to <= n.to
    BY <1>1, <1>2, <1>3, BoundariesInt, PieceIs
  <1>5. d \in Int /\ s.from <= d /\ d <= s.to /\ t.from <= d /\ d <= t.to
    BY <1>4 DEF DaysOf, IsWindow
  <1>6. m = n
    BY <1>3, <1>4, <1>5 DEF IsWindow
  <1>7. /\ ~(s.from < t.from /\ t.from <= s.to) /\ ~(t.from < s.from /\ s.from <= t.to)
        /\ (s.from = t.from => s = t)
    BY <1>1, <1>2, <1>3, <1>6, BoundariesInt, PieceIs
  <1>8. QED
    BY <1>4, <1>5, <1>7 DEF IsWindow

\* What begins and ends at boundaries holds on all days of a segment or on none.
LEMMA Throughout ==
  ASSUME NEW in, WellFormed(in), NEW seg \in Segments(in), NEW w, IsWindow(w),
         w.from \in Boundaries(in), w.to + 1 \in Boundaries(in), NEW d \in DaysOf(seg)
  PROVE  /\ d \in DaysOf(w) <=> Overlap(w, seg) > 0
         /\ d \in DaysOf(w) => DaysOf(seg) \subseteq DaysOf(w) /\ Overlap(w, seg) = Length(seg)
  <1>1. /\ IsWindow(seg) /\ ~(seg.from < w.from /\ w.from <= seg.to)
        /\ ~(seg.from < w.to + 1 /\ w.to + 1 <= seg.to)
    BY SegmentIs
  <1>2. Overlap(w, seg) = Cardinality(DaysOf(w) \cap DaysOf(seg))
    BY DEF Overlap
  <1>3. IsFiniteSet(DaysOf(seg)) /\ Cardinality(DaysOf(seg)) = Length(seg)
    BY <1>1, DaysAre
  <1>4. CASE d \in DaysOf(w)
    <2>1. DaysOf(seg) \subseteq DaysOf(w)
      BY <1>1, <1>4 DEF IsWindow, DaysOf
    <2>2. DaysOf(w) \cap DaysOf(seg) = DaysOf(seg)
      BY <2>1
    <2>3. Length(seg) > 0
      BY <1>1 DEF IsWindow, Length
    <2>4. QED
      BY <1>2, <1>3, <1>4, <2>1, <2>2, <2>3
  <1>5. CASE d \notin DaysOf(w)
    <2>1. DaysOf(w) \cap DaysOf(seg) = {}
      <3>1. SUFFICES ASSUME NEW x \in DaysOf(seg), x \in DaysOf(w) PROVE FALSE
        OBVIOUS
      <3>2. QED
        BY <1>1, <1>5, <3>1 DEF IsWindow, DaysOf
    <2>2. Overlap(w, seg) = 0
      BY <1>2, <2>1, FS_EmptySet
    <2>3. QED
      BY <1>5, <2>2
  <1>6. QED
    BY <1>4, <1>5

-----------------------------------------------------------------------------
(* What pools hold *)

\* What is in force is part of what there is.
LEMMA InForceIs ==
  ASSUME NEW S, IsFiniteSet(S), NEW w
  PROVE  InForce(S, w) \in SUBSET S /\ IsFiniteSet(InForce(S, w))
  <1>1. InForce(S, w) \in SUBSET S
    BY DEF InForce
  <1>2. QED
    BY <1>1, FS_Subset

\* Costs that are spread have an assigned amount and a service period.
LEMMA SpreadIs ==
  ASSUME NEW in, WellFormed(in), NEW p \in Pool, NEW e \in Spread(in, p)
  PROVE  /\ e \in Expense /\ in.assigned[<<e, p>>] \in Nat
         /\ IsWindow(in.expense[e].period)
  <1>1. e \in Expense /\ in.expense[e].period # None
    BY DEF Spread, Assigned
  <1>2. in.assigned \in [Expense \X Pool -> Nat]
    BY DEF WellFormed
  <1>3. QED
    BY <1>1, <1>2, WindowsOf

\* A prorated cost is nothing or more.
LEMMA ProratedNat ==
  ASSUME NEW in, WellFormed(in), NEW p \in Pool, NEW e \in Spread(in, p), NEW seg, IsWindow(seg)
  PROVE  Prorated(in, p, e, seg) \in Nat
  <1> DEFINE period == in.expense[e].period
  <1>1. in.assigned[<<e, p>>] \in Nat /\ IsWindow(period)
    BY SpreadIs
  <1>2. Overlap(period, seg) \in Nat /\ Length(period) \in Nat \ {0}
    BY <1>1, OverlapIs, LengthIs
  <1>3. Prorated(in, p, e, seg) = RoundDiv(in.assigned[<<e, p>>] * Overlap(period, seg), Length(period))
    BY DEF Prorated
  <1> HIDE DEF period
  <1>4. in.assigned[<<e, p>>] * Overlap(period, seg) \in Nat
    BY <1>1, <1>2, Product
  <1>5. QED
    BY <1>2, <1>3, <1>4, RoundDivNat

\* What a pool includes is spread.
LEMMA IncludedIs ==
  ASSUME NEW in, NEW p, NEW seg
  PROVE  Included(in, p, seg) \subseteq Spread(in, p) /\ IsFiniteSet(Included(in, p, seg))
         /\ Included(in, p, seg) \subseteq Expense
  <1>1. Included(in, p, seg) \subseteq Spread(in, p) /\ Spread(in, p) \subseteq Expense
    BY DEF Included, Spread, Assigned
  <1>2. QED
    BY <1>1, LeaseAssumption, FS_Subset

\* A pool holds nothing or more.
LEMMA HoldsNat ==
  ASSUME NEW in, WellFormed(in), NEW p \in Pool, NEW seg, IsWindow(seg),
         NEW S, S \subseteq Included(in, p, seg)
  PROVE  Holds(in, p, S, seg) \in Nat
  <1> DEFINE f == [e \in S |-> Prorated(in, p, e, seg)]
  <1>1. IsFiniteSet(S) /\ S \subseteq Spread(in, p)
    BY IncludedIs, FS_Subset
  <1>2. \A e \in S : f[e] \in Nat
    BY <1>1, ProratedNat
  <1>3. DOMAIN f = S
    OBVIOUS
  <1>4. Holds(in, p, S, seg) = SumFunction(f)
    BY DEF Holds, Sum
  <1> HIDE DEF f
  <1>5. QED
    BY <1>1, <1>2, <1>3, <1>4, TotalNat

\* A part of the expenses is no more than all of them.
LEMMA HoldsMonotone ==
  ASSUME NEW in, WellFormed(in), NEW p \in Pool, NEW seg, IsWindow(seg),
         NEW S, S \subseteq Included(in, p, seg), NEW T, T \subseteq S
  PROVE  Holds(in, p, T, seg) <= Holds(in, p, S, seg)
  <1> DEFINE f == [e \in S |-> Prorated(in, p, e, seg)]
             g == [e \in S |-> IF e \in T THEN Prorated(in, p, e, seg) ELSE 0]
             h == [e \in T |-> Prorated(in, p, e, seg)]
  <1>1. IsFiniteSet(S) /\ S \subseteq Spread(in, p) /\ IsFiniteSet(T)
    BY IncludedIs, FS_Subset
  <1>2. \A e \in S : Prorated(in, p, e, seg) \in Nat
    BY <1>1, ProratedNat
  <1>3. Holds(in, p, S, seg) = SumFunctionOnSet(f, S) /\ Holds(in, p, T, seg) = SumFunctionOnSet(h, T)
    BY DEF Holds, Sum, SumFunction
  <1>4. /\ \A e \in S : f[e] \in Int /\ g[e] \in Int /\ g[e] <= f[e]
        /\ \A e \in S \ T : g[e] = 0
        /\ \A e \in T : g[e] \in Int /\ g[e] = h[e]
    BY <1>2
  <1> HIDE DEF f, g, h
  <1>5. SumFunctionOnSet(g, S) <= SumFunctionOnSet(f, S)
    BY <1>1, <1>4, SumMonotone
  <1>6. SumFunctionOnSet(g, S) = SumFunctionOnSet(g, T)
    BY <1>1, <1>4, SumPart
  <1>7. SumFunctionOnSet(g, T) = SumFunctionOnSet(h, T)
    BY <1>1, <1>4, SumEqual
  <1>8. QED
    BY <1>3, <1>5, <1>6, <1>7

\* A pool has finitely many scopes.
LEMMA ScopesFinite ==
  ASSUME NEW in, WellFormed(in), NEW p \in Pool, NEW seg
  PROVE  IsFiniteSet(Scopes(in, p, seg))
  <1> DEFINE members == InForce(in.pools[p].members, seg)
             f == [m \in members |-> m.scope]
  <1>1. IsFiniteSet(in.pools[p].members) /\ IsFiniteSet(in.pools[p].own)
    BY WindowsAre DEF WellFormed
  <1>2. IsFiniteSet(members)
    BY <1>1, InForceIs
  <1>3. IsFiniteSet({m.scope : m \in members})
    <2>1. DOMAIN f = members /\ f = [m \in members |-> f[m]]
      OBVIOUS
    <2>2. {m.scope : m \in members} = {f[m] : m \in members}
      OBVIOUS
    <2> HIDE DEF f, members
    <2>3. QED
      BY <1>2, <2>1, <2>2, FiniteImage
  <1>4. Scopes(in, p, seg) = IF members # {} THEN {m.scope : m \in members} ELSE in.pools[p].own
    BY DEF Scopes
  <1> HIDE DEF members
  <1>5. QED
    BY <1>1, <1>3, <1>4

\* Measurements in force in a segment.
LEMMA MeasuredIs ==
  ASSUME NEW in, WellFormed(in), NEW s, NEW seg, IsWindow(seg)
  PROVE  /\ IsFiniteSet(Measured(in, s, seg)) /\ Measured(in, s, seg) \subseteq in.measurements
         /\ \A m \in Measured(in, s, seg) : IsWindow(m) /\ m.area \in Nat /\ Overlap(m, seg) \in Nat
  <1>1. IsFiniteSet(in.measurements) /\ \A m \in in.measurements : IsWindow(m) /\ m.area \in Nat
    BY WindowsAre DEF WellFormed
  <1>2. IsFiniteSet({m \in in.measurements : m.scope = s})
    BY <1>1, FS_Subset
  <1>3. Measured(in, s, seg) \in SUBSET {m \in in.measurements : m.scope = s}
        /\ IsFiniteSet(Measured(in, s, seg))
    BY <1>2, InForceIs DEF Measured
  <1>4. QED
    BY <1>1, <1>3, OverlapIs

\* The days a scope is measured.
LEMMA CoveredNat ==
  ASSUME NEW in, WellFormed(in), NEW s, NEW seg, IsWindow(seg)
  PROVE  Covered(in, s, seg) \in Nat
  <1> DEFINE S == Measured(in, s, seg)
             f == [m \in S |-> Overlap(m, seg)]
  <1>1. IsFiniteSet(S) /\ \A m \in S : f[m] \in Nat
    BY MeasuredIs
  <1>2. DOMAIN f = S
    OBVIOUS
  <1>3. Covered(in, s, seg) = SumFunction(f)
    BY DEF Covered, Sum
  <1> HIDE DEF f, S
  <1>4. QED
    BY <1>1, <1>2, <1>3, TotalNat

\* An area is nothing or more.
LEMMA AreaNat ==
  ASSUME NEW in, WellFormed(in), NEW s, NEW seg, IsWindow(seg)
  PROVE  AreaOf(in, s, seg) \in Nat
  <1> DEFINE S == Measured(in, s, seg)
             f == [m \in S |-> m.area * Overlap(m, seg)]
             covered == Covered(in, s, seg)
  <1>1. IsFiniteSet(S) /\ \A m \in S : f[m] \in Nat
    BY MeasuredIs, Product
  <1>2. DOMAIN f = S
    OBVIOUS
  <1>3. AreaOf(in, s, seg) = IF covered = 0 THEN 0 ELSE RoundDiv(SumFunction(f), covered)
    BY DEF AreaOf, Sum
  <1>4. covered \in Nat
    BY CoveredNat
  <1> HIDE DEF f, S, covered
  <1>5. SumFunction(f) \in Nat
    BY <1>1, <1>2, TotalNat
  <1>6. QED
    BY <1>3, <1>4, <1>5, RoundDivNat

\* So is the denominator.
LEMMA DenominatorNat ==
  ASSUME NEW in, WellFormed(in), NEW p \in Pool, NEW seg, IsWindow(seg)
  PROVE  Denominator(in, p, seg) \in Nat
  <1> DEFINE S == Scopes(in, p, seg)
             f == [s \in S |-> AreaOf(in, s, seg)]
  <1>1. IsFiniteSet(S) /\ \A s \in S : f[s] \in Nat
    BY ScopesFinite, AreaNat
  <1>2. DOMAIN f = S
    OBVIOUS
  <1>3. Denominator(in, p, seg) = IF Included(in, p, seg) = {} THEN 0 ELSE SumFunction(f)
    BY DEF Denominator, Sum
  <1> HIDE DEF f, S
  <1>4. SumFunction(f) \in Nat
    BY <1>1, <1>2, TotalNat
  <1>5. QED
    BY <1>3, <1>4

\* So is what is occupied.
LEMMA OccupiedNat ==
  ASSUME NEW in, WellFormed(in), NEW p \in Pool, NEW seg, IsWindow(seg)
  PROVE  Occupied(in, p, seg) \in Nat
  <1> DEFINE S == {o \in in.occupancy : o.scope \in Scopes(in, p, seg)}
             f == [o \in S |-> o.area * Overlap(o, seg)]
  <1>1. IsFiniteSet(in.occupancy) /\ \A o \in in.occupancy : IsWindow(o) /\ o.area \in Nat
    BY WindowsAre DEF WellFormed
  <1>2. IsFiniteSet(S)
    BY <1>1, FS_Subset
  <1>3. \A o \in S : f[o] \in Nat
    BY <1>1, OverlapIs, Product
  <1>4. DOMAIN f = S
    OBVIOUS
  <1>5. Occupied(in, p, seg) = RoundDiv(SumFunction(f), Length(seg))
    BY DEF Occupied, Sum
  <1>6. Length(seg) \in Nat \ {0}
    BY LengthIs
  <1> HIDE DEF f, S
  <1>7. SumFunction(f) \in Nat
    BY <1>2, <1>3, <1>4, TotalNat
  <1>8. QED
    BY <1>5, <1>6, <1>7, RoundDivNat

\* Amounts are integers, and naturals where no term is negative.
LEMMA MoneyIs ==
  ASSUME NEW in
  PROVE  Nat \subseteq Money(in) /\ Money(in) \subseteq Int /\ (NoneNegative(in) => Money(in) = Nat)
  BY DEF Money

\* Sums, products and fractions of amounts are amounts.
LEMMA MoneyPlus ==
  ASSUME NEW in, NEW a \in Money(in), NEW b \in Money(in)
  PROVE  a + b \in Money(in)
  BY DEF Money

\* Products of amounts.
LEMMA MoneyTimes ==
  ASSUME NEW in, NEW a \in Money(in), NEW b \in Money(in)
  PROVE  a * b \in Money(in)
  <1>1. CASE NoneNegative(in)
    BY <1>1, Product DEF Money
  <1>2. CASE ~NoneNegative(in)
    BY <1>2 DEF Money
  <1>3. QED
    BY <1>1, <1>2

\* Fractions of amounts.
LEMMA MoneyRound ==
  ASSUME NEW in, NEW n \in Money(in), NEW d \in Nat \ {0}
  PROVE  RoundDiv(n, d) \in Money(in)
  <1>1. CASE NoneNegative(in)
    BY <1>1, RoundDivNat DEF Money
  <1>2. CASE ~NoneNegative(in)
    BY <1>2, RoundDivIs DEF Money
  <1>3. QED
    BY <1>1, <1>2

\* Totals of amounts.
LEMMA MoneyTotal ==
  ASSUME NEW in, NEW f, NEW S, IsFiniteSet(S), DOMAIN f = S, \A x \in S : f[x] \in Money(in)
  PROVE  SumFunction(f) \in Money(in)
  <1>1. CASE NoneNegative(in)
    BY <1>1, TotalNat DEF Money
  <1>2. CASE ~NoneNegative(in)
    BY <1>2, SumInt DEF Money, SumFunction
  <1>3. QED
    BY <1>1, <1>2

\* A grossed up amount is an amount.
LEMMA GrossedUpIs ==
  ASSUME NEW in, NEW variable \in Nat, NEW target \in Money(in) \cup {None}, NEW occupied \in Nat, NEW area \in Nat
  PROVE  GrossedUp(variable, target, occupied, area) \in Money(in)
  <1>1. variable \in Money(in) /\ area \in Money(in)
    BY MoneyIs
  <1>2. CASE target = None
    BY <1>1, <1>2 DEF GrossedUp
  <1>3. CASE target # None
    <2>1. target \in Money(in)
      BY <1>3
    <2>2. variable * target \in Money(in)
      BY <1>1, <2>1, MoneyTimes
    <2>3. variable * target * area \in Money(in)
      BY <1>1, <2>2, MoneyTimes
    <2>4. RoundDiv(variable * target, 5) \in Money(in)
      <3>1. 5 \in Nat \ {0}
        OBVIOUS
      <3>2. QED
        BY <2>2, <3>1, MoneyRound
    <2>5. area > 0 /\ 20 * occupied >= area => RoundDiv(variable * target * area, 100 * occupied) \in Money(in)
      <3>1. SUFFICES ASSUME area > 0, 20 * occupied >= area
                     PROVE  RoundDiv(variable * target * area, 100 * occupied) \in Money(in)
        OBVIOUS
      <3>2. 100 * occupied \in Nat \ {0}
        BY <3>1
      <3>3. QED
        BY <2>3, <3>2, MoneyRound
    <2>6. QED
      BY <1>1, <1>3, <2>4, <2>5 DEF GrossedUp
  <1>4. QED
    BY <1>2, <1>3

\* So is an adjusted pool.
LEMMA AdjustedPoolIs ==
  ASSUME NEW in, WellFormed(in), NEW p \in Pool, NEW seg, IsWindow(seg), NEW target \in Money(in) \cup {None}
  PROVE  AdjustedPool(in, p, seg, target) \in Money(in)
  <1> DEFINE S == Included(in, p, seg)
             variable == Holds(in, p, OfKind(in, S, {"variable"}), seg)
             other == Holds(in, p, OfKind(in, S, {"fixed", "semi_variable"}), seg)
             gross == GrossedUp(variable, target, Occupied(in, p, seg), Denominator(in, p, seg))
  <1>1. OfKind(in, S, {"variable"}) \subseteq S /\ OfKind(in, S, {"fixed", "semi_variable"}) \subseteq S
    BY DEF OfKind
  <1>2. variable \in Nat /\ other \in Nat
    BY <1>1, HoldsNat
  <1>3. gross \in Money(in)
    <2> HIDE DEF variable
    <2>1. QED
      BY <1>2, OccupiedNat, DenominatorNat, GrossedUpIs
  <1>4. AdjustedPool(in, p, seg, target) = other + gross
    BY DEF AdjustedPool
  <1> HIDE DEF other, gross
  <1>5. other \in Money(in)
    BY <1>2, MoneyIs
  <1>6. QED
    BY <1>3, <1>4, <1>5, MoneyPlus

\* What a pool holds of a category is nothing if it holds nothing.
LEMMA PartIs ==
  ASSUME NEW in, WellFormed(in), NEW p \in Pool, NEW seg, IsWindow(seg), NEW c, NEW target \in Money(in) \cup {None}
  PROVE  /\ Part(in, p, seg, c, target).num \in Money(in)
         /\ Part(in, p, seg, c, target).den \in Nat \ {0}
         /\ Holds(in, p, {e \in Included(in, p, seg) : in.expense[e].cat = c}, seg) = 0
               => Part(in, p, seg, c, target).num = 0
  <1> DEFINE S == Included(in, p, seg)
             mine == {e \in S : in.expense[e].cat = c}
             a == AdjustedPool(in, p, seg, target)
             h == Holds(in, p, mine, seg)
             t == Holds(in, p, S, seg)
  <1>1. a \in Money(in) /\ h \in Nat /\ t \in Nat
    BY AdjustedPoolIs, HoldsNat
  <1>2. /\ Part(in, p, seg, c, target).num = a * h
        /\ Part(in, p, seg, c, target).den = Max({1, t})
    BY DEF Part
  <1>3. h = Holds(in, p, {e \in Included(in, p, seg) : in.expense[e].cat = c}, seg)
    OBVIOUS
  <1> HIDE DEF a, h, t
  <1>4. Max({1, t}) \in Nat \ {0}
    <2>1. \E x \in {1, t} : \A y \in {1, t} : x >= y
      BY <1>1
    <2>2. Max({1, t}) \in {1, t} /\ \A y \in {1, t} : Max({1, t}) >= y
      BY <2>1 DEF Max
    <2>3. QED
      BY <1>1, <2>2
  <1>5. a * h \in Money(in) /\ a * 0 = 0
    BY <1>1, MoneyIs, MoneyTimes
  <1>6. QED
    BY <1>2, <1>3, <1>4, <1>5

\* The elements of finitely many finite sets are finitely many.
LEMMA FiniteUnion ==
  ASSUME NEW S, IsFiniteSet(S), NEW F, F = [x \in S |-> F[x]], \A x \in S : IsFiniteSet(F[x])
  PROVE  IsFiniteSet(UNION {F[x] : x \in S})
  <1> DEFINE T == {F[x] : x \in S}
  <1>1. DOMAIN F = S
    OBVIOUS
  <1>2. IsFiniteSet(T)
    BY <1>1, FiniteImage
  <1>3. \A A \in T : IsFiniteSet(A)
    OBVIOUS
  <1> HIDE DEF T
  <1>4. IsFiniteSet(UNION T)
    BY <1>2, <1>3, FS_UNION
  <1>5. QED
    BY <1>4 DEF T

\* One of finitely many things is the least.
LEMMA LeastOf ==
  ASSUME NEW S, IsFiniteSet(S), S # {}, NEW f \in [S -> Int]
  PROVE  \E x \in S : \A y \in S : f[x] <= f[y]
  <1> DEFINE Has1(T) == T = {} \/ \E x \in T : \A y \in T : f[x] <= f[y]
             P == [T \in SUBSET S |-> Has1(T)]
  <1>1. P \in [SUBSET S -> BOOLEAN] /\ P[{}]
    OBVIOUS
  <1>2. ASSUME NEW T \in SUBSET S, NEW x \in S \ T, P[T]
        PROVE  P[T \cup {x}]
    <2>1. T = {} \/ \E u \in T : \A y \in T : f[u] <= f[y]
      BY <1>2
    <2>2. f[x] \in Int /\ \A y \in T : f[y] \in Int
      OBVIOUS
    <2>3. CASE T = {}
      <3>1. \A y \in T \cup {x} : f[x] <= f[y]
        BY <2>2, <2>3
      <3>2. Has1(T \cup {x})
        BY <3>1
      <3>3. T \cup {x} \in SUBSET S
        OBVIOUS
      <3> HIDE DEF Has1
      <3>4. QED
        BY <3>2, <3>3
    <2>4. ASSUME NEW u \in T, \A y \in T : f[u] <= f[y]
          PROVE  P[T \cup {x}]
      <3>1. CASE f[u] <= f[x]
        <4>1. \A y \in T \cup {x} : f[u] <= f[y]
          BY <2>2, <2>4, <3>1
        <4>2. Has1(T \cup {x})
          BY <4>1
        <4>3. T \cup {x} \in SUBSET S
          OBVIOUS
        <4> HIDE DEF Has1
        <4>4. QED
          BY <4>2, <4>3
      <3>2. CASE ~(f[u] <= f[x])
        <4>1. \A y \in T \cup {x} : f[x] <= f[y]
          BY <2>2, <2>4, <3>2
        <4>2. Has1(T \cup {x})
          BY <4>1
        <4>3. T \cup {x} \in SUBSET S
          OBVIOUS
        <4> HIDE DEF Has1
        <4>4. QED
          BY <4>2, <4>3
      <3>3. QED
        BY <3>1, <3>2
    <2>5. QED
      BY <2>1, <2>3, <2>4
  <1>3. \A T \in SUBSET S : P[T]
    <2> HIDE DEF P, Has1
    <2>1. QED
      BY <1>1, <1>2, SetInduct
  <1>4. QED
    BY <1>3

-----------------------------------------------------------------------------
(* Powers *)

IsPower(b, n, pow) == pow = [k \in 0 .. n |-> IF k = 0 THEN 1 ELSE b * pow[k - 1]]

\* Powers exist, and stay in a set that multiplication does not leave.
LEMMA PowerExists ==
  ASSUME NEW b \in Int, NEW S \in SUBSET Int, 1 \in S, \A x \in S : b * x \in S
  PROVE  \A n \in Nat : \E pow \in [0 .. n -> S] : IsPower(b, n, pow)
  <1> DEFINE Ex(n) == \E pow \in [0 .. n -> S] : IsPower(b, n, pow)
             P == [n \in Nat |-> Ex(n)]
  <1>1. P \in [Nat -> BOOLEAN]
    OBVIOUS
  <1>2. P[0]
    <2> DEFINE one == [k \in 0 .. 0 |-> 1]
    <2>1. one \in [0 .. 0 -> S] /\ IsPower(b, 0, one)
      BY DEF IsPower
    <2> HIDE DEF one
    <2>2. Ex(0)
      BY <2>1
    <2>3. QED
      BY <2>2
  <1>3. ASSUME NEW n \in Nat, P[n] PROVE P[n + 1]
    <2>1. PICK f \in [0 .. n -> S] : IsPower(b, n, f)
      BY <1>3
    <2> DEFINE g == [k \in 0 .. n + 1 |-> IF k = n + 1 THEN b * f[n] ELSE f[k]]
    <2>2. f[n] \in S /\ b * f[n] \in S
      <3>1. n \in 0 .. n
        OBVIOUS
      <3>2. f[n] \in S
        BY <3>1
      <3>3. QED
        BY <3>2
    <2>3. g \in [0 .. n + 1 -> S]
      BY <2>2
    <2>4. ASSUME NEW k \in 0 .. n + 1 PROVE g[k] = IF k = 0 THEN 1 ELSE b * g[k - 1]
      <3>1. CASE k = n + 1
        BY <3>1
      <3>2. CASE k # n + 1
        <4>1. k \in 0 .. n /\ g[k] = f[k] /\ (k # 0 => g[k - 1] = f[k - 1])
          BY <3>2
        <4>2. f[k] = IF k = 0 THEN 1 ELSE b * f[k - 1]
          BY <2>1, <4>1 DEF IsPower
        <4> HIDE DEF g
        <4>3. QED
          BY <4>1, <4>2
      <3>3. QED
        BY <3>1, <3>2
    <2>5. IsPower(b, n + 1, g)
      <3>1. DOMAIN g = 0 .. n + 1 /\ g = [k \in 0 .. n + 1 |-> g[k]]
        OBVIOUS
      <3> HIDE DEF g
      <3>2. QED
        BY <2>4, <3>1 DEF IsPower
    <2> HIDE DEF g
    <2>6. Ex(n + 1)
      BY <2>3, <2>5
    <2>7. QED
      BY <2>6
  <1>4. \A n \in Nat : P[n]
    <2> HIDE DEF P
    <2>1. QED
      BY <1>1, <1>2, <1>3, Induct
  <1>5. QED
    BY <1>4

\* What holds of 1 and is kept by multiplication holds of Math.pow.
LEMMA PowerIs ==
  ASSUME NEW b \in Int, NEW S \in SUBSET Int, 1 \in S, \A x \in S : b * x \in S, NEW n \in Nat
  PROVE  Power(b, n) \in S
  <1> DEFINE pow == CHOOSE pow : pow = [k \in 0 .. n |-> IF k = 0 THEN 1 ELSE b * pow[k - 1]]
  <1>1. Power(b, n) = pow[n]
    BY Zenon DEF Power
  <1>2. \E f : f = [k \in 0 .. n |-> IF k = 0 THEN 1 ELSE b * f[k - 1]]
    <2>1. \E f \in [0 .. n -> S] : IsPower(b, n, f)
      BY PowerExists
    <2>2. QED
      BY <2>1 DEF IsPower
  <1>3. IsPower(b, n, pow)
    BY <1>2, Zenon DEF IsPower
  <1> HIDE DEF pow
  <1>4. PICK f \in [0 .. n -> S] : IsPower(b, n, f)
    BY PowerExists
  <1> DEFINE Q == [k \in Nat |-> \A j \in 0 .. n : j = k => pow[j] = f[j]]
  <1>5. Q \in [Nat -> BOOLEAN] /\ Q[0]
    BY <1>3, <1>4 DEF IsPower
  <1>6. ASSUME NEW k \in Nat, Q[k] PROVE Q[k + 1]
    <2>1. SUFFICES ASSUME k + 1 <= n PROVE pow[k + 1] = f[k + 1]
      BY <1>6
    <2>2. k + 1 \in 0 .. n /\ k + 1 # 0 /\ (k + 1) - 1 = k
      BY <2>1
    <2>3. pow[k] = f[k]
      <3>1. k \in 0 .. n
        BY <2>1
      <3>2. QED
        BY <1>6, <3>1
    <2>4. pow[k + 1] = b * pow[k] /\ f[k + 1] = b * f[k]
      BY <1>3, <1>4, <2>2 DEF IsPower
    <2>5. QED
      BY <2>3, <2>4
  <1>7. \A k \in Nat : Q[k]
    <2> HIDE DEF Q
    <2>1. QED
      BY <1>5, <1>6, Induct
  <1>8. pow[n] = f[n]
    <2>1. n \in 0 .. n
      OBVIOUS
    <2>2. QED
      BY <1>7, <2>1
  <1>9. QED
    BY <1>1, <1>4, <1>8

\* Powers of integers.
LEMMA PowerInt ==
  ASSUME NEW b \in Int, NEW n \in Nat
  PROVE  Power(b, n) \in Int
  <1>1. \A x \in Int : b * x \in Int
    OBVIOUS
  <1>2. Int \in SUBSET Int /\ 1 \in Int
    OBVIOUS
  <1>3. QED
    BY <1>1, <1>2, PowerIs

\* Powers of positive numbers.
LEMMA PowerNat ==
  ASSUME NEW b \in Nat \ {0}, NEW n \in Nat
  PROVE  Power(b, n) \in Nat \ {0}
  <1>1. \A x \in Nat \ {0} : b * x \in Nat \ {0}
    OBVIOUS
  <1>2. 1 \in Nat \ {0} /\ Nat \ {0} \in SUBSET Int /\ b \in Int
    OBVIOUS
  <1>3. QED
    BY <1>1, <1>2, PowerIs

-----------------------------------------------------------------------------
(* What leases are charged *)

\* What the terms of a policy are.
LEMMA PolicyIs ==
  ASSUME NEW in, WellFormed(in), NEW q \in in.policies
  PROVE  /\ q.lease \in Lease /\ IsWindow(q) /\ AreTerms(q.terms)
         /\ \A p \in Pool : Target(in, q, p) \in Money(in) \cup {None}
         /\ \A t \in {"percent", "direct", "target", "stop", "fee"} : Has(q, t) => q.terms[t] \in Money(in)
         /\ Has(q, "base") /\ q.terms.base # None => q.terms.base \in Money(in)
         /\ Has(q, "cap") => /\ q.terms.cap.amount \in Money(in) \cup {None}
                             /\ q.terms.cap.percent \in Money(in)
         /\ Has(q, "direct") => ~Has(q, "cap")
  <1>1. q.lease \in Lease /\ AreTerms(q.terms)
    BY DEF WellFormed
  <1>2. NoneNegative(in) =>
          /\ \A t \in {"percent", "direct", "target", "stop", "fee"} : Has(q, t) => q.terms[t] >= 0
          /\ Has(q, "base") /\ q.terms.base # None => q.terms.base >= 0
          /\ Has(q, "cap") => /\ q.terms.cap.amount = None \/ q.terms.cap.amount >= 0
                              /\ q.terms.cap.percent >= 0
    BY DEF NoneNegative, Has
  <1>3. ASSUME NEW t \in {"percent", "direct", "target", "stop", "fee"}, Has(q, t)
        PROVE  q.terms[t] \in Money(in)
    <2>1. q.terms[t] \in Int
      BY <1>1, <1>3 DEF AreTerms, Has
    <2>2. QED
      BY <1>2, <1>3, <2>1 DEF Money
  <1>4. Has(q, "base") /\ q.terms.base # None => q.terms.base \in Money(in)
    <2>1. Has(q, "base") => q.terms.base \in Int \cup {None}
      BY <1>1 DEF AreTerms, Has
    <2>2. QED
      BY <1>2, <2>1 DEF Money
  <1>5. Has(q, "cap") => q.terms.cap.amount \in Money(in) \cup {None} /\ q.terms.cap.percent \in Money(in)
    <2>1. Has(q, "cap") => q.terms.cap.amount \in Int \cup {None} /\ q.terms.cap.percent \in Int
      BY <1>1 DEF AreTerms, Has
    <2>2. QED
      BY <1>2, <2>1 DEF Money
  <1>6. \A p \in Pool : Target(in, q, p) \in Money(in) \cup {None}
    <2>1. \A p \in Pool : in.pools[p].target \in Money(in) \cup {None}
      <3>1. \A p \in Pool : in.pools[p].target \in Int \cup {None}
        BY DEF WellFormed
      <3>2. NoneNegative(in) => \A p \in Pool : in.pools[p].target = None \/ in.pools[p].target >= 0
        BY DEF NoneNegative
      <3>3. QED
        BY <3>1, <3>2 DEF Money
    <2>2. Has(q, "target") => q.terms.target \in Money(in)
      BY <1>3
    <2>3. QED
      BY <2>1, <2>2, MoneyIs DEF Target
  <1>7. Has(q, "direct") => ~Has(q, "cap")
    BY <1>1 DEF AreTerms, Has
  <1>8. IsWindow(q)
    BY WindowsOf
  <1>9. QED
    BY <1>1, <1>3, <1>4, <1>5, <1>6, <1>7, <1>8

\* A prorated amount is an amount.
LEMMA YearlyIs ==
  ASSUME NEW in, NEW amount \in Money(in), NEW seg, IsWindow(seg)
  PROVE  Yearly(amount, seg) \in Money(in)
  <1>1. Length(seg) \in Nat \ {0} /\ Days \in Nat \ {0}
    BY LengthIs, CalcAssumption
  <1>2. Length(seg) \in Money(in)
    BY <1>1, MoneyIs
  <1>3. amount * Length(seg) \in Money(in)
    BY <1>2, MoneyTimes
  <1>4. QED
    BY <1>1, <1>3, MoneyRound DEF Yearly

\* The areas of a tenant's premises in a segment.
TenantAreas(in, l, p, seg) ==
    UNION {{[x |-> x, area |-> a] : a \in {b \in InForce(x.areas, seg) : b.area # None}}
              : x \in PremisesIn(in, l, p, seg)}

\* They are finitely many.
LEMMA TenantAreasAre ==
  ASSUME NEW in, WellFormed(in), NEW l, NEW p, NEW seg, IsWindow(seg)
  PROVE  /\ IsFiniteSet(TenantAreas(in, l, p, seg))
         /\ \A r \in TenantAreas(in, l, p, seg) : IsWindow(r.area) /\ r.area.area \in Nat
  <1> DEFINE P == PremisesIn(in, l, p, seg)
             of(x) == {[x |-> x, area |-> a] : a \in {b \in InForce(x.areas, seg) : b.area # None}}
             F == [x \in P |-> of(x)]
             S == UNION {of(x) : x \in P}
  <1>1. P \subseteq in.premises /\ IsFiniteSet(P)
    <2>1. IsFiniteSet(in.premises)
      BY WindowsAre DEF WellFormed
    <2>2. P \subseteq in.premises
      BY DEF PremisesIn, InForce
    <2>3. QED
      BY <2>1, <2>2, FS_Subset
  <1>2. \A x \in in.premises : IsFiniteSet(x.areas) /\ \A a \in x.areas : IsWindow(a) /\ a.area \in Nat \cup {None}
    BY WindowsAre DEF WellFormed
  <1>3. ASSUME NEW x \in P
        PROVE  /\ IsFiniteSet(of(x))
               /\ \A r \in of(x) : IsWindow(r.area) /\ r.area.area \in Nat
    <2> DEFINE A == {b \in InForce(x.areas, seg) : b.area # None}
               h == [a \in A |-> [x |-> x, area |-> a]]
    <2>1. A \subseteq x.areas /\ IsFiniteSet(x.areas)
      BY <1>1, <1>2 DEF InForce
    <2>2. IsFiniteSet(A)
      BY <2>1, FS_Subset
    <2>3. \A a \in A : IsWindow(a) /\ a.area \in Nat
      BY <1>1, <1>2, <2>1
    <2>4. of(x) = {h[a] : a \in A}
      OBVIOUS
    <2>5. DOMAIN h = A /\ h = [a \in A |-> h[a]]
      OBVIOUS
    <2>6. \A a \in A : h[a].area = a
      OBVIOUS
    <2> HIDE DEF h, A, of
    <2>7. IsFiniteSet({h[a] : a \in A})
      BY <2>2, <2>5, FiniteImage
    <2>8. QED
      BY <2>3, <2>4, <2>6, <2>7
  <1>4. IsFiniteSet(S) /\ \A r \in S : IsWindow(r.area) /\ r.area.area \in Nat
    <2>1. F = [x \in P |-> F[x]] /\ \A x \in P : F[x] = of(x)
      OBVIOUS
    <2>2. \A x \in P : IsFiniteSet(F[x])
      BY <1>3, <2>1
    <2>3. S = UNION {F[x] : x \in P}
      BY <2>1
    <2>4. \A r \in S : \E x \in P : r \in of(x)
      OBVIOUS
    <2> HIDE DEF F, P, S, of
    <2>5. IsFiniteSet(S)
      BY <1>1, <2>1, <2>2, <2>3, FiniteUnion
    <2>6. QED
      BY <1>3, <2>4, <2>5
  <1>5. TenantAreas(in, l, p, seg) = S
    BY Zenon DEF TenantAreas
  <1> HIDE DEF S
  <1>6. QED
    BY <1>4, <1>5

\* The area of a tenant is nothing or more.
LEMMA NumeratorNat ==
  ASSUME NEW in, WellFormed(in), NEW l, NEW p, NEW seg, IsWindow(seg)
  PROVE  Numerator(in, l, p, seg) \in Nat
  <1> DEFINE S == TenantAreas(in, l, p, seg)
             f == [r \in S |-> RoundDiv(r.area.area * Overlap(r.area, seg), Length(seg))]
  <1>1. IsFiniteSet(S) /\ \A r \in S : IsWindow(r.area) /\ r.area.area \in Nat
    BY TenantAreasAre
  <1>2. Numerator(in, l, p, seg) = SumFunction(f)
    BY Zenon DEF Numerator, Sum, TenantAreas
  <1>3. DOMAIN f = S
    OBVIOUS
  <1>4. \A r \in S : f[r] = RoundDiv(r.area.area * Overlap(r.area, seg), Length(seg))
    OBVIOUS
  <1> HIDE DEF f, S
  <1>5. \A r \in S : f[r] \in Nat
    <2>1. SUFFICES ASSUME NEW r \in S PROVE f[r] \in Nat
      OBVIOUS
    <2>2. IsWindow(r.area) /\ r.area.area \in Nat
      BY <1>1
    <2>3. Overlap(r.area, seg) \in Nat /\ Length(seg) \in Nat \ {0}
      BY <2>2, OverlapIs, LengthIs
    <2>4. r.area.area * Overlap(r.area, seg) \in Nat
      BY <2>2, <2>3, Product
    <2>5. QED
      BY <1>4, <2>3, <2>4, RoundDivNat
  <1>6. QED
    BY <1>1, <1>2, <1>3, <1>5, TotalNat

\* A share is an amount, of nothing it is nothing.
LEMMA ShareIs ==
  ASSUME NEW in, WellFormed(in), NEW q \in in.policies, NEW p \in Pool, NEW seg, IsWindow(seg)
  PROVE  /\ Share(in, q, p, seg) \in Money(in)
         /\ Part(in, p, seg, q.cat, Target(in, q, p)).num = 0 => Share(in, q, p, seg) = 0
  <1> DEFINE part == Part(in, p, seg, q.cat, Target(in, q, p))
             n == part.num
             d == part.den
             area == Denominator(in, p, seg)
             mine == Numerator(in, q.lease, p, seg)
             pct == q.terms.percent
  <1>1. n \in Money(in) /\ d \in Nat \ {0} /\ area \in Nat /\ mine \in Nat
    BY PolicyIs, PartIs, DenominatorNat, NumeratorNat
  <1>2. Has(q, "percent") => pct \in Money(in)
    BY PolicyIs
  <1>3. Share(in, q, p, seg) = IF Has(q, "percent") THEN RoundDiv(n * pct, d * 100)
                               ELSE IF area = 0 THEN 0 ELSE RoundDiv(n * mine, d * area)
    BY DEF Share
  <1> HIDE DEF n, d, area, mine, pct
  <1>4. ASSUME NEW b \in Nat \ {0} PROVE RoundDiv(0, b) = 0
    <2>1. RoundDiv(0, b) \in Nat /\ RoundDiv(0, b) <= 0
      <3>1. 0 <= b * 0 /\ 0 \in Nat /\ 0 \in Int
        OBVIOUS
      <3>2. QED
        BY <3>1, RoundDivNat, RoundDivAtMost
    <2>2. QED
      BY <2>1
  <1>5. CASE Has(q, "percent")
    <2>1. n * pct \in Money(in) /\ d * 100 \in Nat \ {0} /\ 0 * pct = 0
      BY <1>1, <1>2, <1>5, MoneyTimes, MoneyIs
    <2>2. RoundDiv(n * pct, d * 100) \in Money(in)
      BY <2>1, MoneyRound
    <2>3. n = 0 => RoundDiv(n * pct, d * 100) = 0
      BY <1>4, <2>1
    <2>4. QED
      BY <1>3, <1>5, <2>2, <2>3 DEF n
  <1>6. CASE ~Has(q, "percent") /\ area # 0
    <2>1. n * mine \in Money(in) /\ 0 * mine = 0
      BY <1>1, MoneyTimes, MoneyIs
    <2>2. d * area \in Nat \ {0}
      BY <1>1, <1>6
    <2>3. RoundDiv(n * mine, d * area) \in Money(in)
      BY <2>1, <2>2, MoneyRound
    <2>4. n = 0 => RoundDiv(n * mine, d * area) = 0
      BY <1>4, <2>1, <2>2
    <2>5. QED
      BY <1>3, <1>6, <2>3, <2>4 DEF n
  <1>7. CASE ~Has(q, "percent") /\ area = 0
    BY <1>3, <1>7, MoneyIs
  <1>8. QED
    BY <1>5, <1>6, <1>7

\* What is left after a deduction is not negative, and nothing of nothing.
LEMMA AfterBaseIs ==
  ASSUME NEW in, WellFormed(in), NEW q \in in.policies, NEW p \in Pool, NEW seg, IsWindow(seg), NEW x \in Money(in)
  PROVE  /\ AfterBase(in, q, p, seg, x) \in Money(in)
         /\ NoneNegative(in) /\ x = 0 => AfterBase(in, q, p, seg, x) = 0
  <1> DEFINE area == Denominator(in, p, seg)
             mine == Numerator(in, q.lease, p, seg)
             base == Yearly(q.terms.base, seg)
             part == IF area = 0 THEN 0 ELSE RoundDiv(base * mine, area)
  <1>1. CASE ~Has(q, "base") \/ q.terms.base = None
    BY <1>1 DEF AfterBase
  <1>2. CASE Has(q, "base") /\ q.terms.base # None
    <2>1. q.terms.base \in Money(in)
      BY <1>2, PolicyIs
    <2>2. base \in Money(in) /\ area \in Nat /\ mine \in Nat
      BY <2>1, YearlyIs, DenominatorNat, NumeratorNat
    <2>3. AfterBase(in, q, p, seg, x) = NonNeg(x - part)
      BY <1>2 DEF AfterBase
    <2>4. part \in Money(in)
      <3> HIDE DEF area, mine, base
      <3>1. base * mine \in Money(in)
        BY <2>2, MoneyTimes, MoneyIs
      <3>2. area # 0 => RoundDiv(base * mine, area) \in Money(in)
        BY <2>2, <3>1, MoneyRound
      <3>3. QED
        BY <3>2, MoneyIs
    <2> HIDE DEF part
    <2>5. NonNeg(x - part) \in Nat
      BY <2>4, MoneyIs DEF NonNeg
    <2>6. NoneNegative(in) /\ x = 0 => NonNeg(x - part) = 0
      BY <2>4 DEF NonNeg, Money
    <2>7. QED
      BY <2>3, <2>5, <2>6, MoneyIs
  <1>3. QED
    BY <1>1, <1>2

\* An expense stop leaves an amount, of nothing it leaves nothing.
LEMMA AfterStopIs ==
  ASSUME NEW in, WellFormed(in), NEW q \in in.policies, NEW seg, IsWindow(seg), NEW x \in Money(in)
  PROVE  /\ AfterStop(q, seg, x) \in Money(in)
         /\ NoneNegative(in) /\ x = 0 => AfterStop(q, seg, x) = 0
  <1>1. CASE ~Has(q, "stop")
    BY <1>1 DEF AfterStop
  <1>2. CASE Has(q, "stop")
    <2> DEFINE y == Yearly(q.terms.stop, seg)
    <2>1. y \in Money(in)
      BY <1>2, PolicyIs, YearlyIs
    <2>2. AfterStop(q, seg, x) = NonNeg(x - y)
      BY <1>2 DEF AfterStop
    <2> HIDE DEF y
    <2>3. NonNeg(x - y) \in Nat
      BY <2>1, MoneyIs DEF NonNeg
    <2>4. NoneNegative(in) /\ x = 0 => NonNeg(x - y) = 0
      BY <2>1 DEF NonNeg, Money
    <2>5. QED
      BY <2>2, <2>3, <2>4, MoneyIs
  <1>3. QED
    BY <1>1, <1>2

\* What a cap permits is an amount, whichever years are posted.
LEMMA PermittedIs ==
  ASSUME NEW in, WellFormed(in), NEW q \in in.policies, Has(q, "cap")
  PROVE  PermittedAmount(in, q) \in Money(in) \cup {None}
  <1> DEFINE cap == q.terms.cap
             past == in.history[q.lease]
             first == CHOOSE h \in past : \A g \in past : h.year <= g.year
             last  == CHOOSE h \in past : \A g \in past : h.year >= g.year
             base  == IF cap.amount # None THEN cap.amount ELSE first.amount
             years == last.year - first.year + 1
             tenth == RoundDiv(last.amount * (100 + cap.percent), 100)
             grown == RoundDiv(base * Power(100 + cap.percent, years), Power(100, years))
  <1>1. cap.amount \in Money(in) \cup {None} /\ cap.percent \in Money(in)
    BY PolicyIs
  <1>2. IsFiniteSet(past) /\ \A h \in past : h.year \in Int /\ h.amount \in Money(in)
    <2>1. q.lease \in Lease
      BY PolicyIs
    <2>2. IsFiniteSet(past) /\ \A h \in past : h.year \in Int /\ h.amount \in Int
      BY <2>1 DEF WellFormed
    <2>3. NoneNegative(in) => \A h \in past : h.amount >= 0
      BY <2>1 DEF NoneNegative
    <2> HIDE DEF past
    <2>4. QED
      BY <2>2, <2>3 DEF Money
  <1>3. ASSUME past # {} PROVE first \in past /\ last \in past /\ years \in Nat
    <2> DEFINE f == [h \in past |-> h.year]
               g == [h \in past |-> -h.year]
    <2>1. f \in [past -> Int] /\ g \in [past -> Int]
      BY <1>2
    <2>2. /\ \E h \in past : \A o \in past : f[h] <= f[o]
          /\ \E h \in past : \A o \in past : g[h] <= g[o]
      <3> HIDE DEF past, f, g
      <3>1. QED
        BY <1>2, <1>3, <2>1, LeastOf
    <2>3. \E h \in past : \A o \in past : h.year <= o.year
      BY <2>2
    <2>4. \E h \in past : \A o \in past : h.year >= o.year
      <3>1. PICK h \in past : \A o \in past : g[h] <= g[o]
        BY <2>2
      <3>2. \A o \in past : -h.year <= -o.year
        BY <3>1
      <3> HIDE DEF past
      <3>3. \A o \in past : h.year >= o.year
        BY <1>2, <3>2
      <3>4. QED
        BY <3>3
    <2> HIDE DEF past
    <2>5. first \in past /\ \A o \in past : first.year <= o.year
      BY <2>3
    <2>6. last \in past /\ \A o \in past : last.year >= o.year
      BY <2>4
    <2> HIDE DEF first, last
    <2>7. QED
      BY <1>2, <2>5, <2>6
  <1>4. PermittedAmount(in, q) =
          CASE cap.kind = "fixed_dollar" -> cap.amount
            [] cap.kind = "noncumulative" /\ past # {} -> tenth
            [] cap.kind = "cumulative" /\ past # {} -> grown
            [] cap.kind = "cumulative" /\ past = {} -> cap.amount
            [] OTHER -> None
    BY Zenon DEF PermittedAmount
  <1>5. past # {} => tenth \in Money(in) /\ grown \in Money(in)
    <2>1. SUFFICES ASSUME past # {} PROVE tenth \in Money(in) /\ grown \in Money(in)
      OBVIOUS
    <2>2. first \in past /\ last \in past /\ years \in Nat
      BY <1>3, <2>1
    <2> HIDE DEF first, last, past
    <2>3. last.amount \in Money(in) /\ base \in Money(in)
      BY <1>1, <1>2, <2>2
    <2> DEFINE b == 100 + cap.percent
    <2>4. b \in Money(in) /\ b \in Int /\ (NoneNegative(in) => b \in Nat \ {0})
      <3>1. cap.percent \in Money(in)
        BY <1>1
      <3> HIDE DEF cap
      <3>2. QED
        BY <3>1, MoneyIs DEF Money
    <2> HIDE DEF base, years, cap, b
    <2>5. Power(b, years) \in Money(in)
      <3>1. CASE NoneNegative(in)
        BY <2>2, <2>4, <3>1, PowerNat DEF Money
      <3>2. CASE ~NoneNegative(in)
        BY <2>2, <2>4, <3>2, PowerInt DEF Money
      <3>3. QED
        BY <3>1, <3>2
    <2>6. Power(100, years) \in Nat \ {0} /\ 100 \in Nat \ {0}
      <3>1. 100 \in Nat \ {0}
        OBVIOUS
      <3>2. QED
        BY <2>2, <3>1, PowerNat
    <2>7. last.amount * b \in Money(in) /\ base * Power(b, years) \in Money(in)
      BY <2>3, <2>4, <2>5, MoneyTimes
    <2>8. tenth = RoundDiv(last.amount * b, 100) /\ grown = RoundDiv(base * Power(b, years), Power(100, years))
      BY DEF b
    <2>9. QED
      BY <2>6, <2>7, <2>8, MoneyRound
  <1> HIDE DEF cap, past, tenth, grown
  <1>6. QED
    BY <1>1, <1>4, <1>5

\* A cap takes part of a recovery off; of controllable costs it leaves no more
\* than it permits.
LEMMA AfterCapIs ==
  ASSUME NEW in, WellFormed(in), NEW q \in in.policies, NEW p \in Pool, NEW seg, IsWindow(seg), NEW x \in Money(in)
  PROVE  /\ AfterCap(in, q, p, seg, x) \in Money(in)
         /\ (/\ Has(q, "cap") /\ PermittedAmount(in, q) # None
             /\ \A e \in Expense : in.expense[e].control = "controllable"
             /\ Holds(in, p, {e \in Included(in, p, seg) : in.expense[e].cat = q.cat}, seg) # 0)
               => AfterCap(in, q, p, seg, x) <= Yearly(PermittedAmount(in, q), seg)
  <1> DEFINE mine == {e \in Included(in, p, seg) : in.expense[e].cat = q.cat}
             control(kinds) == Holds(in, p, {e \in mine : in.expense[e].control \in kinds}, seg)
             both == control({"controllable", "uncontrollable"})
             one == control({"controllable"})
             controllable == IF both = 0 THEN 0 ELSE RoundDiv(x * one, both)
             ceiling == Yearly(PermittedAmount(in, q), seg)
  <1>1. CASE ~Has(q, "cap") \/ PermittedAmount(in, q) = None
    BY <1>1 DEF AfterCap
  <1>2. CASE Has(q, "cap") /\ PermittedAmount(in, q) # None
    <2>1. ceiling \in Money(in)
      BY <1>2, PermittedIs, YearlyIs
    <2>2. /\ both \in Nat /\ one \in Nat /\ one <= both
          /\ (\A e \in Expense : in.expense[e].control = "controllable") =>
                one = Holds(in, p, mine, seg) /\ both = Holds(in, p, mine, seg)
      <3> DEFINE S == {e \in mine : in.expense[e].control \in {"controllable", "uncontrollable"}}
                 T == {e \in mine : in.expense[e].control \in {"controllable"}}
      <3>1. S \subseteq Included(in, p, seg) /\ T \subseteq S
        OBVIOUS
      <3>2. both = Holds(in, p, S, seg) /\ one = Holds(in, p, T, seg)
        OBVIOUS
      <3>3. (\A e \in Expense : in.expense[e].control = "controllable") => S = mine /\ T = mine
        BY IncludedIs
      <3> HIDE DEF S, T, both, one, mine
      <3>4. Holds(in, p, T, seg) <= Holds(in, p, S, seg)
        BY <3>1, HoldsMonotone
      <3>5. T \subseteq Included(in, p, seg)
        BY <3>1
      <3>6. Holds(in, p, T, seg) \in Nat /\ Holds(in, p, S, seg) \in Nat
        BY <3>1, <3>5, HoldsNat
      <3>7. QED
        BY <3>2, <3>3, <3>4, <3>6
    <2>3. AfterCap(in, q, p, seg, x) = x - NonNeg(controllable - ceiling)
      BY <1>2 DEF AfterCap
    <2> HIDE DEF both, one, ceiling, mine
    <2>4. x \in Int /\ ceiling \in Int
      BY <2>1, MoneyIs
    <2>5. both # 0 => RoundDiv(x * one, both) \in Int
      <3>1. x * one \in Int /\ (both # 0 => both \in Nat \ {0})
        BY <2>2, <2>4
      <3>2. QED
        BY <3>1, RoundDivIs
    <2>6. controllable \in Int
      BY <2>5
    <2>7. NoneNegative(in) => controllable <= x
      <3>1. SUFFICES ASSUME NoneNegative(in) PROVE controllable <= x
        OBVIOUS
      <3>2. x \in Nat
        BY <3>1, MoneyIs
      <3>3. CASE both = 0
        BY <3>2, <3>3
      <3>4. CASE both # 0
        <4>1. both \in Nat \ {0} /\ x * one \in Int
          BY <2>2, <2>4, <3>4
        <4>2. x * one <= both * x
          <5>1. x * one <= x * both
            BY <2>2, <3>2
          <5>2. QED
            BY <2>2, <3>2, <5>1
        <4>3. RoundDiv(x * one, both) <= x
          BY <2>4, <4>1, <4>2, RoundDivAtMost
        <4>4. QED
          BY <3>4, <4>3
      <3>5. QED
        BY <3>3, <3>4
    <2>8. one = both /\ both # 0 => controllable = x
      <3>1. SUFFICES ASSUME one = both, both # 0 PROVE RoundDiv(x * both, both) = x
        OBVIOUS
      <3>2. both \in Nat \ {0} /\ x * both \in Int /\ x * both = both * x
        BY <2>2, <2>4, <3>1
      <3>3. RoundDiv(x * both, both) \in Int /\ RoundDiv(x * both, both) <= x
        <4>1. x * both <= both * x
          BY <3>2
        <4>2. QED
          BY <2>4, <3>2, <4>1, RoundDivIs, RoundDivAtMost
      <3>4. 2 * (x * both) + both < 2 * (both * RoundDiv(x * both, both)) + 2 * both
        BY <3>2, RoundDivIs
      <3> DEFINE r == RoundDiv(x * both, both)
      <3> HIDE DEF r
      <3>5. r \in Int /\ r <= x /\ 2 * (x * both) + both < 2 * (both * r) + 2 * both
        BY <3>3, <3>4 DEF r
      <3>6. SUFFICES ASSUME r <= x - 1 PROVE FALSE
        BY <2>4, <3>5 DEF r
      <3>7. both * r <= both * (x - 1) /\ both * (x - 1) = both * x - both
        BY <2>4, <3>2, <3>5, <3>6
      <3>8. both * r \in Int /\ both * x \in Int
        BY <2>4, <3>2, <3>5
      <3>9. QED
        BY <3>2, <3>5, <3>7, <3>8
    <2> HIDE DEF controllable
    <2>9. x - NonNeg(controllable - ceiling) \in Money(in)
      <3>1. CASE NoneNegative(in)
        BY <2>1, <2>6, <2>7, <3>1 DEF NonNeg, Money
      <3>2. CASE ~NoneNegative(in)
        BY <2>4, <2>6, <3>2 DEF NonNeg, Money
      <3>3. QED
        BY <3>1, <3>2
    <2>10. controllable = x => x - NonNeg(controllable - ceiling) <= ceiling
      BY <2>4 DEF NonNeg
    <2>11. QED
      BY <2>2, <2>3, <2>8, <2>9, <2>10 DEF mine, ceiling
  <1>3. QED
    BY <1>1, <1>2

\* Of nothing a cap takes nothing.
LEMMA AfterCapOfNothing ==
  ASSUME NEW in, WellFormed(in), NEW q \in in.policies, NEW p \in Pool, NEW seg, IsWindow(seg),
         NoneNegative(in), Has(q, "cap"), PermittedAmount(in, q) # None,
         Holds(in, p, {e \in Included(in, p, seg) : in.expense[e].cat = q.cat}, seg) = 0
  PROVE  AfterCap(in, q, p, seg, 0) <= Yearly(PermittedAmount(in, q), seg)
  <1> DEFINE mine == {e \in Included(in, p, seg) : in.expense[e].cat = q.cat}
             both == Holds(in, p, {e \in mine : in.expense[e].control \in {"controllable", "uncontrollable"}}, seg)
             one == Holds(in, p, {e \in mine : in.expense[e].control \in {"controllable"}}, seg)
             ceiling == Yearly(PermittedAmount(in, q), seg)
             controllable == IF both = 0 THEN 0 ELSE RoundDiv(0 * one, both)
  <1>1. AfterCap(in, q, p, seg, 0) = 0 - NonNeg(controllable - ceiling)
    BY DEF AfterCap
  <1>2. ceiling \in Nat
    BY PermittedIs, YearlyIs, MoneyIs
  <1>3. both = 0
    <2>1. {e \in mine : in.expense[e].control \in {"controllable", "uncontrollable"}} \subseteq mine
      OBVIOUS
    <2>2. mine \subseteq Included(in, p, seg)
      OBVIOUS
    <2>3. both <= Holds(in, p, mine, seg) /\ both \in Nat
      <3> HIDE DEF mine
      <3>1. QED
        BY <2>1, <2>2, HoldsMonotone, HoldsNat
    <2> HIDE DEF both
    <2>4. QED
      BY <2>3
  <1>4. controllable = 0
    BY <1>3
  <1> HIDE DEF ceiling, controllable
  <1>5. NonNeg(controllable - ceiling) = 0
    BY <1>2, <1>4 DEF NonNeg
  <1>6. AfterCap(in, q, p, seg, 0) = 0
    BY <1>1, <1>5
  <1>7. QED
    BY <1>2, <1>6 DEF ceiling

\* A fee on an amount makes an amount.
LEMMA AfterFeeIs ==
  ASSUME NEW in, WellFormed(in), NEW q \in in.policies, NEW x \in Money(in)
  PROVE  AfterFee(q, x) \in Money(in)
  <1>1. CASE ~Has(q, "fee")
    BY <1>1 DEF AfterFee
  <1>2. CASE Has(q, "fee")
    <2>1. q.terms.fee \in Money(in)
      BY <1>2, PolicyIs
    <2>2. x * q.terms.fee \in Money(in)
      BY <2>1, MoneyTimes
    <2>3. RoundDiv(x * q.terms.fee, 100) \in Money(in)
      <3>1. 100 \in Nat \ {0}
        OBVIOUS
      <3>2. QED
        BY <2>2, <3>1, MoneyRound
    <2>4. QED
      BY <1>2, <2>3, MoneyPlus DEF AfterFee
  <1>3. QED
    BY <1>1, <1>2

\* Whatever its terms, a policy charges an amount, and with a cap and no fee no
\* more of controllable costs than the part of the segment in what is permitted.
LEMMA ChargeIs ==
  ASSUME NEW in, WellFormed(in), NEW q \in in.policies, NEW p \in Pool, NEW seg, IsWindow(seg)
  PROVE  /\ Charge(in, q, p, seg) \in Money(in)
         /\ Has(q, "direct") => Charge(in, q, p, seg) = Yearly(q.terms.direct, seg)
         /\ (/\ NoneNegative(in) /\ Has(q, "cap") /\ ~Has(q, "fee") /\ PermittedAmount(in, q) # None
             /\ \A e \in Expense : in.expense[e].control = "controllable")
               => Charge(in, q, p, seg) <= Yearly(PermittedAmount(in, q), seg)
  <1>1. CASE Has(q, "direct")
    <2>1. q.terms.direct \in Money(in) /\ ~Has(q, "cap")
      BY <1>1, PolicyIs
    <2>2. QED
      BY <1>1, <2>1, YearlyIs DEF Charge
  <1>2. CASE ~Has(q, "direct")
    <2> DEFINE a == Share(in, q, p, seg)
               b == AfterBase(in, q, p, seg, a)
               c == AfterStop(q, seg, b)
               d == AfterCap(in, q, p, seg, c)
    <2>1. a \in Money(in)
      BY ShareIs
    <2>2. b \in Money(in) /\ (NoneNegative(in) /\ a = 0 => b = 0)
      <3> HIDE DEF a
      <3>1. QED
        BY <2>1, AfterBaseIs
    <2>3. c \in Money(in) /\ (NoneNegative(in) /\ b = 0 => c = 0)
      <3> HIDE DEF b
      <3>1. QED
        BY <2>2, AfterStopIs
    <2>4. d \in Money(in)
      <3> HIDE DEF c
      <3>1. QED
        BY <2>3, AfterCapIs
    <2>5. AfterFee(q, d) \in Money(in)
      <3> HIDE DEF d
      <3>1. QED
        BY <2>4, AfterFeeIs
    <2>6. Charge(in, q, p, seg) = AfterFee(q, d)
      BY <1>2 DEF Charge
    <2>7. ASSUME NoneNegative(in), Has(q, "cap"), ~Has(q, "fee"), PermittedAmount(in, q) # None,
                 \A e \in Expense : in.expense[e].control = "controllable"
          PROVE  Charge(in, q, p, seg) <= Yearly(PermittedAmount(in, q), seg)
      <3> DEFINE h == Holds(in, p, {e \in Included(in, p, seg) : in.expense[e].cat = q.cat}, seg)
      <3>1. Charge(in, q, p, seg) = d
        <4> HIDE DEF d
        <4>1. QED
          BY <2>6, <2>7 DEF AfterFee
      <3>2. CASE h # 0
        <4> HIDE DEF c
        <4>1. d <= Yearly(PermittedAmount(in, q), seg)
          BY <2>3, <2>7, <3>2, AfterCapIs
        <4>2. QED
          BY <3>1, <4>1
      <3>3. CASE h = 0
        <4>1. a = 0
          BY <3>3, ShareIs, PartIs, PolicyIs
        <4>2. c = 0
          <5> HIDE DEF a, b, c
          <5>1. QED
            BY <2>2, <2>3, <2>7, <4>1
        <4>3. AfterCap(in, q, p, seg, 0) <= Yearly(PermittedAmount(in, q), seg)
          BY <2>7, <3>3, AfterCapOfNothing
        <4> HIDE DEF c
        <4>4. QED
          BY <3>1, <4>2, <4>3
      <3>4. QED
        BY <3>2, <3>3
    <2> HIDE DEF d
    <2>8. QED
      BY <1>2, <2>5, <2>6, <2>7
  <1>3. QED
    BY <1>1, <1>2

-----------------------------------------------------------------------------
(* The inductive invariant of a calculation *)

\* A pool is unrounded, or what its leases owe has been rounded and no lease is
\* still to be charged.
EngineInv ==
    /\ input \in Inputs
    /\ segments = Segments(input)
    /\ assembled \in SUBSET Pool /\ charged \in SUBSET Lease
    /\ raw \in [Pool -> UNION {[D -> Money(input)] : D \in SUBSET Lease}]
    /\ DOMAIN final = Pool
    /\ \A p \in Pool : \/ final[p] = NoAmounts
                       \/ charged = Lease /\ final[p] = Rounded(raw[p])
    /\ DOMAIN due \in SUBSET Lease /\ due \in [DOMAIN due -> Int]

\* Functions on no leases.
LEMMA NoAmountsAre ==
  ASSUME NEW A
  PROVE  /\ NoAmounts \in [{} -> A] /\ NoAmounts \in UNION {[D -> A] : D \in SUBSET Lease}
         /\ DOMAIN NoAmounts = {}
  <1>1. NoAmounts \in [{} -> A] /\ {} \in SUBSET Lease /\ DOMAIN NoAmounts = {}
    BY DEF NoAmounts
  <1> HIDE DEF NoAmounts
  <1>2. QED
    BY <1>1

\* The input is well formed.
LEMMA WellFormedInput ==
  ASSUME EngineInv
  PROVE  WellFormed(input)
  BY InputsAssumption DEF EngineInv

\* What the leases of a pool owe, before and after rounding.
LEMMA AmountsOf ==
  ASSUME EngineInv, NEW p \in Pool
  PROVE  /\ DOMAIN raw[p] \in SUBSET Lease /\ DOMAIN raw[p] \in SUBSET Nat /\ IsFiniteSet(DOMAIN raw[p])
         /\ raw[p] \in [DOMAIN raw[p] -> Money(input)] /\ raw[p] \in [DOMAIN raw[p] -> Int]
         /\ Rounded(raw[p]) \in [DOMAIN raw[p] -> Money(input)]
  <1>1. PICK D \in SUBSET Lease : raw[p] \in [D -> Money(input)]
    BY DEF EngineInv
  <1>2. DOMAIN raw[p] = D /\ D \in SUBSET Nat
    BY <1>1, LeaseAssumption
  <1>3. IsFiniteSet(D)
    BY LeaseAssumption, FS_Subset
  <1>4. raw[p] \in [D -> Int]
    BY <1>1, MoneyIs
  <1>5. Rounded(raw[p]) \in [D -> Money(input)]
    <2>1. CASE NoneNegative(input)
      BY <1>1, <1>2, <1>3, <2>1, RoundedNat DEF Money
    <2>2. CASE ~NoneNegative(input)
      BY <1>2, <1>3, <1>4, <2>2, RoundedIs DEF Money
    <2>3. QED
      BY <2>1, <2>2
  <1>6. QED
    BY <1>1, <1>2, <1>3, <1>4, <1>5

\* What a lease owes a pool is an amount.
LEMMA OwedIs ==
  ASSUME EngineInv, NEW l \in Lease, NEW p \in Pool
  PROVE  Owed(l, p) \in Money(input)
  <1> DEFINE Q == {q \in input.policies : q.lease = l}
             of(q) == {<<q, seg>> : seg \in {s \in segments : <<p, s>> \in Places(q)}}
             F == [q \in Q |-> of(q)]
             S == UNION {of(q) : q \in Q}
             f == [at \in S |-> Charge(input, at[1], p, at[2])]
  <1>1. WellFormed(input)
    BY WellFormedInput
  <1>2. IsFiniteSet(Q) /\ Q \subseteq input.policies
    <2>1. IsFiniteSet(input.policies)
      BY <1>1, WindowsAre DEF WellFormed
    <2>2. QED
      BY <2>1, FS_Subset
  <1>3. IsFiniteSet(segments) /\ \A seg \in segments : IsWindow(seg)
    BY <1>1, SegmentsFinite, SegmentIs DEF EngineInv
  <1>4. ASSUME NEW q \in Q
        PROVE  IsFiniteSet(of(q)) /\ \A at \in of(q) : at[1] \in Q /\ at[2] \in segments
    <2> DEFINE A == {s \in segments : <<p, s>> \in Places(q)}
               h == [s \in A |-> <<q, s>>]
    <2>1. A \subseteq segments
      OBVIOUS
    <2>2. IsFiniteSet(A)
      BY <1>3, <2>1, FS_Subset
    <2>3. of(q) = {h[s] : s \in A} /\ \A s \in A : h[s][1] = q /\ h[s][2] = s
      OBVIOUS
    <2>4. DOMAIN h = A /\ h = [s \in A |-> h[s]]
      OBVIOUS
    <2> HIDE DEF h, A, of, Q
    <2>5. IsFiniteSet({h[s] : s \in A})
      BY <2>2, <2>4, FiniteImage
    <2>6. QED
      BY <1>4, <2>1, <2>3, <2>5
  <1>5. IsFiniteSet(S) /\ \A at \in S : at[1] \in Q /\ at[2] \in segments
    <2>1. F = [q \in Q |-> F[q]] /\ \A q \in Q : F[q] = of(q)
      OBVIOUS
    <2>2. S = UNION {F[q] : q \in Q}
      <3> HIDE DEF F, Q, of
      <3>1. QED
        BY <2>1
    <2>3. \A at \in S : \E q \in Q : at \in of(q)
      OBVIOUS
    <2> HIDE DEF F, S, Q, of
    <2>4. \A q \in Q : IsFiniteSet(F[q])
      BY <1>4, <2>1
    <2>5. IsFiniteSet(S)
      BY <1>2, <2>1, <2>2, <2>4, FiniteUnion
    <2>6. QED
      BY <1>4, <2>3, <2>5
  <1>6. Owed(l, p) = SumFunction(f)
    BY Zenon DEF Owed, Sum
  <1>7. DOMAIN f = S /\ \A at \in S : f[at] = Charge(input, at[1], p, at[2])
    OBVIOUS
  <1> HIDE DEF f, S, Q
  <1>8. \A at \in S : f[at] \in Money(input)
    <2>1. \A at \in S : at[1] \in input.policies /\ IsWindow(at[2])
      BY <1>2, <1>3, <1>5
    <2>2. QED
      BY <1>1, <1>7, <2>1, ChargeIs
  <1>9. QED
    BY <1>5, <1>6, <1>7, <1>8, MoneyTotal

\* What a lease recovers is an amount.
LEMMA RecoveryIs ==
  ASSUME EngineInv, NEW l
  PROVE  Recovery(l) \in Money(input)
  <1> DEFINE S == {p \in Pool : l \in DOMAIN final[p]}
             f == [p \in S |-> final[p][l]]
  <1>1. IsFiniteSet(S)
    BY LeaseAssumption, FS_Subset
  <1>2. ASSUME NEW p \in S PROVE final[p][l] \in Money(input)
    <2>1. CASE final[p] = NoAmounts
      BY <2>1, NoAmountsAre
    <2>2. CASE final[p] = Rounded(raw[p])
      <3>1. DOMAIN final[p] = DOMAIN raw[p] /\ final[p] \in [DOMAIN raw[p] -> Money(input)]
        BY <2>2, AmountsOf
      <3>2. QED
        BY <3>1
    <2>3. QED
      BY <2>1, <2>2 DEF EngineInv
  <1>3. DOMAIN f = S /\ \A p \in S : f[p] \in Money(input)
    BY <1>2
  <1>4. Recovery(l) = SumFunction(f)
    BY DEF Recovery, Sum
  <1> HIDE DEF f, S
  <1>5. QED
    BY <1>1, <1>3, <1>4, MoneyTotal

-----------------------------------------------------------------------------
\* A calculation starts in the invariant.
LEMMA EngineStart == EngineInit => EngineInv
  <1> SUFFICES ASSUME EngineInit PROVE EngineInv
    OBVIOUS
  <1>1. input \in Inputs /\ segments = Segments(input) /\ assembled = {} /\ charged = {}
        /\ raw = [p \in Pool |-> NoAmounts] /\ final = [p \in Pool |-> NoAmounts]
    BY DEF EngineInit
  <1>2. DOMAIN due = {} /\ due \in [{} -> Int]
    BY DEF EngineInit
  <1>3. QED
    BY <1>1, <1>2, NoAmountsAre DEF EngineInv

\* Every pass keeps the invariant.
LEMMA EngineStep == EngineInv /\ [EngineNext]_engineVars => EngineInv'
  <1> SUFFICES ASSUME EngineInv, [EngineNext]_engineVars PROVE EngineInv'
    OBVIOUS
  <1>1. ASSUME NEW p \in Pool, Assemble(p) PROVE EngineInv'
    BY <1>1 DEF Assemble, EngineInv
  <1>2. ASSUME NEW p \in Pool, RoundPool(p) PROVE EngineInv'
    <2>1. /\ final' = [final EXCEPT ![p] = Rounded(raw[p])] /\ charged = Lease
          /\ UNCHANGED <<input, segments, assembled, charged, raw, due>>
      BY <1>2 DEF RoundPool
    <2>2. DOMAIN final' = Pool
      BY <2>1 DEF EngineInv
    <2>3. \A o \in Pool : final'[o] = NoAmounts \/ (charged' = Lease /\ final'[o] = Rounded(raw'[o]))
      BY <2>1 DEF EngineInv
    <2>4. QED
      BY <2>1, <2>2, <2>3 DEF EngineInv
  <1>3. ASSUME NEW l \in Lease, ChargeLease(l) PROVE EngineInv'
    <2> DEFINE mine == {q \in input.policies : q.lease = l}
               pools == {p \in Pool : \E q \in mine : \E seg \in segments : <<p, seg>> \in Places(q)}
    <2>1. /\ l \in Lease \ charged /\ charged' = charged \cup {l}
          /\ UNCHANGED <<input, segments, assembled, final, due>>
          /\ raw' = [p \in Pool |-> IF p \in pools
                       THEN [k \in DOMAIN raw[p] \cup {l} |-> IF k = l THEN Owed(l, p) ELSE raw[p][k]]
                       ELSE raw[p]]
      BY <1>3 DEF ChargeLease
    <2> HIDE DEF pools
    <2>2. ASSUME NEW p \in Pool PROVE raw'[p] \in UNION {[D -> Money(input)] : D \in SUBSET Lease}
      <3>1. CASE p \in pools
        <4> DEFINE D == DOMAIN raw[p] \cup {l}
        <4>1. raw'[p] = [k \in D |-> IF k = l THEN Owed(l, p) ELSE raw[p][k]]
          BY <2>1, <3>1
        <4>2. D \in SUBSET Lease /\ \A k \in D : k # l => raw[p][k] \in Money(input)
          BY <1>3, AmountsOf
        <4>3. Owed(l, p) \in Money(input)
          BY <1>3, OwedIs
        <4> HIDE DEF D
        <4>4. raw'[p] \in [D -> Money(input)]
          BY <4>1, <4>2, <4>3
        <4>5. QED
          BY <4>2, <4>4
      <3>2. CASE p \notin pools
        BY <2>1, <3>2 DEF EngineInv
      <3>3. QED
        BY <3>1, <3>2
    <2>3. raw' \in [Pool -> UNION {[D -> Money(input)] : D \in SUBSET Lease}]
      <3>1. raw' = [p \in Pool |-> raw'[p]]
        BY <2>1
      <3>2. QED
        BY <2>2, <3>1
    <2>4. \A p \in Pool : final'[p] = NoAmounts
      BY <2>1 DEF EngineInv
    <2>5. charged' \in SUBSET Lease
      BY <2>1 DEF EngineInv
    <2>6. (raw \in [Pool -> UNION {[D -> Money(input)] : D \in SUBSET Lease}])'
      <3>1. input' = input
        BY <2>1
      <3>2. QED
        BY <2>3, <3>1
    <2>7. QED
      <3>1. UNCHANGED <<input, segments, assembled, final, due>>
        BY <2>1
      <3>2. QED
        BY <2>4, <2>5, <2>6, <3>1 DEF EngineInv
  <1>4. ASSUME NEW l \in Lease, Reconcile(l) PROVE EngineInv'
    <2> DEFINE r == Recovery(l) - input.billed[l] + AdjustmentAmount(input.adjustment[l]) - AdjustmentAmount(input.credit[l])
    <2>1. /\ UNCHANGED <<input, segments, assembled, charged, raw, final>>
          /\ due' = [k \in DOMAIN due \cup {l} |-> IF k = l THEN r ELSE due[k]]
      BY <1>4 DEF Reconcile
    <2>2. r \in Int
      <3>1. Recovery(l) \in Int
        BY RecoveryIs, MoneyIs
      <3>2. /\ input.billed[l] \in Int
            /\ AdjustmentAmount(input.adjustment[l]) \in Int /\ AdjustmentAmount(input.credit[l]) \in Int
        BY <1>4, WellFormedInput DEF WellFormed, AdjustmentAmount
      <3>3. QED
        BY <3>1, <3>2
    <2>3. DOMAIN due \in SUBSET Lease /\ \A k \in DOMAIN due : due[k] \in Int
      BY DEF EngineInv
    <2> HIDE DEF r
    <2>4. DOMAIN due' \in SUBSET Lease /\ due' \in [DOMAIN due' -> Int]
      BY <1>4, <2>1, <2>2, <2>3
    <2>5. QED
      BY <2>1, <2>4 DEF EngineInv
  <1>5. CASE UNCHANGED engineVars
    BY <1>5 DEF engineVars, EngineInv
  <1>6. QED
    BY <1>1, <1>2, <1>3, <1>4, <1>5 DEF EngineNext

\* The invariant of a calculation: the segments are those of the input, and the
\* amounts of a pool are rounded once, when no lease is still to be charged.
THEOREM EngineInvariance == EngineSpec => []EngineInv
  <1>1. QED
    BY EngineStart, EngineStep, PTL DEF EngineSpec

\* The types, for any leases, pools and inputs: in particular, unless a term or a
\* posted year is negative, no lease owes a pool less than nothing, before or
\* after rounding, whatever base years, stops and caps take away.
THEOREM EngineTypes == EngineSpec => []EngineTypeOK
  <1>1. EngineInv => EngineTypeOK
    <2> SUFFICES ASSUME EngineInv PROVE EngineTypeOK
      OBVIOUS
    <2>1. \A seg \in segments : seg \in [from : DaysOf(Period), to : DaysOf(Period)]
      BY WellFormedInput, SegmentIs DEF EngineInv
    <2>2. ASSUME NEW p \in Pool PROVE IsAmounts(raw[p], Money(input)) /\ IsAmounts(final[p], Money(input))
      <3>1. IsAmounts(raw[p], Money(input))
        BY AmountsOf DEF IsAmounts
      <3>2. CASE final[p] = NoAmounts
        BY <3>1, <3>2, NoAmountsAre DEF IsAmounts
      <3>3. CASE final[p] = Rounded(raw[p])
        <4>1. DOMAIN final[p] = DOMAIN raw[p]
          BY <3>3, AmountsOf
        <4>2. QED
          BY <3>1, <3>3, <4>1, AmountsOf DEF IsAmounts
      <3>4. QED
        BY <3>1, <3>2, <3>3 DEF EngineInv
    <2>3. IsAmounts(due, Int)
      BY DEF EngineInv, IsAmounts
    <2>4. QED
      BY <2>1, <2>2, <2>3 DEF EngineInv, EngineTypeOK
  <1>2. QED
    BY <1>1, EngineInvariance, PTL

\* The rounding boundary, for any leases and amounts: ledger amounts add up to
\* the rounded total of their pool, none is a whole unit off, and no unit is
\* better given to another lease.
THEOREM LedgerAmounts == EngineSpec => []RoundedTies
  <1>1. EngineInv => RoundedTies
    <2> SUFFICES ASSUME EngineInv, NEW p \in Pool, DOMAIN raw[p] # {}, DOMAIN final[p] = DOMAIN raw[p]
        PROVE LET off(l, units) == LET x == Unit * units - raw[p][l] IN IF x < 0 THEN -x ELSE x
              IN  /\ Sum(DOMAIN raw[p], LAMBDA l : final[p][l]) = InUnits(Sum(DOMAIN raw[p], LAMBDA l : raw[p][l]))
                  /\ \A l \in DOMAIN raw[p] : off(l, final[p][l]) < Unit
                  /\ \A l, k \in DOMAIN raw[p] : l # k =>
                        off(l, final[p][l]) + off(k, final[p][k])
                            <= off(l, final[p][l] - 1) + off(k, final[p][k] + 1)
      BY Zenon DEF RoundedTies
    <2> DEFINE D == DOMAIN raw[p]
               f == Rounded(raw[p])
    <2>1. final[p] = f
      BY NoAmountsAre DEF EngineInv
    <2>2. D \in SUBSET Nat /\ IsFiniteSet(D) /\ raw[p] \in [D -> Int]
      BY AmountsOf
    <2>3. f \in [D -> Int] /\ SumFunctionOnSet(f, D) = InUnits(SumFunctionOnSet(raw[p], D))
      BY <2>2, RoundedIs
    <2>4. Sum(D, LAMBDA l : final[p][l]) = InUnits(Sum(D, LAMBDA l : raw[p][l]))
      <3> DEFINE g == [l \in D |-> final[p][l]]
                 h == [l \in D |-> raw[p][l]]
      <3>1. g = f /\ h = raw[p]
        <4>1. f = [l \in D |-> f[l]] /\ raw[p] = [l \in D |-> raw[p][l]]
          BY <2>2, <2>3
        <4> HIDE DEF f, D
        <4>2. QED
          BY <2>1, <4>1
      <3>2. Sum(D, LAMBDA l : final[p][l]) = SumFunction(g) /\ Sum(D, LAMBDA l : raw[p][l]) = SumFunction(h)
        BY DEF Sum
      <3>3. DOMAIN f = D /\ DOMAIN raw[p] = D
        BY <2>2, <2>3
      <3> HIDE DEF g, h, f, D
      <3>4. SumFunction(f) = SumFunctionOnSet(f, D) /\ SumFunction(raw[p]) = SumFunctionOnSet(raw[p], D)
        BY <3>3 DEF SumFunction
      <3>5. QED
        BY <2>3, <3>1, <3>2, <3>4
    <2>5. /\ \A l \in D : Off(raw[p][l], f[l]) < Unit
          /\ \A l, k \in D : l # k => Off(raw[p][l], f[l]) + Off(raw[p][k], f[k])
                                        <= Off(raw[p][l], f[l] - 1) + Off(raw[p][k], f[k] + 1)
      BY <2>2, RoundedClose
    <2> HIDE DEF f
    <2>6. QED
      BY <2>1, <2>4, <2>5 DEF Off
  <1>2. QED
    BY <1>1, EngineInvariance, PTL

-----------------------------------------------------------------------------
(* What a result ready to be posted presupposes *)

\* The windows the period is cut by.
LEMMA AtBoundaries ==
  ASSUME NEW in, WellFormed(in)
  PROVE  /\ Cuts(in.premises) \subseteq Boundaries(in) /\ Cuts(in.policies) \subseteq Boundaries(in)
         /\ Cuts(in.participants) \subseteq Boundaries(in)
         /\ \A x \in in.premises : Cuts(x.areas) \subseteq Boundaries(in)
         /\ \A p \in Pool : Cuts(in.pools[p].members) \subseteq Boundaries(in)
  <1> DEFINE areas == UNION {x.areas : x \in in.premises}
             members == UNION {in.pools[p].members : p \in DOMAIN in.pools}
  <1>1. Boundaries(in) = Cuts(in.premises) \cup Cuts(areas) \cup Cuts(in.occupancy)
                         \cup Cuts(in.policies) \cup Cuts(members) \cup Cuts(in.participants)
    BY DEF Boundaries
  <1>2. \A x \in in.premises : x.areas \subseteq areas
    OBVIOUS
  <1>3. \A p \in Pool : in.pools[p].members \subseteq members
    BY WindowsOf
  <1>4. ASSUME NEW S, NEW T, S \subseteq T PROVE Cuts(S) \subseteq Cuts(T)
    BY <1>4 DEF Cuts
  <1> HIDE DEF areas, members
  <1>5. \A x \in in.premises : Cuts(x.areas) \subseteq Cuts(areas)
    BY <1>2, <1>4
  <1>6. \A p \in Pool : Cuts(in.pools[p].members) \subseteq Cuts(members)
    BY <1>3, <1>4
  <1>7. QED
    BY <1>1, <1>5, <1>6

\* What is in force in a segment is in force on each of its days.
LEMMA OnDayIs ==
  ASSUME NEW in, WellFormed(in), NEW seg \in Segments(in), NEW d \in DaysOf(seg),
         NEW S, \A w \in S : IsWindow(w), Cuts(S) \subseteq Boundaries(in)
  PROVE  OnDay(S, d) = InForce(S, seg)
  <1>1. ASSUME NEW w \in S PROVE d \in DaysOf(w) <=> Overlap(w, seg) > 0
    <2>1. w.from \in Boundaries(in) /\ w.to + 1 \in Boundaries(in)
      BY DEF Cuts
    <2>2. QED
      BY <2>1, Throughout
  <1>2. QED
    BY <1>1 DEF OnDay, InForce

\* On each of its days a segment stands for what is in force on that day.
LEMMA DaysOfSegment ==
  ASSUME WellFormed(input), NEW seg \in Segments(input), NEW d \in DaysOf(seg)
  PROVE  /\ \A l : PoliciesOn(l, d) = PoliciesIn(input, l, seg)
         /\ \A q : PoolsOn(q, d) = PoolsFor(input, q, seg)
         /\ \A p \in Pool : ScopesOn(p, d) = Scopes(input, p, seg)
         /\ \A l : \A p \in Pool : PremisesOn(l, p, d) = PremisesIn(input, l, p, seg)
         /\ \A x \in input.premises : OnDay(x.areas, d) = InForce(x.areas, seg)
  <1>1. OnDay(input.policies, d) = InForce(input.policies, seg)
    BY AtBoundaries, WindowsOf, OnDayIs
  <1>2. OnDay(input.participants, d) = InForce(input.participants, seg)
    BY AtBoundaries, WindowsOf, OnDayIs
  <1>3. OnDay(input.premises, d) = InForce(input.premises, seg)
    BY AtBoundaries, WindowsOf, OnDayIs
  <1>4. \A x \in input.premises : OnDay(x.areas, d) = InForce(x.areas, seg)
    BY AtBoundaries, WindowsOf, OnDayIs
  <1>5. \A p \in Pool : OnDay(input.pools[p].members, d) = InForce(input.pools[p].members, seg)
    BY AtBoundaries, WindowsOf, OnDayIs
  <1>6. \A l : PoliciesOn(l, d) = PoliciesIn(input, l, seg)
    BY <1>1 DEF PoliciesOn, PoliciesIn
  <1>7. \A q : PoolsOn(q, d) = PoolsFor(input, q, seg)
    BY <1>2, WindowsOf DEF PoolsOn, PoolsFor, Participates
  <1>8. \A p \in Pool : ScopesOn(p, d) = Scopes(input, p, seg)
    BY <1>5 DEF ScopesOn, Scopes
  <1>9. ASSUME NEW l, NEW p \in Pool PROVE PremisesOn(l, p, d) = PremisesIn(input, l, p, seg)
    <2>1. \A x : (x.spaces # {} /\ (input.pools[p].ofProperty \/ x.spaces \cap Scopes(input, p, seg) # {}))
                 <=> (IF input.pools[p].ofProperty THEN x.spaces # {} ELSE x.spaces \cap Scopes(input, p, seg) # {})
      OBVIOUS
    <2>2. PremisesOn(l, p, d) =
            {x \in InForce(input.premises, seg) : x.lease = l /\ x.spaces # {}
                /\ (input.pools[p].ofProperty \/ x.spaces \cap Scopes(input, p, seg) # {})}
      BY <1>3, <1>8 DEF PremisesOn
    <2>3. QED
      BY <2>1, <2>2 DEF PremisesIn
  <1>10. QED
    BY <1>4, <1>6, <1>7, <1>8, <1>9

\* Measurements of a scope that cover all days of a segment cover each of them.
LEMMA MeasuredDaily ==
  ASSUME NEW in, WellFormed(in), NEW s, NEW seg, IsWindow(seg), NEW d \in DaysOf(seg),
         Covered(in, s, seg) >= Length(seg)
  PROVE  \E m \in OnDay(in.measurements, d) : m.scope = s
  <1> DEFINE S == Measured(in, s, seg)
             D == DaysOf(seg)
             F == [m \in S |-> DaysOf(m) \cap D]
             f == [m \in S |-> Overlap(m, seg)]
             all == UNION {F[m] : m \in S}
  <1>1. SUFFICES ASSUME \A m \in OnDay(in.measurements, d) : m.scope # s PROVE FALSE
    OBVIOUS
  <1>2. IsFiniteSet(S) /\ \A m \in S : m \in in.measurements /\ m.scope = s /\ IsWindow(m)
    <2>1. \A m \in S : m \in in.measurements /\ m.scope = s
      BY DEF Measured, InForce
    <2>2. IsFiniteSet(S) /\ \A m \in S : IsWindow(m)
      BY MeasuredIs
    <2> HIDE DEF S
    <2>3. QED
      BY <2>1, <2>2
  <1>3. \A m \in S : d \notin DaysOf(m)
    BY <1>1, <1>2 DEF OnDay
  <1>4. IsFiniteSet(D) /\ Cardinality(D) = Length(seg)
    BY DaysAre
  <1>5. \A m \in S : F[m] = DaysOf(m) \cap D /\ f[m] = Cardinality(F[m])
    BY DEF Overlap
  <1>6. \A m, n \in S : m # n => DaysOf(m) \cap DaysOf(n) = {}
    BY <1>2 DEF WellFormed
  <1>7. Covered(in, s, seg) = SumFunctionOnSet(f, S)
    BY DEF Covered, Sum, SumFunction
  <1> HIDE DEF F, f, S
  <1>8. \A m \in S : IsFiniteSet(F[m])
    <2>1. \A m \in S : F[m] \subseteq D
      BY <1>5
    <2> HIDE DEF D
    <2>2. QED
      BY <1>4, <2>1, FS_Subset
  <1>9. \A m, n \in S : m # n => F[m] \cap F[n] = {}
    BY <1>5, <1>6
  <1>10. SumFunctionOnSet(f, S) = Cardinality(all)
    <2>1. IsFiniteSet(S) /\ \A m \in S : f[m] = Cardinality(F[m])
      BY <1>2, <1>5
    <2> HIDE DEF D
    <2>2. /\ SumFunctionOnSet(f, S) = Cardinality(UNION {F[m] : m \in S})
          /\ IsFiniteSet(UNION {F[m] : m \in S})
      BY <1>8, <1>9, <2>1, SumOfSizes
    <2>3. QED
      BY <2>2
  <1>11. all \subseteq D \ {d}
    BY <1>3, <1>5
  <1> HIDE DEF all, D
  <1>12. d \in D
    BY DEF D
  <1>13. Cardinality(D \ {d}) = Cardinality(D) - 1 /\ IsFiniteSet(D \ {d})
    BY <1>4, <1>12, FS_RemoveElement
  <1>14. Cardinality(all) <= Cardinality(D \ {d})
    BY <1>11, <1>13, FS_Subset
  <1>15. Length(seg) \in Nat /\ Cardinality(all) \in Nat
    BY <1>11, <1>13, FS_Subset, FS_CardinalityType, LengthIs
  <1>16. QED
    BY <1>4, <1>7, <1>10, <1>13, <1>14, <1>15

\* What forbids posting is kept, whatever order pools and leases come in.
Kept ==
    /\ \A p \in assembled : AssemblyExceptions(p) \subseteq exceptions
    /\ \A l \in charged : \A seg \in segments : \A q \in PoliciesIn(input, l, seg) :
          PolicyExceptions(q, seg) \subseteq exceptions
    /\ DOMAIN due # {} => charged = Lease
    /\ input.mode = "posting_eligible" =>
          \A l \in DOMAIN due : {input.adjustment[l].state, input.credit[l].state} \cap Unsettled # {}
                                  => <<"PRIOR_ADJUSTMENT_UNKNOWN", l>> \in exceptions

CompleteInv == EngineInv /\ Kept

\* The exceptions of a pool or a policy depend on the input only.
LEMMA SameExceptions ==
  ASSUME input' = input, segments' = segments
  PROVE  /\ \A p : AssemblyExceptions(p)' = AssemblyExceptions(p)
         /\ \A q, seg : PolicyExceptions(q, seg)' = PolicyExceptions(q, seg)
  <1>1. \A p, seg : UnmeasuredIn(p, seg)' = UnmeasuredIn(p, seg)
    BY DEF UnmeasuredIn
  <1>2. ASSUME NEW p PROVE AssemblyExceptions(p)' = AssemblyExceptions(p)
    <2> DEFINE filled == {seg \in segments : Included(input, p, seg) # {}}
               orphaned == {<<"POOL_ASSIGNMENT_ORPHANED", e>> : e \in Assigned(input, p) \ input.published}
               undated == {<<"EXPENSE_SERVICE_PERIOD_MISSING", e>> : e \in
                              (Assigned(input, p) \cap input.published) \ Spread(input, p)}
               uncategorized == {<<"EXPENSE_CATEGORY_MISSING", e>> : e \in
                            {e \in Spread(input, p) : /\ input.pools[p].categories # {} /\ input.expense[e].cat = None
                                                      /\ \E seg \in segments : Prorated(input, p, e, seg) > 0}}
               unmeasured == UNION {{<<"AREA_MISSING", s>> : s \in UnmeasuredIn(p, seg)} : seg \in filled}
               unknown == UNION {{<<"VARIABILITY_UNKNOWN", e>> : e \in OfKind(input, Included(input, p, seg), {"unknown"})}
                                   : seg \in filled}
    <2>1. filled' = filled
      OBVIOUS
    <2>2. orphaned' = orphaned
      OBVIOUS
    <2>3. undated' = undated
      OBVIOUS
    <2>4. uncategorized' = uncategorized
      OBVIOUS
    <2>5. unmeasured' = unmeasured
      <3> HIDE DEF filled
      <3>1. QED
        BY <1>1, <2>1
    <2>6. unknown' = unknown
      <3> HIDE DEF filled
      <3>1. QED
        BY <2>1
    <2>7. AssemblyExceptions(p) = orphaned \cup undated \cup uncategorized \cup unmeasured \cup unknown
      BY Zenon DEF AssemblyExceptions
    <2>8. AssemblyExceptions(p)' = orphaned' \cup undated' \cup uncategorized' \cup unmeasured' \cup unknown'
      BY Zenon DEF AssemblyExceptions
    <2> HIDE DEF orphaned, undated, uncategorized, unmeasured, unknown
    <2>9. QED
      BY <2>2, <2>3, <2>4, <2>5, <2>6, <2>7, <2>8
  <1>3. \A l, p, seg : PremisesExceptions(l, p, seg)' = PremisesExceptions(l, p, seg)
    BY Zenon DEF PremisesExceptions
  <1>4. \A q, p, seg : StepExceptions(q, p, seg)' = StepExceptions(q, p, seg)
    BY Zenon DEF StepExceptions
  <1>5. \A q, seg : PolicyExceptions(q, seg)' = PolicyExceptions(q, seg)
    BY <1>3, <1>4, Zenon DEF PolicyExceptions
  <1>6. QED
    BY <1>2, <1>5

\* Nothing is excepted at the start.
LEMMA KeptStart == EngineInit => Kept
  BY DEF EngineInit, Kept

\* No pass takes an exception away.
LEMMA KeptStep == EngineInv /\ Kept /\ [EngineNext]_engineVars => Kept'
  <1> SUFFICES ASSUME EngineInv, Kept, [EngineNext]_engineVars PROVE Kept'
    OBVIOUS
  <1>1. ASSUME NEW p \in Pool, Assemble(p) PROVE Kept'
    <2>1. /\ assembled' = assembled \cup {p} /\ exceptions' = exceptions \cup AssemblyExceptions(p)
          /\ input' = input /\ segments' = segments /\ charged' = charged /\ due' = due
      BY <1>1 DEF Assemble
    <2>2. QED
      BY <2>1, SameExceptions DEF Kept, Unsettled
  <1>2. ASSUME NEW p \in Pool, RoundPool(p) PROVE Kept'
    <2>1. /\ assembled' = assembled /\ exceptions' = exceptions
          /\ input' = input /\ segments' = segments /\ charged' = charged /\ due' = due
      BY <1>2 DEF RoundPool
    <2>2. QED
      BY <2>1, SameExceptions DEF Kept, Unsettled
  <1>3. ASSUME NEW l \in Lease, ChargeLease(l) PROVE Kept'
    <2> DEFINE mine == UNION {UNION {PolicyExceptions(q, seg) : q \in PoliciesIn(input, l, seg)} : seg \in segments}
    <2>1. /\ l \in Lease \ charged
          /\ assembled' = assembled /\ charged' = charged \cup {l} /\ exceptions' = exceptions \cup mine
          /\ input' = input /\ segments' = segments /\ due' = due
      BY <1>3 DEF ChargeLease
    <2>2. \A seg \in segments : \A q \in PoliciesIn(input, l, seg) : PolicyExceptions(q, seg) \subseteq mine
      OBVIOUS
    <2>3. DOMAIN due = {}
      BY <2>1 DEF Kept
    <2> HIDE DEF mine
    <2>4. \A k \in charged' : \A seg \in segments' : \A q \in PoliciesIn(input', k, seg) :
            PolicyExceptions(q, seg)' \subseteq exceptions'
      BY <2>1, <2>2, SameExceptions DEF Kept
    <2>5. \A p \in assembled' : AssemblyExceptions(p)' \subseteq exceptions'
      BY <2>1, SameExceptions DEF Kept
    <2>6. QED
      BY <2>1, <2>3, <2>4, <2>5 DEF Kept
  <1>4. ASSUME NEW l \in Lease, Reconcile(l) PROVE Kept'
    <2> DEFINE open(k) == {input.adjustment[k].state, input.credit[k].state} \cap Unsettled # {}
    <2>1. /\ charged = Lease /\ DOMAIN due' = DOMAIN due \cup {l}
          /\ exceptions' = IF input.mode = "posting_eligible" /\ open(l)
                             THEN exceptions \cup {<<"PRIOR_ADJUSTMENT_UNKNOWN", l>>} ELSE exceptions
          /\ assembled' = assembled /\ charged' = charged /\ input' = input /\ segments' = segments
      BY <1>4 DEF Reconcile
    <2>2. exceptions \subseteq exceptions'
      BY <2>1
    <2>3. /\ \A p \in assembled' : AssemblyExceptions(p)' \subseteq exceptions'
          /\ \A k \in charged' : \A seg \in segments' : \A q \in PoliciesIn(input', k, seg) :
                PolicyExceptions(q, seg)' \subseteq exceptions'
      BY <2>1, <2>2, SameExceptions DEF Kept
    <2>4. input.mode = "posting_eligible" =>
             \A k \in DOMAIN due' : open(k) => <<"PRIOR_ADJUSTMENT_UNKNOWN", k>> \in exceptions'
      <3>1. input.mode = "posting_eligible" =>
               \A k \in DOMAIN due : open(k) => <<"PRIOR_ADJUSTMENT_UNKNOWN", k>> \in exceptions
        BY DEF Kept
      <3> HIDE DEF open
      <3>2. QED
        BY <2>1, <2>2, <3>1
    <2>5. QED
      BY <2>1, <2>3, <2>4 DEF Kept, Unsettled
  <1>5. CASE UNCHANGED engineVars
    <2>1. /\ assembled' = assembled /\ exceptions' = exceptions
          /\ input' = input /\ segments' = segments /\ charged' = charged /\ due' = due
      BY <1>5 DEF engineVars
    <2>2. QED
      BY <2>1, SameExceptions DEF Kept, Unsettled
  <1>6. QED
    BY <1>1, <1>2, <1>3, <1>4, <1>5 DEF EngineNext

\* Whatever forbids posting is still there at the end, in whatever order pools
\* and leases come.
THEOREM ExceptionsKept == EngineSpec => []CompleteInv
  <1>1. QED
    BY EngineStart, EngineStep, KeptStart, KeptStep, PTL DEF EngineSpec, CompleteInv

-----------------------------------------------------------------------------
\* With no exception, all is assembled and charged, and nothing was excepted.
LEMMA NothingExcepted ==
  ASSUME CompleteInv, Ready
  PROVE  /\ \A p \in Pool : AssemblyExceptions(p) = {}
         /\ \A l \in Lease, seg \in segments : \A q \in PoliciesIn(input, l, seg) : PolicyExceptions(q, seg) = {}
         /\ input.mode = "posting_eligible" =>
               \A l \in Lease : {input.adjustment[l].state, input.credit[l].state} \cap Unsettled = {}
  <1>1. assembled = Pool /\ DOMAIN due = Lease /\ exceptions = {}
    BY DEF Ready, Done
  <1>2. charged = Lease
    BY <1>1 DEF CompleteInv, Kept, EngineInv
  <1>3. QED
    BY <1>1, <1>2 DEF CompleteInv, Kept

\* With no exception, what is assigned to a pool is published and dated, and
\* where the pool includes something all is measured and of known kind.
LEMMA AssembledWell ==
  ASSUME CompleteInv, Ready, NEW p \in Pool
  PROVE  /\ \A e \in Assigned(input, p) : e \in input.published /\ input.expense[e].period # None
         /\ \A seg \in segments : Included(input, p, seg) # {} =>
               /\ UnmeasuredIn(p, seg) = {}
               /\ \A e \in Included(input, p, seg) : input.expense[e].variability # "unknown"
  <1> DEFINE orphaned == {<<"POOL_ASSIGNMENT_ORPHANED", e>> : e \in Assigned(input, p) \ input.published}
             undated == {<<"EXPENSE_SERVICE_PERIOD_MISSING", e>> : e \in
                            (Assigned(input, p) \cap input.published) \ Spread(input, p)}
             uncategorized == {<<"EXPENSE_CATEGORY_MISSING", e>> : e \in
                            {e \in Spread(input, p) : /\ input.pools[p].categories # {} /\ input.expense[e].cat = None
                                                      /\ \E seg \in segments : Prorated(input, p, e, seg) > 0}}
             filled == {seg \in segments : Included(input, p, seg) # {}}
             unmeasured == UNION {{<<"AREA_MISSING", s>> : s \in UnmeasuredIn(p, seg)} : seg \in filled}
             unknown == UNION {{<<"VARIABILITY_UNKNOWN", e>> : e \in OfKind(input, Included(input, p, seg), {"unknown"})}
                                 : seg \in filled}
  <1>1. orphaned = {} /\ undated = {} /\ unmeasured = {} /\ unknown = {}
    <2>1. AssemblyExceptions(p) = orphaned \cup undated \cup uncategorized \cup unmeasured \cup unknown
      BY Zenon DEF AssemblyExceptions
    <2> HIDE DEF orphaned, undated, uncategorized, unmeasured, unknown
    <2>2. QED
      BY <2>1, NothingExcepted
  <1>2. ASSUME NEW e \in Assigned(input, p) PROVE e \in input.published /\ input.expense[e].period # None
    <2>1. e \in input.published
      BY <1>1
    <2>2. ASSUME e \notin Spread(input, p) PROVE FALSE
      <3>1. e \in (Assigned(input, p) \cap input.published) \ Spread(input, p)
        BY <2>1, <2>2
      <3>2. <<"EXPENSE_SERVICE_PERIOD_MISSING", e>> \in undated
        BY <3>1
      <3> HIDE DEF undated
      <3>3. QED
        BY <1>1, <3>2
    <2>3. QED
      BY <2>1, <2>2 DEF Spread
  <1>3. ASSUME NEW seg \in segments, Included(input, p, seg) # {}
        PROVE  /\ UnmeasuredIn(p, seg) = {}
               /\ \A e \in Included(input, p, seg) : input.expense[e].variability # "unknown"
    <2>1. seg \in filled
      BY <1>3
    <2> HIDE DEF filled
    <2>2. \A s \in UnmeasuredIn(p, seg) : <<"AREA_MISSING", s>> \in unmeasured
      BY <2>1
    <2>3. \A e \in OfKind(input, Included(input, p, seg), {"unknown"}) : <<"VARIABILITY_UNKNOWN", e>> \in unknown
      BY <2>1
    <2> HIDE DEF unmeasured, unknown
    <2>4. QED
      BY <1>1, <2>2, <2>3 DEF OfKind
  <1>4. QED
    BY <1>2, <1>3

\* A cost of a day that is worth something is in the pool in its segment.
LEMMA WorthIsIncluded ==
  ASSUME CompleteInv, Ready, NEW p \in Pool, NEW seg \in segments, NEW d \in DaysOf(seg), NEW e \in WorthOn(p, d)
  PROVE  e \in Included(input, p, seg)
  <1> DEFINE period == input.expense[e].period
             a == input.assigned[<<e, p>>]
             o == Overlap(period, seg)
             n == Length(period)
             r == RoundDiv(a * o, n)
  <1>1. e \in Assigned(input, p) /\ period # None /\ d \in DaysOf(period)
        /\ Accepts(input.pools[p].categories, input.expense[e].cat) /\ 2 * a >= n
    BY DEF WorthOn, CostsOn
  <1>2. e \in Spread(input, p)
    BY <1>1, AssembledWell DEF Spread
  <1>3. WellFormed(input) /\ IsWindow(seg)
    BY WellFormedInput, SegmentIs DEF CompleteInv, EngineInv
  <1>4. a \in Nat /\ IsWindow(period)
    BY <1>2, <1>3, SpreadIs
  <1>5. o \in Nat /\ o >= 1 /\ n \in Nat \ {0}
    <2>1. IsFiniteSet(DaysOf(period) \cap DaysOf(seg)) /\ DaysOf(period) \cap DaysOf(seg) # {}
      BY <1>1, <1>4, DaysAre, FS_Intersection
    <2>2. Cardinality(DaysOf(period) \cap DaysOf(seg)) # 0
      BY <2>1, FS_EmptySet
    <2>3. o = Cardinality(DaysOf(period) \cap DaysOf(seg)) /\ o \in Nat /\ n \in Nat \ {0}
      BY <1>3, <1>4, OverlapIs, LengthIs DEF Overlap
    <2> HIDE DEF o, n
    <2>4. QED
      BY <2>2, <2>3
  <1>6. Prorated(input, p, e, seg) = r
    BY DEF Prorated
  <1>7. r > 0
    <2> HIDE DEF a, o, n
    <2>1. a * o \in Nat /\ a * o >= a
      <3>1. a * o = a + a * (o - 1)
        BY <1>4, <1>5
      <3>2. a * (o - 1) \in Nat
        BY <1>4, <1>5
      <3>3. QED
        BY <1>4, <3>1, <3>2
    <2>2. r \in Int /\ 2 * (a * o) + n < 2 * (n * r) + 2 * n
      BY <1>5, <2>1, RoundDivIs
    <2> HIDE DEF r
    <2>3. SUFFICES ASSUME r <= 0 PROVE FALSE
      BY <2>2
    <2>4. n * r <= 0 /\ n * r \in Int
      BY <1>5, <2>2, <2>3
    <2>5. QED
      BY <1>1, <1>4, <1>5, <2>1, <2>2, <2>4
  <1> HIDE DEF r
  <1>8. QED
    BY <1>1, <1>2, <1>6, <1>7 DEF Included

\* A policy that is in force in a segment was run there without exceptions.
LEMMA PolicyRan ==
  ASSUME CompleteInv, Ready, NEW seg \in segments, NEW l \in Lease, NEW q \in PoliciesIn(input, l, seg)
  PROVE  /\ Rivals(input, q, seg) = {} /\ PoolsFor(input, q, seg) # {}
         /\ \A p \in PoolsFor(input, q, seg) :
               /\ PremisesIn(input, l, p, seg) # {}
               /\ \A x \in PremisesIn(input, l, p, seg) :
                     InForce(x.areas, seg) # {} /\ \A a \in InForce(x.areas, seg) : a.area # None
  <1>1. PolicyExceptions(q, seg) = {} /\ q.lease = l
    BY NothingExcepted DEF PoliciesIn
  <1> DEFINE both == {q} \cup Rivals(input, q, seg)
             targets == {r.terms.target : r \in {r \in both : Has(r, "target")}}
             rival == <<IF Cardinality(targets) > 1 THEN "GROSS_UP_TARGET_CONFLICT"
                        ELSE "DUPLICATE_RECOVERY_PATH", q.lease>>
             ran == UNION {PremisesExceptions(q.lease, p, seg) \cup StepExceptions(q, p, seg)
                             : p \in PoolsFor(input, q, seg)}
  <1>2. PolicyExceptions(q, seg) =
           IF PoolsFor(input, q, seg) = {} THEN {<<"LEASE_POOL_UNRESOLVED", q.lease>>}
           ELSE IF Rivals(input, q, seg) # {} THEN {rival} ELSE ran
    BY Zenon DEF PolicyExceptions
  <1>3. Rivals(input, q, seg) = {} /\ PoolsFor(input, q, seg) # {} /\ ran = {}
    <2> HIDE DEF rival, ran
    <2>1. QED
      BY <1>1, <1>2
  <1>4. ASSUME NEW p \in PoolsFor(input, q, seg)
        PROVE  /\ PremisesIn(input, l, p, seg) # {}
               /\ \A x \in PremisesIn(input, l, p, seg) :
                     InForce(x.areas, seg) # {} /\ \A a \in InForce(x.areas, seg) : a.area # None
    <2> DEFINE P == PremisesIn(input, l, p, seg)
               bad == {x \in P : \/ InForce(x.areas, seg) = {}
                                 \/ \E a \in InForce(x.areas, seg) : a.area = None}
    <2>1. PremisesExceptions(l, p, seg) = {}
      BY <1>1, <1>3
    <2>2. PremisesExceptions(l, p, seg) = IF P = {} THEN {<<"PREMISES_MISSING", l>>}
                                          ELSE {<<"AREA_MISSING", l>> : x \in bad}
      BY Zenon DEF PremisesExceptions
    <2>3. P # {} /\ bad = {}
      <3> HIDE DEF P, bad
      <3>1. QED
        BY <2>1, <2>2
    <2>4. QED
      BY <2>3
  <1>5. QED
    BY <1>3, <1>4

\* What is ready to be posted is complete on every day of the period, for any
\* input the tables admit.
THEOREM ReadyIsComplete == EngineSpec => []ReadyMeansComplete
  <1>1. ASSUME CompleteInv, Ready PROVE ReadyMeansComplete
    <2>1. WellFormed(input) /\ segments = Segments(input)
      BY <1>1, WellFormedInput DEF CompleteInv, EngineInv
    <2>2. ASSUME NEW l \in Lease, NEW d \in DaysOf(Period), NEW q \in PoliciesOn(l, d)
          PROVE  /\ \A r \in PoliciesOn(l, d) : r.cat = q.cat => r = q
                 /\ PoolsOn(q, d) # {}
                 /\ \A p \in PoolsOn(q, d) :
                       /\ \A x \in PremisesOn(l, p, d) : OnDay(x.areas, d) # {}
                       /\ AreasOn(l, p, d) # {}
                       /\ \A at \in AreasOn(l, p, d) : at[2].area # None
                       /\ WorthOn(p, d) # {} =>
                             \A s \in ScopesOn(p, d) : \E m \in OnDay(input.measurements, d) : m.scope = s
      <3>1. PICK seg \in segments : d \in DaysOf(seg)
        BY <2>1, SegmentOf
      <3>2. IsWindow(seg)
        BY <2>1, SegmentIs
      <3>3. /\ PoliciesOn(l, d) = PoliciesIn(input, l, seg) /\ PoolsOn(q, d) = PoolsFor(input, q, seg)
            /\ \A p \in Pool : /\ ScopesOn(p, d) = Scopes(input, p, seg)
                               /\ PremisesOn(l, p, d) = PremisesIn(input, l, p, seg)
            /\ \A x \in input.premises : OnDay(x.areas, d) = InForce(x.areas, seg)
        BY <2>1, <3>1, DaysOfSegment
      <3>4. q \in PoliciesIn(input, l, seg) /\ q.lease = l
        BY <2>2, <3>3 DEF PoliciesIn
      <3>5. /\ Rivals(input, q, seg) = {} /\ PoolsFor(input, q, seg) # {}
            /\ \A p \in PoolsFor(input, q, seg) :
                  /\ PremisesIn(input, l, p, seg) # {}
                  /\ \A x \in PremisesIn(input, l, p, seg) :
                        InForce(x.areas, seg) # {} /\ \A a \in InForce(x.areas, seg) : a.area # None
        BY <1>1, <3>4, PolicyRan
      <3>6. \A r \in PoliciesOn(l, d) : r.cat = q.cat => r = q
        BY <3>3, <3>4, <3>5 DEF Rivals
      <3>7. ASSUME NEW p \in PoolsOn(q, d)
            PROVE  /\ \A x \in PremisesOn(l, p, d) : OnDay(x.areas, d) # {}
                   /\ AreasOn(l, p, d) # {}
                   /\ \A at \in AreasOn(l, p, d) : at[2].area # None
                   /\ WorthOn(p, d) # {} =>
                         \A s \in ScopesOn(p, d) : \E m \in OnDay(input.measurements, d) : m.scope = s
        <4>1. p \in Pool /\ p \in PoolsFor(input, q, seg)
          BY <3>3 DEF PoolsOn
        <4>2. /\ PremisesOn(l, p, d) # {}
              /\ \A x \in PremisesOn(l, p, d) :
                    x \in input.premises /\ OnDay(x.areas, d) # {} /\ \A a \in OnDay(x.areas, d) : a.area # None
          <5>1. \A x \in PremisesOn(l, p, d) : x \in input.premises
            BY DEF PremisesOn, OnDay
          <5>2. PremisesOn(l, p, d) = PremisesIn(input, l, p, seg)
            BY <3>3, <4>1
          <5>3. PremisesIn(input, l, p, seg) # {}
            BY <3>5, <4>1
          <5>4. ASSUME NEW x \in PremisesOn(l, p, d)
                PROVE  OnDay(x.areas, d) # {} /\ \A a \in OnDay(x.areas, d) : a.area # None
            <6>1. OnDay(x.areas, d) = InForce(x.areas, seg)
              BY <3>3, <5>1
            <6>2. InForce(x.areas, seg) # {} /\ \A a \in InForce(x.areas, seg) : a.area # None
              BY <3>5, <4>1, <5>2
            <6>3. QED
              BY <6>1, <6>2
          <5>5. PremisesOn(l, p, d) # {}
            BY <5>2, <5>3
          <5>6. QED
            BY <5>1, <5>4, <5>5
        <4>3. AreasOn(l, p, d) # {} /\ \A at \in AreasOn(l, p, d) : at[2].area # None
          <5>1. PICK x \in PremisesOn(l, p, d) : TRUE
            BY <4>2
          <5>2. PICK a \in OnDay(x.areas, d) : TRUE
            BY <4>2
          <5>3. <<x, a>> \in AreasOn(l, p, d)
            BY DEF AreasOn
          <5>4. ASSUME NEW at \in AreasOn(l, p, d) PROVE at[2].area # None
            <6>1. PICK y \in PremisesOn(l, p, d) : \E b \in OnDay(y.areas, d) : at = <<y, b>>
              BY DEF AreasOn
            <6>2. PICK b \in OnDay(y.areas, d) : at = <<y, b>>
              BY <6>1
            <6>3. at[2] = b
              BY <6>2
            <6>4. QED
              BY <4>2, <6>3
          <5>5. QED
            BY <5>3, <5>4
        <4>4. ASSUME WorthOn(p, d) # {}, NEW s \in ScopesOn(p, d)
              PROVE  \E m \in OnDay(input.measurements, d) : m.scope = s
          <5>1. Included(input, p, seg) # {}
            BY <1>1, <3>1, <4>1, <4>4, WorthIsIncluded
          <5>2. UnmeasuredIn(p, seg) = {} /\ s \in Scopes(input, p, seg)
            BY <1>1, <3>1, <3>3, <4>1, <4>4, <5>1, AssembledWell
          <5>3. Covered(input, s, seg) \in Nat /\ Length(seg) \in Nat
            BY <2>1, <3>2, CoveredNat, LengthIs
          <5>4. Covered(input, s, seg) >= Length(seg)
            BY <5>2, <5>3 DEF UnmeasuredIn
          <5>5. QED
            BY <2>1, <3>1, <3>2, <5>4, MeasuredDaily
        <4>5. QED
          BY <4>2, <4>3, <4>4
      <3>8. QED
        BY <3>3, <3>5, <3>6, <3>7
    <2>3. \A p \in Pool : \A e \in Assigned(input, p) :
             e \in input.published /\ input.expense[e].period # None
      BY <1>1, AssembledWell
    <2>4. ASSUME NEW p \in Pool, NEW d \in DaysOf(Period), NEW e \in WorthOn(p, d)
          PROVE  input.expense[e].variability # "unknown"
      <3>1. PICK seg \in segments : d \in DaysOf(seg)
        BY <2>1, SegmentOf
      <3>2. e \in Included(input, p, seg)
        BY <1>1, <3>1, WorthIsIncluded
      <3>3. QED
        BY <1>1, <3>2, AssembledWell
    <2>5. input.mode = "posting_eligible" =>
             \A l \in Lease : {input.adjustment[l].state, input.credit[l].state}
                               \subseteq {"KNOWN_ZERO", "KNOWN_AMOUNT", "NOT_APPLICABLE"}
      <3>1. \A l \in Lease : {input.adjustment[l].state, input.credit[l].state}
               \subseteq {"missing", "UNKNOWN", "KNOWN_ZERO", "KNOWN_AMOUNT", "NOT_APPLICABLE"}
        BY <2>1 DEF WellFormed
      <3>2. QED
        BY <1>1, <3>1, NothingExcepted DEF Unsettled
    <2>6. QED
      BY <2>2, <2>3, <2>4, <2>5 DEF ReadyMeansComplete
  <1>2. CompleteInv => ReadyMeansComplete
    BY <1>1 DEF ReadyMeansComplete
  <1>3. QED
    BY <1>2, ExceptionsKept, PTL

-----------------------------------------------------------------------------
(* What a lease owes *)

\* What a lease owes a pool depends on the input only.
LEMMA SameOwed ==
  ASSUME input' = input, segments' = segments
  PROVE  /\ \A q : Places(q)' = Places(q)
         /\ \A l, p : Owed(l, p)' = Owed(l, p)
  <1>1. ASSUME NEW q PROVE Places(q)' = Places(q)
    <2> DEFINE S == {s \in segments : q \in PoliciesIn(input, q.lease, s) /\ Runs(q, s)}
    <2>1. \A s : Runs(q, s)' = Runs(q, s)
      BY DEF Runs
    <2>2. S' = S
      BY <2>1
    <2>3. Places(q) = UNION {PoolsFor(input, q, seg) \X {seg} : seg \in S}
      BY DEF Places
    <2>4. Places(q)' = UNION {PoolsFor(input', q, seg) \X {seg} : seg \in S'}
      BY DEF Places
    <2> HIDE DEF S
    <2>5. QED
      BY <2>2, <2>3, <2>4
  <1>2. ASSUME NEW l, NEW p PROVE Owed(l, p)' = Owed(l, p)
    <2> DEFINE Q == {q \in input.policies : q.lease = l}
               at(q) == {<<q, seg>> : seg \in {s \in segments : <<p, s>> \in Places(q)}}
               S == UNION {at(q) : q \in Q}
    <2>1. Q' = Q
      OBVIOUS
    <2>2. \A q : at(q)' = at(q)
      BY <1>1
    <2>3. S' = S
      <3> HIDE DEF Q, at
      <3>1. QED
        BY <2>1, <2>2
    <2>4. Owed(l, p) = SumFunction([x \in S |-> Charge(input, x[1], p, x[2])])
      BY Zenon DEF Owed, Sum
    <2>5. Owed(l, p)' = SumFunction([x \in S' |-> Charge(input', x[1], p, x[2])])
      BY Zenon DEF Owed, Sum
    <2> HIDE DEF S
    <2>6. QED
      BY <2>3, <2>4, <2>5
  <1>3. QED
    BY <1>1, <1>2

\* A lease owes a pool what its policies recover there.
Owing ==
    \A p \in Pool : /\ \A l \in DOMAIN raw[p] : l \in charged /\ raw[p][l] = Owed(l, p)
                    /\ \A l \in charged : \A q \in PoliciesOf(l) : \A seg \in segments :
                          <<p, seg>> \in Places(q) => l \in DOMAIN raw[p]

OwingInv == CompleteInv /\ Owing

\* No lease is charged at the start.
LEMMA OwingStart == EngineInit => Owing
  <1> SUFFICES ASSUME EngineInit PROVE Owing
    OBVIOUS
  <1>1. charged = {} /\ \A p \in Pool : raw[p] = NoAmounts
    BY DEF EngineInit
  <1>2. DOMAIN NoAmounts = {}
    BY DEF NoAmounts
  <1>3. QED
    BY <1>1, <1>2 DEF Owing

\* What a lease owes is found once, when it is charged.
LEMMA OwingStep == EngineInv /\ Owing /\ [EngineNext]_engineVars => Owing'
  <1> SUFFICES ASSUME EngineInv, Owing, [EngineNext]_engineVars PROVE Owing'
    OBVIOUS
  <1>1. input' = input /\ segments' = segments
    BY DEF EngineNext, engineVars, Assemble, RoundPool, ChargeLease, Reconcile
  <1>2. /\ \A q : Places(q)' = Places(q)
        /\ \A l, p : Owed(l, p)' = Owed(l, p)
    BY <1>1, SameOwed
  <1>3. \A l : PoliciesOf(l)' = PoliciesOf(l)
    BY <1>1 DEF PoliciesOf
  <1>4. CASE charged' = charged /\ raw' = raw
    BY <1>1, <1>2, <1>3, <1>4 DEF Owing
  <1>5. ASSUME NEW l \in Lease, ChargeLease(l) PROVE Owing'
    <2> DEFINE mine == {q \in input.policies : q.lease = l}
               pools == {p \in Pool : \E q \in mine : \E seg \in segments : <<p, seg>> \in Places(q)}
    <2>1. /\ charged' = charged \cup {l} /\ l \notin charged
          /\ raw' = [p \in Pool |-> IF p \in pools
                       THEN [k \in DOMAIN raw[p] \cup {l} |-> IF k = l THEN Owed(l, p) ELSE raw[p][k]]
                       ELSE raw[p]]
      BY <1>5 DEF ChargeLease
    <2>2. ASSUME NEW p \in Pool, p \in pools
          PROVE  /\ \A k \in DOMAIN raw'[p] : k \in charged' /\ raw'[p][k] = Owed(k, p)
                 /\ DOMAIN raw'[p] = DOMAIN raw[p] \cup {l}
      <3> HIDE DEF pools
      <3>1. raw'[p] = [k \in DOMAIN raw[p] \cup {l} |-> IF k = l THEN Owed(l, p) ELSE raw[p][k]]
        BY <2>1, <2>2
      <3>2. \A k \in DOMAIN raw[p] : k \in charged /\ raw[p][k] = Owed(k, p)
        BY DEF Owing
      <3>3. QED
        BY <2>1, <3>1, <3>2
    <2>3. ASSUME NEW p \in Pool, p \notin pools
          PROVE  /\ \A k \in DOMAIN raw'[p] : k \in charged' /\ raw'[p][k] = Owed(k, p)
                 /\ DOMAIN raw'[p] = DOMAIN raw[p]
      <3> HIDE DEF pools
      <3>1. raw'[p] = raw[p]
        BY <2>1, <2>3
      <3>2. \A k \in DOMAIN raw[p] : k \in charged /\ raw[p][k] = Owed(k, p)
        BY DEF Owing
      <3>3. QED
        BY <2>1, <3>1, <3>2
    <2>4. ASSUME NEW p \in Pool, NEW k \in charged', NEW q \in PoliciesOf(k), NEW seg \in segments,
                 <<p, seg>> \in Places(q)
          PROVE  k \in DOMAIN raw'[p]
      <3>1. CASE k = l
        <4>1. p \in pools
          BY <2>4, <3>1 DEF PoliciesOf
        <4> HIDE DEF pools
        <4>2. QED
          BY <2>2, <3>1, <4>1
      <3>2. CASE k # l
        <4>1. k \in charged
          BY <2>1, <3>2
        <4>2. k \in DOMAIN raw[p]
          BY <2>4, <4>1 DEF Owing
        <4> HIDE DEF pools
        <4>3. QED
          BY <2>2, <2>3, <4>2
      <3>3. QED
        BY <3>1, <3>2
    <2>5. \A p \in Pool : \A k \in DOMAIN raw'[p] : k \in charged' /\ raw'[p][k] = Owed(k, p)
      <3> HIDE DEF pools
      <3>1. QED
        BY <2>2, <2>3
    <2> HIDE DEF pools
    <2>6. QED
      BY <1>1, <1>2, <1>3, <2>4, <2>5 DEF Owing
  <1>6. QED
    BY <1>4, <1>5 DEF EngineNext, engineVars, Assemble, RoundPool, Reconcile

\* A lease that was charged owes a pool what its policies recover there, and
\* other leases and pools do not change it.
THEOREM OwedInvariance == EngineSpec => []OwingInv
  <1>1. QED
    BY ExceptionsKept, EngineInvariance, OwingStart, OwingStep, PTL DEF EngineSpec, OwingInv

\* The segments in which a policy recovers from a pool.
Recovers(q, p) == {s \in segments : <<p, s>> \in Places(q)}

\* A lease with one policy owes what its segments are charged.
LEMMA OwedOverSegments ==
  ASSUME EngineInv, NEW p \in Pool, NEW q \in input.policies, PoliciesOf(q.lease) = {q},
         NEW g, \A s \in Recovers(q, p) : g[s] = Charge(input, q, p, s)
  PROVE  /\ Owed(q.lease, p) = SumFunctionOnSet(g, Recovers(q, p))
         /\ IsFiniteSet(Recovers(q, p)) /\ Cardinality(Recovers(q, p)) <= Cardinality(segments)
         /\ Cardinality(Recovers(q, p)) \in Nat /\ Cardinality(segments) \in Nat
         /\ \A s \in Recovers(q, p) : s \in Segments(input) /\ IsWindow(s) /\ g[s] \in Int
  <1> DEFINE A == Recovers(q, p)
             at(r) == {<<r, seg>> : seg \in {s \in segments : <<p, s>> \in Places(r)}}
             Q == {r \in input.policies : r.lease = q.lease}
             S == UNION {at(r) : r \in Q}
             h == [s \in A |-> <<q, s>>]
             f == [x \in S |-> Charge(input, x[1], p, x[2])]
  <1>1. WellFormed(input) /\ segments = Segments(input)
    BY WellFormedInput DEF EngineInv
  <1>2. A \subseteq segments
    BY DEF Recovers
  <1>3. IsFiniteSet(segments)
    BY <1>1, SegmentsFinite
  <1>4. \A s \in A : s \in Segments(input) /\ IsWindow(s)
    BY <1>1, <1>2, SegmentIs
  <1>5. \A s \in A : g[s] \in Int
    <2>1. \A s \in A : Charge(input, q, p, s) \in Money(input)
      BY <1>1, <1>4, ChargeIs
    <2>2. QED
      BY <2>1, MoneyIs
  <1>6. IsFiniteSet(A) /\ Cardinality(A) <= Cardinality(segments)
    BY <1>2, <1>3, FS_Subset
  <1>7. S = {h[s] : s \in A}
    <2>1. Q = {q}
      BY DEF PoliciesOf
    <2>2. at(q) = {h[s] : s \in A}
      BY DEF Recovers
    <2> HIDE DEF at, Q
    <2>3. QED
      BY <2>1, <2>2
  <1>8. \A s \in A : h[s] = <<q, s>> /\ <<q, s>> \in S
    BY <1>7
  <1>9. \A s \in A : f[h[s]] = g[s]
    <2>1. \A x \in S : f[x] = Charge(input, x[1], p, x[2])
      OBVIOUS
    <2>2. \A s \in A : h[s][1] = q /\ h[s][2] = s
      OBVIOUS
    <2> HIDE DEF f, S, h
    <2>3. ASSUME NEW s \in A PROVE f[h[s]] = g[s]
      <3>1. h[s] \in S
        BY <1>8
      <3>2. f[h[s]] = Charge(input, h[s][1], p, h[s][2])
        BY <2>1, <3>1
      <3>3. QED
        BY <2>2, <3>2
    <2>4. QED
      BY <2>3
  <1>10. Owed(q.lease, p) = SumFunction(f)
    BY Zenon DEF Owed, Sum
  <1>11. SumFunction(f) = SumFunctionOnSet(f, S)
    BY DEF SumFunction
  <1>12. h = [s \in A |-> h[s]] /\ \A s, t \in A : h[s] = h[t] => s = t
    OBVIOUS
  <1> HIDE DEF f, S, h
  <1>13. SumFunctionOnSet(f, {h[s] : s \in A}) = SumFunctionOnSet(g, A)
    BY <1>5, <1>6, <1>9, <1>12, SumRenamed
  <1>14. Cardinality(A) \in Nat /\ Cardinality(segments) \in Nat
    BY <1>3, <1>6, FS_CardinalityType
  <1>15. QED
    BY <1>4, <1>5, <1>6, <1>7, <1>10, <1>11, <1>13, <1>14

\* These segments are made of the days on which the policy recovers.
LEMMA DaysRecovered ==
  ASSUME EngineInv, NEW p \in Pool, NEW q \in input.policies, PoliciesOf(q.lease) = {q}
  PROVE  /\ DaysIn(q, p) = UNION {DaysOf(s) : s \in Recovers(q, p)}
         /\ \A s, t \in Recovers(q, p) : s # t => DaysOf(s) \cap DaysOf(t) = {}
  <1>1. WellFormed(input) /\ segments = Segments(input)
    BY WellFormedInput DEF EngineInv
  <1>2. ASSUME NEW s \in segments
        PROVE  s \in Recovers(q, p) <=> q \in PoliciesIn(input, q.lease, s) /\ p \in PoolsFor(input, q, s)
    <2>1. Rivals(input, q, s) = {}
      BY DEF Rivals, PoliciesIn, InForce, PoliciesOf
    <2>2. <<p, s>> \in Places(q) <=> /\ q \in PoliciesIn(input, q.lease, s) /\ Runs(q, s)
                                     /\ p \in PoolsFor(input, q, s)
      BY DEF Places
    <2>3. QED
      BY <2>1, <2>2 DEF Recovers, Runs
  <1>3. ASSUME NEW s \in segments, NEW d \in DaysOf(s)
        PROVE  s \in Recovers(q, p) <=> d \in DaysIn(q, p)
    <2>1. q \in PoliciesOn(q.lease, d) <=> d \in DaysOf(q)
      BY DEF PoliciesOn, OnDay
    <2>2. d \in DaysOf(Period)
      <3>1. s \in [from : DaysOf(Period), to : DaysOf(Period)] /\ IsWindow(s)
        BY <1>1, SegmentIs
      <3>2. QED
        BY <3>1, PeriodIs DEF DaysOf, IsWindow
    <2>3. PoliciesOn(q.lease, d) = PoliciesIn(input, q.lease, s) /\ PoolsOn(q, d) = PoolsFor(input, q, s)
      BY <1>1, DaysOfSegment
    <2>4. QED
      BY <1>2, <2>1, <2>2, <2>3 DEF DaysIn
  <1>4. ASSUME NEW d \in DaysIn(q, p) PROVE \E s \in Recovers(q, p) : d \in DaysOf(s)
    <2>1. d \in DaysOf(Period)
      BY DEF DaysIn
    <2>2. PICK s \in segments : d \in DaysOf(s)
      BY <1>1, <2>1, SegmentOf
    <2>3. QED
      BY <1>3, <2>2
  <1>5. Recovers(q, p) \subseteq segments
    BY DEF Recovers
  <1>6. QED
    BY <1>1, <1>3, <1>4, <1>5, SegmentsApart

\* Half an internal unit for each segment.
LEMMA OfTheYear ==
  ASSUME NEW amount \in Int, NEW seg, IsWindow(seg)
  PROVE  /\ 2 * (Days * Yearly(amount, seg)) <= 2 * (amount * Length(seg)) + Days
         /\ 2 * (amount * Length(seg)) <= 2 * (Days * Yearly(amount, seg)) + Days
         /\ Yearly(amount, seg) \in Int
  <1>1. Days \in Nat \ {0} /\ Length(seg) \in Nat
    BY LengthIs, PeriodIs
  <1>2. amount * Length(seg) \in Int
    BY <1>1
  <1> DEFINE n == amount * Length(seg)
             y == Days * RoundDiv(n, Days)
  <1>3. RoundDiv(n, Days) \in Int /\ 2 * y <= 2 * n + Days /\ 2 * n + Days < 2 * y + 2 * Days
    BY <1>1, <1>2, RoundDivIs
  <1>4. y \in Int
    BY <1>1, <1>3
  <1>5. Yearly(amount, seg) = RoundDiv(n, Days)
    BY DEF Yearly
  <1> HIDE DEF n, y
  <1>6. 2 * y <= 2 * n + Days /\ 2 * n <= 2 * y + Days
    BY <1>1, <1>2, <1>3, <1>4 DEF n
  <1>7. QED
    BY <1>3, <1>5, <1>6 DEF n, y

\* Terms for a year keep their meaning over the segments, however many there
\* are: a directly assigned amount is charged for the days it holds, and a cap
\* bounds what is recovered of controllable costs in these days, up to half an
\* internal unit for each segment.
THEOREM YearlyAmounts == EngineSpec => []YearlyTerms
  <1>1. OwingInv => YearlyTerms
    <2> SUFFICES ASSUME OwingInv, Ready, NEW p \in Pool, NEW q \in input.policies,
                        PoliciesOf(q.lease) = {q}, DaysIn(q, p) # {}
        PROVE LET year == Days * raw[p][q.lease]
                  share(amount) == amount * Cardinality(DaysIn(q, p))
              IN  /\ Has(q, "direct") =>
                        /\ 2 * (year - share(q.terms.direct)) <= Days * Cardinality(segments)
                        /\ 2 * (share(q.terms.direct) - year) <= Days * Cardinality(segments)
                  /\ (/\ NoneNegative(input)
                      /\ Has(q, "cap") /\ ~Has(q, "fee") /\ PermittedAmount(input, q) # None
                      /\ \A e \in Expense : input.expense[e].control = "controllable")
                        => 2 * (year - share(PermittedAmount(input, q))) <= Days * Cardinality(segments)
      BY Zenon DEF YearlyTerms
    <2> DEFINE A == Recovers(q, p)
               g == [s \in A |-> Charge(input, q, p, s)]
               len == [s \in A |-> Length(s)]
               G == SumFunctionOnSet(g, A)
               N == Cardinality(DaysIn(q, p))
               year == Days * raw[p][q.lease]
    <2>1. EngineInv /\ WellFormed(input) /\ segments = Segments(input)
      BY WellFormedInput DEF OwingInv, CompleteInv, EngineInv
    <2>2. \A s \in A : g[s] = Charge(input, q, p, s) /\ len[s] = Length(s)
      OBVIOUS
    <2> HIDE DEF g, len
    <2>3. /\ Owed(q.lease, p) = G
          /\ IsFiniteSet(A) /\ Cardinality(A) <= Cardinality(segments)
          /\ Cardinality(A) \in Nat /\ Cardinality(segments) \in Nat
          /\ \A s \in A : s \in Segments(input) /\ IsWindow(s) /\ g[s] \in Int
      BY <2>1, <2>2, OwedOverSegments
    <2>4. /\ DaysIn(q, p) = UNION {DaysOf(s) : s \in A}
          /\ \A s, t \in A : s # t => DaysOf(s) \cap DaysOf(t) = {}
      BY <2>1, DaysRecovered
    <2>5. raw[p][q.lease] = G
      <3>1. charged = Lease /\ q.lease \in Lease
        <4>1. q.lease \in Lease
          BY <2>1, PolicyIs
        <4>2. DOMAIN due = Lease
          BY DEF Ready, Done
        <4>3. QED
          BY <4>1, <4>2 DEF OwingInv, CompleteInv, Kept
      <3>2. PICK s \in A : s \in segments /\ <<p, s>> \in Places(q)
        BY <2>4 DEF Recovers
      <3>3. q \in PoliciesOf(q.lease)
        OBVIOUS
      <3>4. QED
        BY <2>3, <3>1, <3>2, <3>3 DEF OwingInv, Owing
    <2>6. SumFunctionOnSet(len, A) = N /\ N \in Int
      <3> DEFINE F == [s \in A |-> DaysOf(s)]
      <3>1. \A s \in A : F[s] = DaysOf(s)
        OBVIOUS
      <3> HIDE DEF F, A
      <3>2. \A s \in A : IsFiniteSet(F[s]) /\ len[s] = Cardinality(F[s])
        BY <2>2, <2>3, <3>1, DaysAre
      <3>3. \A s, t \in A : s # t => F[s] \cap F[t] = {}
        BY <2>4, <3>1
      <3>4. /\ SumFunctionOnSet(len, A) = Cardinality(UNION {F[s] : s \in A})
            /\ IsFiniteSet(UNION {F[s] : s \in A})
        BY <2>3, <3>2, <3>3, SumOfSizes
      <3>5. UNION {F[s] : s \in A} = DaysIn(q, p)
        BY <2>4, <3>1
      <3>6. SumFunctionOnSet(len, A) = Cardinality(DaysIn(q, p)) /\ IsFiniteSet(DaysIn(q, p))
        BY <3>4, <3>5
      <3>7. QED
        BY <3>6, FS_CardinalityType
    <2>7. G \in Int /\ Days \in Nat
      BY <2>3, SumInt, PeriodIs
    <2>8. Days * Cardinality(A) <= Days * Cardinality(segments) /\ Days * Cardinality(A) \in Int
          /\ Days * Cardinality(segments) \in Int
      <3> DEFINE x == Cardinality(A)
                 y == Cardinality(segments)
      <3>1. x \in Nat /\ y \in Nat /\ x <= y
        BY <2>3
      <3> HIDE DEF x, y
      <3>2. Days * x <= Days * y /\ Days * x \in Int /\ Days * y \in Int
        BY <2>7, <3>1
      <3>3. QED
        BY <3>2 DEF x, y
    <2>9. ASSUME NEW amount \in Int, \A s \in A : g[s] <= Yearly(amount, s)
          PROVE  2 * (year - amount * N) <= Days * Cardinality(segments)
      <3>1. ASSUME NEW s \in A
            PROVE  g[s] \in Int /\ len[s] \in Int /\ 2 * (Days * g[s]) <= 2 * (amount * len[s]) + Days
        <4>1. /\ 2 * (Days * Yearly(amount, s)) <= 2 * (amount * Length(s)) + Days
              /\ Yearly(amount, s) \in Int
          BY <2>3, OfTheYear
        <4>2. len[s] = Length(s) /\ len[s] \in Int /\ g[s] \in Int
          BY <2>2, <2>3, LengthIs
        <4>3. Days * g[s] <= Days * Yearly(amount, s) /\ Days * g[s] \in Int
              /\ Days * Yearly(amount, s) \in Int /\ amount * len[s] \in Int
          BY <2>7, <2>9, <4>1, <4>2
        <4>4. QED
          BY <2>7, <4>1, <4>2, <4>3
      <3>2. 2 * (Days * G) <= 2 * (amount * SumFunctionOnSet(len, A)) + Days * Cardinality(A)
        <4>1. Days \in Int
          BY <2>7
        <4>2. \A s \in A : g[s] \in Int /\ len[s] \in Int /\ 2 * (Days * g[s]) <= 2 * (amount * len[s]) + Days
          BY <3>1
        <4>3. IsFiniteSet(A)
          BY <2>3
        <4> HIDE DEF A
        <4>4. QED
          BY <2>9, <4>1, <4>2, <4>3, SumWithin
      <3>3. Days * G \in Int /\ amount * N \in Int /\ year = Days * G
        BY <2>5, <2>6, <2>7
      <3>4. 2 * (Days * G) <= 2 * (amount * N) + Days * Cardinality(A)
        BY <2>6, <3>2
      <3> HIDE DEF G, N, A, year
      <3>5. QED
        BY <2>8, <3>3, <3>4
    <2>10. ASSUME NEW amount \in Int, \A s \in A : g[s] = Yearly(amount, s)
           PROVE  2 * (amount * N - year) <= Days * Cardinality(segments)
      <3>1. ASSUME NEW s \in A
            PROVE  g[s] \in Int /\ len[s] \in Int /\ 2 * (amount * len[s]) <= 2 * (Days * g[s]) + Days
        <4>1. 2 * (amount * Length(s)) <= 2 * (Days * Yearly(amount, s)) + Days
          BY <2>3, OfTheYear
        <4>2. QED
          BY <2>2, <2>3, <2>10, <4>1, LengthIs
      <3>2. 2 * (amount * SumFunctionOnSet(len, A)) <= 2 * (Days * G) + Days * Cardinality(A)
        <4>1. Days \in Int
          BY <2>7
        <4>2. \A s \in A : len[s] \in Int /\ g[s] \in Int /\ 2 * (amount * len[s]) <= 2 * (Days * g[s]) + Days
          BY <3>1
        <4>3. IsFiniteSet(A)
          BY <2>3
        <4> HIDE DEF A
        <4>4. QED
          BY <2>10, <4>1, <4>2, <4>3, SumWithin
      <3>3. Days * G \in Int /\ amount * N \in Int /\ year = Days * G
        BY <2>5, <2>6, <2>7
      <3>4. 2 * (amount * N) <= 2 * (Days * G) + Days * Cardinality(A)
        BY <2>6, <3>2
      <3> HIDE DEF G, N, A, year
      <3>5. QED
        BY <2>8, <3>3, <3>4
    <2>11. ASSUME Has(q, "direct")
           PROVE  /\ 2 * (year - q.terms.direct * N) <= Days * Cardinality(segments)
                  /\ 2 * (q.terms.direct * N - year) <= Days * Cardinality(segments)
      <3>1. q.terms.direct \in Int
        BY <2>1, <2>11, PolicyIs, MoneyIs
      <3>2. \A s \in A : g[s] = Yearly(q.terms.direct, s) /\ Yearly(q.terms.direct, s) \in Int
        BY <2>1, <2>2, <2>3, <2>11, <3>1, ChargeIs, OfTheYear
      <3>3. \A s \in A : g[s] <= Yearly(q.terms.direct, s)
        BY <3>2
      <3> HIDE DEF A, N, year
      <3>4. QED
        BY <2>9, <2>10, <3>1, <3>2, <3>3
    <2>12. ASSUME NoneNegative(input), Has(q, "cap"), ~Has(q, "fee"), PermittedAmount(input, q) # None,
                  \A e \in Expense : input.expense[e].control = "controllable"
           PROVE  2 * (year - PermittedAmount(input, q) * N) <= Days * Cardinality(segments)
      <3>1. PermittedAmount(input, q) \in Int
        BY <2>1, <2>12, PermittedIs, MoneyIs
      <3>2. \A s \in A : g[s] <= Yearly(PermittedAmount(input, q), s)
        BY <2>1, <2>2, <2>3, <2>12, ChargeIs
      <3> HIDE DEF A, N, year
      <3>3. QED
        BY <2>9, <3>1, <3>2
    <2>13. QED
      BY <2>11, <2>12
  <1>2. QED
    BY <1>1, OwedInvariance, PTL

-----------------------------------------------------------------------------
\* The sum over two sets that have nothing in common.
LEMMA SumUnion ==
  ASSUME NEW A, IsFiniteSet(A), NEW B, IsFiniteSet(B), A \cap B = {},
         NEW f, \A x \in A \cup B : f[x] \in Int
  PROVE  SumFunctionOnSet(f, A \cup B) = SumFunctionOnSet(f, A) + SumFunctionOnSet(f, B)
  <1> DEFINE P == [U \in SUBSET A |-> TRUE /\
                     SumFunctionOnSet(f, U \cup B) = SumFunctionOnSet(f, U) + SumFunctionOnSet(f, B)]
  <1>1. \A U \in SUBSET A : IsFiniteSet(U) /\ IsFiniteSet(U \cup B)
    BY FS_Subset, FS_Union
  <1>2. SumFunctionOnSet(f, B) \in Int
    BY SumInt
  <1>3. P \in [SUBSET A -> BOOLEAN] /\ P[{}]
    <2>1. SumFunctionOnSet(f, {}) = 0 /\ {} \cup B = B
      BY SumEmpty
    <2>2. SumFunctionOnSet(f, {} \cup B) = SumFunctionOnSet(f, {}) + SumFunctionOnSet(f, B)
      BY <1>2, <2>1
    <2>3. \A U \in SUBSET A : (TRUE /\ SumFunctionOnSet(f, U \cup B)
                                  = SumFunctionOnSet(f, U) + SumFunctionOnSet(f, B)) \in BOOLEAN
      OBVIOUS
    <2>4. QED
      BY <2>2, <2>3
  <1>4. ASSUME NEW U \in SUBSET A, NEW x \in A \ U, P[U] PROVE P[U \cup {x}]
    <2>1. (U \cup {x}) \cup B = (U \cup B) \cup {x} /\ x \notin U \cup B /\ x \notin U
      OBVIOUS
    <2>2. SumFunctionOnSet(f, (U \cup B) \cup {x}) = f[x] + SumFunctionOnSet(f, U \cup B)
      BY <1>1, <2>1, SumInsert
    <2>3. SumFunctionOnSet(f, U \cup {x}) = f[x] + SumFunctionOnSet(f, U)
      BY <1>1, <2>1, SumInsert
    <2>4. SumFunctionOnSet(f, U) \in Int /\ f[x] \in Int
      BY <1>1, SumInt
    <2>5. SumFunctionOnSet(f, U \cup B) = SumFunctionOnSet(f, U) + SumFunctionOnSet(f, B)
      BY <1>4
    <2>6. SumFunctionOnSet(f, (U \cup {x}) \cup B) = SumFunctionOnSet(f, U \cup {x}) + SumFunctionOnSet(f, B)
      <3> DEFINE total(T) == SumFunctionOnSet(f, T)
                 more == U \cup {x}
      <3>1. total(more \cup B) = f[x] + total(U \cup B) /\ total(more) = f[x] + total(U)
        BY <2>1, <2>2, <2>3
      <3>2. total(U \cup B) = total(U) + total(B) /\ total(U) \in Int /\ f[x] \in Int /\ total(B) \in Int
        BY <1>2, <2>4, <2>5
      <3> HIDE DEF total, more
      <3>3. total(more \cup B) = total(more) + total(B)
        BY <3>1, <3>2
      <3>4. QED
        BY <3>3 DEF total, more
    <2>7. U \cup {x} \in SUBSET A
      OBVIOUS
    <2>8. QED
      BY <2>6, <2>7
  <1>5. \A U \in SUBSET A : P[U]
    <2> HIDE DEF P
    <2>1. QED
      BY <1>3, <1>4, SetInduct
  <1>6. QED
    BY <1>5

\* The sum over a set that falls into parts.
LEMMA SumOverParts ==
  ASSUME NEW S, IsFiniteSet(S), NEW F, \A x \in S : IsFiniteSet(F[x]),
         \A x, y \in S : x # y => F[x] \cap F[y] = {},
         NEW f, \A x \in S : \A y \in F[x] : f[y] \in Int,
         NEW g, \A x \in S : g[x] = SumFunctionOnSet(f, F[x])
  PROVE  SumFunctionOnSet(f, UNION {F[x] : x \in S}) = SumFunctionOnSet(g, S)
  <1> DEFINE parts(T) == UNION {F[x] : x \in T}
             P == [T \in SUBSET S |-> /\ TRUE
                                      /\ SumFunctionOnSet(f, parts(T)) = SumFunctionOnSet(g, T)
                                      /\ IsFiniteSet(parts(T))]
  <1>1. P \in [SUBSET S -> BOOLEAN] /\ P[{}]
    <2>1. parts({}) = {} /\ IsFiniteSet({})
      BY FS_EmptySet
    <2>2. SumFunctionOnSet(f, {}) = SumFunctionOnSet(g, {})
      BY SumEmpty
    <2>3. \A T \in SUBSET S : (/\ TRUE
                               /\ SumFunctionOnSet(f, parts(T)) = SumFunctionOnSet(g, T)
                               /\ IsFiniteSet(parts(T))) \in BOOLEAN
      OBVIOUS
    <2> HIDE DEF parts
    <2>4. QED
      BY <2>1, <2>2, <2>3
  <1>2. ASSUME NEW T \in SUBSET S, NEW x \in S \ T, P[T] PROVE P[T \cup {x}]
    <2>1. parts(T \cup {x}) = parts(T) \cup F[x]
      OBVIOUS
    <2>2. parts(T) \cap F[x] = {}
      OBVIOUS
    <2>3. IsFiniteSet(T) /\ IsFiniteSet(F[x])
      BY FS_Subset
    <2>4. \A y \in parts(T) \cup F[x] : f[y] \in Int
      OBVIOUS
    <2>5. \A y \in S : g[y] \in Int
      BY SumInt
    <2>6. SumFunctionOnSet(f, parts(T)) = SumFunctionOnSet(g, T) /\ IsFiniteSet(parts(T))
      BY <1>2
    <2> HIDE DEF parts, P
    <2>7. SumFunctionOnSet(f, parts(T) \cup F[x]) = SumFunctionOnSet(f, parts(T)) + SumFunctionOnSet(f, F[x])
      BY <2>2, <2>3, <2>4, <2>6, SumUnion
    <2>8. SumFunctionOnSet(g, T \cup {x}) = g[x] + SumFunctionOnSet(g, T)
      <3>1. \A y \in T \cup {x} : g[y] \in Int
        BY <2>5
      <3>2. QED
        BY <2>3, <3>1, SumInsert
    <2>9. SumFunctionOnSet(g, T) \in Int /\ g[x] \in Int /\ g[x] = SumFunctionOnSet(f, F[x])
      <3>1. \A y \in T : g[y] \in Int
        BY <2>5
      <3>2. QED
        BY <2>3, <2>5, <3>1, SumInt
    <2>10. SumFunctionOnSet(f, parts(T \cup {x})) = SumFunctionOnSet(g, T \cup {x})
      <3> DEFINE old == SumFunctionOnSet(g, T)
                 new == SumFunctionOnSet(f, F[x])
      <3>1. SumFunctionOnSet(f, parts(T) \cup F[x]) = old + new
        BY <2>6, <2>7
      <3>2. SumFunctionOnSet(g, T \cup {x}) = new + old /\ old \in Int /\ new \in Int
        BY <2>8, <2>9
      <3> HIDE DEF old, new
      <3>3. SumFunctionOnSet(f, parts(T) \cup F[x]) = SumFunctionOnSet(g, T \cup {x})
        BY <3>1, <3>2
      <3>4. QED
        BY <2>1, <3>3
    <2>11. IsFiniteSet(parts(T \cup {x}))
      <3>1. IsFiniteSet(parts(T) \cup F[x])
        BY <2>3, <2>6, FS_Union
      <3>2. QED
        BY <2>1, <3>1
    <2>12. T \cup {x} \in SUBSET S
      OBVIOUS
    <2>13. QED
      BY <2>10, <2>11, <2>12 DEF P
  <1>3. \A T \in SUBSET S : P[T]
    <2> HIDE DEF P
    <2>1. QED
      BY <1>1, <1>2, SetInduct
  <1>4. QED
    BY <1>3

\* A table by rows and by columns, and its sums by rows.
IsTable(S, T, row, column) == \A x \in S, y \in T : row[x][y] \in Int /\ column[y][x] = row[x][y]
RowSums(S, T, row, f)      == \A x \in S : f[x] = SumFunctionOnSet(row[x], T)

\* A table is summed up by rows or by columns.
LEMMA SumSwap ==
  ASSUME NEW S, IsFiniteSet(S), NEW T, IsFiniteSet(T), NEW row, NEW column, IsTable(S, T, row, column),
         NEW f, RowSums(S, T, row, f), NEW g, RowSums(T, S, column, g)
  PROVE  SumFunctionOnSet(f, S) = SumFunctionOnSet(g, T)
  <1> USE DEF IsTable, RowSums
  <1> DEFINE upto(U) == [y \in T |-> SumFunctionOnSet(column[y], U)]
             P == [U \in SUBSET S |-> TRUE /\ SumFunctionOnSet(f, U) = SumFunctionOnSet(upto(U), T)]
  <1>1. \A U \in SUBSET S : IsFiniteSet(U) /\ \A y \in T : SumFunctionOnSet(column[y], U) \in Int
    <2> SUFFICES ASSUME NEW U \in SUBSET S PROVE IsFiniteSet(U) /\ \A y \in T : SumFunctionOnSet(column[y], U) \in Int
      OBVIOUS
    <2>1. IsFiniteSet(U)
      BY FS_Subset
    <2>2. ASSUME NEW y \in T PROVE SumFunctionOnSet(column[y], U) \in Int
      <3>1. \A x \in U : column[y][x] \in Int
        OBVIOUS
      <3>2. QED
        BY <2>1, <3>1, SumInt
    <2>3. QED
      BY <2>1, <2>2
  <1>2. \A x \in S : f[x] \in Int
    BY SumInt
  <1>3. P \in [SUBSET S -> BOOLEAN] /\ P[{}]
    <2>1. \A y \in T : upto({})[y] = 0
      BY SumEmpty
    <2>2. SumFunctionOnSet(upto({}), T) = 0 * Cardinality(T)
      <3> HIDE DEF upto
      <3>1. QED
        BY <2>1, SumCount
    <2>3. SumFunctionOnSet(upto({}), T) = SumFunctionOnSet(f, {})
      BY <2>2, SumEmpty, FS_CardinalityType
    <2>4. \A U \in SUBSET S : (TRUE /\ SumFunctionOnSet(f, U) = SumFunctionOnSet(upto(U), T)) \in BOOLEAN
      OBVIOUS
    <2> HIDE DEF upto
    <2>5. QED
      BY <2>3, <2>4
  <1>4. ASSUME NEW U \in SUBSET S, NEW x \in S \ U, P[U] PROVE P[U \cup {x}]
    <2> DEFINE V == U \cup {x}
    <2>1. V \in SUBSET S
      OBVIOUS
    <2>2. \A y \in T : upto(U)[y] \in Int /\ row[x][y] \in Int /\ upto(V)[y] = upto(U)[y] + row[x][y]
      <3> SUFFICES ASSUME NEW y \in T
          PROVE upto(U)[y] \in Int /\ row[x][y] \in Int /\ upto(V)[y] = upto(U)[y] + row[x][y]
        OBVIOUS
      <3>1. \A z \in U \cup {x} : column[y][z] \in Int
        OBVIOUS
      <3>2. SumFunctionOnSet(column[y], U \cup {x}) = column[y][x] + SumFunctionOnSet(column[y], U)
        BY <1>1, <3>1, SumInsert
      <3>3. upto(U)[y] = SumFunctionOnSet(column[y], U) /\ upto(V)[y] = SumFunctionOnSet(column[y], U \cup {x})
        OBVIOUS
      <3>4. row[x][y] \in Int /\ column[y][x] = row[x][y] /\ upto(U)[y] \in Int
        BY <1>1, <3>3
      <3> HIDE DEF upto, V
      <3>5. QED
        BY <3>2, <3>3, <3>4
    <2>3. SumFunctionOnSet(upto(V), T) = SumFunctionOnSet(upto(U), T) + SumFunctionOnSet(row[x], T)
      <3> HIDE DEF upto, V
      <3>1. QED
        BY <2>2, SumPlus
    <2>4. SumFunctionOnSet(f, V) = f[x] + SumFunctionOnSet(f, U)
      <3>1. \A y \in U \cup {x} : f[y] \in Int
        BY <1>2
      <3>2. QED
        BY <1>1, <3>1, SumInsert
    <2>5. SumFunctionOnSet(f, U) = SumFunctionOnSet(upto(U), T)
      BY <1>4
    <2>6. SumFunctionOnSet(f, U) \in Int /\ f[x] \in Int /\ f[x] = SumFunctionOnSet(row[x], T)
      BY <1>1, <1>2, SumInt
    <2> HIDE DEF upto
    <2>7. SumFunctionOnSet(f, V) = SumFunctionOnSet(upto(V), T)
      BY <2>3, <2>4, <2>5, <2>6
    <2>8. QED
      BY <2>1, <2>7
  <1>5. \A U \in SUBSET S : P[U]
    <2> HIDE DEF P
    <2>1. QED
      BY <1>3, <1>4, SetInduct
  <1>6. SumFunctionOnSet(f, S) = SumFunctionOnSet(upto(S), T)
    BY <1>5
  <1>7. \A y \in T : upto(S)[y] \in Int /\ upto(S)[y] = g[y]
    BY <1>1
  <1> HIDE DEF upto
  <1>8. QED
    BY <1>6, <1>7, SumEqual

\* A common factor of a fraction does not change what it is rounded to.
LEMMA RoundDivCancel ==
  ASSUME NEW n \in Int, NEW d \in Nat \ {0}, NEW k \in Nat \ {0}
  PROVE  RoundDiv(k * n, k * d) = RoundDiv(n, d)
  <1> DEFINE r == RoundDiv(n, d)
             s == RoundDiv(k * n, k * d)
  <1>1. k * n \in Int /\ k * d \in Nat \ {0}
    OBVIOUS
  <1>2. r \in Int /\ 2 * (d * r) <= 2 * n + d /\ 2 * n + d < 2 * (d * r) + 2 * d
    BY RoundDivIs
  <1>3. s \in Int /\ 2 * ((k * d) * s) <= 2 * (k * n) + k * d /\ 2 * (k * n) + k * d < 2 * ((k * d) * s) + 2 * (k * d)
    BY <1>1, RoundDivIs
  <1> HIDE DEF r, s
  <1>4. (k * d) * s = k * (d * s) /\ d * s \in Int /\ d * r \in Int
    BY <1>2, <1>3
  <1> DEFINE x == d * s
             y == d * r
  <1>5. x \in Int /\ y \in Int
    BY <1>4
  <1>6. /\ 2 * (k * x) <= 2 * (k * n) + k * d
        /\ 2 * (k * n) + k * d < 2 * (k * x) + 2 * (k * d)
    BY <1>3, <1>4
  <1> HIDE DEF x, y
  <1>7. /\ k * (2 * x) <= k * (2 * n + d)
        /\ k * (2 * n + d) < k * (2 * x + 2 * d)
    BY <1>5, <1>6
  <1>8. 2 * x <= 2 * n + d /\ 2 * n + d < 2 * x + 2 * d
    BY <1>5, <1>7
  <1>9. 2 * y <= 2 * n + d /\ 2 * n + d < 2 * y + 2 * d
    BY <1>2 DEF y
  <1>10. x < y + d /\ y < x + d
    BY <1>5, <1>8, <1>9
  <1>11. d * s < d * (r + 1) /\ d * r < d * (s + 1)
    BY <1>2, <1>3, <1>10 DEF x, y
  <1>12. s < r + 1 /\ r < s + 1
    BY <1>2, <1>3, <1>11
  <1>13. QED
    BY <1>2, <1>3, <1>12 DEF r, s

-----------------------------------------------------------------------------
(* The costs of a day *)

\* Scale times what a day of a cost is worth to a pool.
OfADay(p, e) == (input.assigned[<<e, p>>] * Scale) \div Length(input.expense[e].period)

\* A common factor can be taken out of a comparison.
LEMMA CancelFactor ==
  ASSUME NEW k \in Nat \ {0}, NEW x \in Int, NEW y \in Int, k * x <= k * y
  PROVE  x <= y
  OBVIOUS

\* What has no remainder is a multiple.
LEMMA Multiple ==
  ASSUME NEW n \in Nat, NEW d \in Nat \ {0}, n % d = 0
  PROVE  \E k \in Nat : n = k * d
  <1>1. n \in Int /\ d \in Int /\ d > 0
    OBVIOUS
  <1>2. n = (n \div d) * d
    BY <1>1
  <1>3. n \div d \in Nat
    OBVIOUS
  <1>4. QED
    BY <1>2, <1>3

\* Division undoes multiplication.
LEMMA DivOfProduct ==
  ASSUME NEW x \in Nat, NEW d \in Nat \ {0}
  PROVE  (x * d) \div d = x
  <1> DEFINE n == x * d
             z == n \div d
  <1>1. n \in Nat
    OBVIOUS
  <1>2. z \in Nat /\ d * z <= n /\ n < d * z + d
    <2> HIDE DEF n
    <2>1. QED
      BY <1>1
  <1>3. n = d * x
    OBVIOUS
  <1> HIDE DEF n, z
  <1>4. d * z <= d * x /\ d * x < d * (z + 1)
    BY <1>2, <1>3
  <1>5. z <= x /\ x < z + 1
    BY <1>2, <1>4
  <1>6. QED
    BY <1>2, <1>5 DEF z, n

\* A sum of areas.
LEMMA PoolAreaNat ==
  ASSUME WellFormed(input), NEW p, NEW d
  PROVE  PoolAreaOn(p, d) \in Nat
  <1> DEFINE S == {m \in OnDay(input.measurements, d) : m.scope \in ScopesOn(p, d)}
             f == [m \in S |-> m.area]
  <1>1. S \subseteq input.measurements
    BY DEF OnDay
  <1>2. IsFiniteSet(S) /\ \A m \in S : m.area \in Nat
    BY <1>1, WindowsAre, FS_Subset DEF WellFormed
  <1>3. PoolAreaOn(p, d) = SumFunction(f)
    BY Zenon DEF PoolAreaOn, Sum
  <1>4. DOMAIN f = S /\ \A m \in S : f[m] \in Nat
    BY <1>2
  <1> HIDE DEF S, f
  <1>5. QED
    BY <1>2, <1>3, <1>4, TotalNat

\* Where Scale fits, a day of a cost is a whole number of it, also after it is
\* divided by the shares' denominator.
LEMMA DayOfCost ==
  ASSUME WellFormed(input), NEW p \in Pool, Fits(p), NEW e \in Expense, input.expense[e].period # None,
         NEW d \in DaysOf(Period), NEW m \in {100, PoolAreaOn(p, d)} \ {0}
  PROVE  /\ OfADay(p, e) \in Nat
         /\ input.assigned[<<e, p>>] * Scale = OfADay(p, e) * Length(input.expense[e].period)
         /\ \E k \in Nat : OfADay(p, e) = m * k
  <1> DEFINE a == input.assigned[<<e, p>>]
             L == Length(input.expense[e].period)
  <1>1. a \in Nat
    BY DEF WellFormed
  <1>2. L \in Nat \ {0}
    BY WindowsOf, LengthIs
  <1>3. m \in Nat \ {0}
    BY PoolAreaNat
  <1>4. Scale \in Nat /\ Scale % (L * m) = 0
    BY LeaseAssumption DEF Fits
  <1>5. OfADay(p, e) = (a * Scale) \div L
    BY DEF OfADay
  <1> HIDE DEF a, L
  <1>6. L * m \in Nat \ {0}
    BY <1>2, <1>3
  <1>7. PICK j \in Nat : Scale = j * (L * m)
    BY <1>4, <1>6, Multiple
  <1> DEFINE k == a * j
  <1>8. k \in Nat /\ m * k \in Nat
    BY <1>1, <1>3, <1>7
  <1>9. a * Scale = (m * k) * L
    <2>1. a * (j * (L * m)) = (m * (a * j)) * L
      BY <1>1, <1>2, <1>3
    <2>2. QED
      BY <1>7, <2>1
  <1> HIDE DEF k
  <1> DEFINE u == m * k
  <1>10. (u * L) \div L = u
    <2>1. u \in Nat
      BY <1>8
    <2> HIDE DEF u
    <2>2. QED
      BY <1>2, <2>1, DivOfProduct
  <1>11. OfADay(p, e) = m * k
    BY <1>5, <1>9, <1>10
  <1>12. QED
    BY <1>8, <1>9, <1>11 DEF a, L

\* What a cost comes to in a segment is half a unit off at most.
LEMMA ProratedNear ==
  ASSUME WellFormed(input), NEW p \in Pool, NEW e \in Spread(input, p), NEW seg, IsWindow(seg),
         NEW u \in Nat, input.assigned[<<e, p>>] * Scale = u * Length(input.expense[e].period)
  PROVE  LET over == u * Overlap(input.expense[e].period, seg)
         IN  /\ over \in Nat /\ Prorated(input, p, e, seg) \in Nat
             /\ 2 * (Scale * Prorated(input, p, e, seg)) <= 2 * (1 * over) + Scale
             /\ 2 * (1 * over) <= 2 * (Scale * Prorated(input, p, e, seg)) + Scale
  <1> DEFINE a == input.assigned[<<e, p>>]
             L == Length(input.expense[e].period)
             o == Overlap(input.expense[e].period, seg)
             P == Prorated(input, p, e, seg)
  <1>1. a \in Nat /\ L \in Nat \ {0} /\ o \in Nat /\ P \in Nat /\ Scale \in Nat \ {0}
    <2>1. a \in Nat /\ IsWindow(input.expense[e].period)
      BY SpreadIs
    <2>2. P \in Nat
      BY ProratedNat
    <2>3. QED
      BY <2>1, <2>2, LengthIs, OverlapIs, LeaseAssumption
  <1>2. P = RoundDiv(a * o, L)
    BY DEF Prorated
  <1>3. a * Scale = u * L
    OBVIOUS
  <1> HIDE DEF a, L, o, P
  <1>4. a * o \in Int /\ L * P \in Int
    BY <1>1
  <1>5. 2 * (L * P) <= 2 * (a * o) + L /\ 2 * (a * o) <= 2 * (L * P) + L
    <2> DEFINE n == a * o
               m == L * P
    <2>1. n \in Int /\ m \in Int
      BY <1>4
    <2>2. 2 * m <= 2 * n + L /\ 2 * n + L < 2 * m + 2 * L
      BY <1>1, <1>2, <1>4, RoundDivIs
    <2> HIDE DEF n, m
    <2>3. 2 * m <= 2 * n + L /\ 2 * n <= 2 * m + L
      BY <1>1, <2>1, <2>2
    <2>4. QED
      BY <2>3 DEF n, m
  <1> DEFINE over == u * o
             scaled == Scale * P
  <1>6. over \in Nat /\ scaled \in Nat
    BY <1>1
  <1>7. Scale * (a * o) = L * over
    <2>1. Scale * (a * o) = (a * Scale) * o
      BY <1>1
    <2>2. (u * L) * o = L * (u * o)
      BY <1>1
    <2>3. QED
      BY <1>3, <2>1, <2>2
  <1>8. Scale * (L * P) = L * scaled
    BY <1>1
  <1>9. /\ Scale * (2 * (L * P)) <= Scale * (2 * (a * o) + L)
        /\ Scale * (2 * (a * o)) <= Scale * (2 * (L * P) + L)
    BY <1>1, <1>4, <1>5
  <1> DEFINE x == L * P
             y == a * o
  <1>10. /\ Scale * (2 * x) = 2 * (Scale * x) /\ Scale * (2 * y) = 2 * (Scale * y)
         /\ Scale * (2 * y + L) = 2 * (Scale * y) + Scale * L
         /\ Scale * (2 * x + L) = 2 * (Scale * x) + Scale * L
    <2>1. x \in Int /\ y \in Int
      BY <1>4
    <2> HIDE DEF x, y
    <2>2. QED
      BY <1>1, <2>1
  <1>11. /\ 2 * (L * scaled) <= 2 * (L * over) + Scale * L
         /\ 2 * (L * over) <= 2 * (L * scaled) + Scale * L
    BY <1>7, <1>8, <1>9, <1>10
  <1> HIDE DEF x, y, over, scaled
  <1>12. /\ L * (2 * scaled) <= L * (2 * over + Scale)
         /\ L * (2 * over) <= L * (2 * scaled + Scale)
    BY <1>1, <1>6, <1>11
  <1>13. 2 * scaled <= 2 * over + Scale /\ 2 * over <= 2 * scaled + Scale
    BY <1>1, <1>6, <1>12, CancelFactor
  <1>14. QED
    BY <1>1, <1>6, <1>13 DEF over, scaled, o, P

\* What each day costs, and what each cost is worth on the days of a segment.
AreDailyCosts(seg, E, per, u, cost) ==
    \A d \in DaysOf(seg) : cost[d] = SumFunctionOnSet(u, {e \in E : d \in DaysOf(per[e])})
AreWorth(seg, E, per, u, t) == \A e \in E : t[e] = u[e] * Overlap(per[e], seg)

\* Their sums are the same.
LEMMA CostsOverDays ==
  ASSUME NEW seg, IsWindow(seg), NEW E, IsFiniteSet(E), NEW per, \A e \in E : IsWindow(per[e]),
         NEW u, \A e \in E : u[e] \in Int,
         NEW cost, AreDailyCosts(seg, E, per, u, cost), NEW t, AreWorth(seg, E, per, u, t)
  PROVE  SumFunctionOnSet(cost, DaysOf(seg)) = SumFunctionOnSet(t, E)
  <1> USE DEF AreDailyCosts, AreWorth
  <1> DEFINE D == DaysOf(seg)
             row == [e \in E |-> [d \in D |-> IF d \in DaysOf(per[e]) THEN u[e] ELSE 0]]
             column == [d \in D |-> [e \in E |-> IF d \in DaysOf(per[e]) THEN u[e] ELSE 0]]
  <1>1. IsFiniteSet(D)
    BY DaysAre
  <1>2. \A e \in E, d \in D : row[e][d] \in Int /\ column[d][e] = row[e][d]
    OBVIOUS
  <1>3. ASSUME NEW e \in E PROVE t[e] = SumFunctionOnSet(row[e], D)
    <2> DEFINE U == DaysOf(per[e]) \cap D
               f == row[e]
    <2>1. U \in SUBSET D /\ IsFiniteSet(U)
      BY <1>1, FS_Subset
    <2>2. \A d \in D : f[d] \in Int
      OBVIOUS
    <2>3. \A d \in D \ U : f[d] = 0
      OBVIOUS
    <2>4. \A d \in U : f[d] = u[e]
      OBVIOUS
    <2>5. Cardinality(U) = Overlap(per[e], seg)
      BY DEF Overlap
    <2> HIDE DEF f, U, D
    <2>6. SumFunctionOnSet(f, D) = SumFunctionOnSet(f, U)
      BY <1>1, <2>1, <2>2, <2>3, SumPart
    <2>7. SumFunctionOnSet(f, U) = u[e] * Cardinality(U)
      BY <2>1, <2>4, SumCount
    <2>8. QED
      BY <2>5, <2>6, <2>7 DEF f
  <1>4. ASSUME NEW d \in D PROVE cost[d] = SumFunctionOnSet(column[d], E)
    <2> DEFINE U == {e \in E : d \in DaysOf(per[e])}
               f == column[d]
    <2>1. U \in SUBSET E /\ IsFiniteSet(U)
      BY FS_Subset
    <2>2. \A e \in E : f[e] \in Int
      OBVIOUS
    <2>3. \A e \in E \ U : f[e] = 0
      OBVIOUS
    <2>4. \A e \in U : u[e] \in Int /\ u[e] = f[e]
      OBVIOUS
    <2>5. cost[d] = SumFunctionOnSet(u, U)
      OBVIOUS
    <2> HIDE DEF f, U, D
    <2>6. SumFunctionOnSet(f, E) = SumFunctionOnSet(f, U)
      BY <2>1, <2>2, <2>3, SumPart
    <2>7. SumFunctionOnSet(u, U) = SumFunctionOnSet(f, U)
      BY <2>1, <2>4, SumEqual
    <2>8. QED
      BY <2>5, <2>6, <2>7 DEF f
  <1> HIDE DEF row, column, D
  <1>5. SumFunctionOnSet(t, E) = SumFunctionOnSet(cost, D)
    <2>1. RowSums(E, D, row, t)
      BY <1>3 DEF RowSums
    <2>2. RowSums(D, E, column, cost)
      BY <1>4 DEF RowSums
    <2>3. IsTable(E, D, row, column)
      BY <1>2 DEF IsTable
    <2>4. QED
      BY <1>1, <2>1, <2>2, <2>3, SumSwap
  <1>6. QED
    BY <1>5 DEF D

(* A share of the whole, and no other terms *)

\* The costs of a category that are spread over a pool's segments.
OfCat(p, c) == {e \in Spread(input, p) : input.expense[e].cat = c}

\* What a pool holds of a category is the sum of its costs; those it leaves out
\* come to nothing.
LEMMA HeldOfCat ==
  ASSUME WellFormed(input), NEW p \in Pool, NEW seg, IsWindow(seg), NEW c, Accepts(input.pools[p].categories, c),
         NEW f, \A e \in OfCat(p, c) : f[e] = Prorated(input, p, e, seg)
  PROVE  /\ IsFiniteSet(OfCat(p, c)) /\ \A e \in OfCat(p, c) : f[e] \in Int
         /\ Holds(input, p, {e \in Included(input, p, seg) : input.expense[e].cat = c}, seg)
               = SumFunctionOnSet(f, OfCat(p, c))
  <1> DEFINE E == OfCat(p, c)
             mine == {e \in Included(input, p, seg) : input.expense[e].cat = c}
             g == [e \in mine |-> Prorated(input, p, e, seg)]
  <1>1. Spread(input, p) \subseteq Expense /\ IsFiniteSet(Expense)
    BY LeaseAssumption DEF Spread, Assigned
  <1>2. IsFiniteSet(E) /\ E \subseteq Spread(input, p)
    BY <1>1, FS_Subset DEF OfCat
  <1>3. \A e \in E : f[e] \in Nat
    BY <1>2, ProratedNat
  <1>4. mine \in SUBSET E /\ IsFiniteSet(mine)
    <2>1. mine \subseteq E
      BY IncludedIs DEF OfCat
    <2> HIDE DEF mine, E
    <2>2. QED
      BY <1>2, <2>1, FS_Subset
  <1>5. \A e \in E \ mine : f[e] = 0
    <2>1. SUFFICES ASSUME NEW e \in E, e \notin mine PROVE f[e] = 0
      OBVIOUS
    <2>2. e \in Spread(input, p) /\ input.expense[e].cat = c
      BY DEF OfCat
    <2>3. ~(Prorated(input, p, e, seg) > 0)
      BY <2>1, <2>2 DEF Included
    <2>4. QED
      BY <1>3, <2>3
  <1>6. Holds(input, p, mine, seg) = SumFunctionOnSet(g, mine)
    BY DEF Holds, Sum, SumFunction
  <1>7. \A e \in mine : g[e] = Prorated(input, p, e, seg)
    OBVIOUS
  <1> HIDE DEF g, mine, E
  <1>8. \A e \in mine : g[e] \in Int /\ g[e] = f[e]
    <2>1. \A e \in mine : e \in E /\ f[e] \in Int
      BY <1>3, <1>4
    <2>2. \A e \in E : f[e] = Prorated(input, p, e, seg)
      BY DEF E
    <2>3. QED
      BY <1>7, <2>1, <2>2
  <1>9. SumFunctionOnSet(g, mine) = SumFunctionOnSet(f, mine)
    BY <1>4, <1>8, SumEqual
  <1>10. SumFunctionOnSet(f, E) = SumFunctionOnSet(f, mine)
    BY <1>2, <1>3, <1>4, <1>5, SumPart
  <1>11. QED
    BY <1>2, <1>3, <1>6, <1>9, <1>10 DEF mine, E

\* Without a target, and where every kind of cost is known, the adjusted pool is
\* what the pool holds.
LEMMA NotAdjusted ==
  ASSUME WellFormed(input), NEW p \in Pool, NEW seg, IsWindow(seg),
         \A e \in Included(input, p, seg) : input.expense[e].variability # "unknown"
  PROVE  AdjustedPool(input, p, seg, None) = Holds(input, p, Included(input, p, seg), seg)
  <1> DEFINE S == Included(input, p, seg)
             A == OfKind(input, S, {"fixed", "semi_variable"})
             B == OfKind(input, S, {"variable"})
             f == [e \in S |-> Prorated(input, p, e, seg)]
             g == [e \in A |-> Prorated(input, p, e, seg)]
             h == [e \in B |-> Prorated(input, p, e, seg)]
  <1>1. S \subseteq Spread(input, p) /\ IsFiniteSet(S) /\ S \subseteq Expense
    BY IncludedIs
  <1>2. \A e \in S : input.expense[e].variability \in {"fixed", "variable", "semi_variable"}
    BY <1>1 DEF WellFormed
  <1>3. S = A \cup B /\ A \cap B = {} /\ A \subseteq S /\ B \subseteq S
    <2> HIDE DEF S
    <2>1. QED
      BY <1>2 DEF OfKind
  <1>4. IsFiniteSet(A) /\ IsFiniteSet(B)
    BY <1>1, <1>3, FS_Subset
  <1>5. \A e \in S : f[e] \in Int
    BY <1>1, ProratedNat
  <1>6. /\ Holds(input, p, S, seg) = SumFunctionOnSet(f, S)
        /\ Holds(input, p, A, seg) = SumFunctionOnSet(g, A)
        /\ Holds(input, p, B, seg) = SumFunctionOnSet(h, B)
    BY DEF Holds, Sum, SumFunction
  <1>7. /\ \A e \in A : f[e] = g[e]
        /\ \A e \in B : f[e] = h[e]
    BY <1>3
  <1>8. AdjustedPool(input, p, seg, None) = Holds(input, p, A, seg) + Holds(input, p, B, seg)
    BY DEF AdjustedPool, GrossedUp
  <1> HIDE DEF f, g, h, A, B, S
  <1>9. SumFunctionOnSet(f, A \cup B) = SumFunctionOnSet(f, A) + SumFunctionOnSet(f, B)
    <2>1. \A e \in A \cup B : f[e] \in Int
      BY <1>3, <1>5
    <2>2. QED
      BY <1>3, <1>4, <2>1, SumUnion
  <1>10. SumFunctionOnSet(f, A) = SumFunctionOnSet(g, A)
    <2>1. \A e \in A : f[e] \in Int /\ f[e] = g[e]
      BY <1>3, <1>5, <1>7
    <2>2. QED
      BY <1>4, <2>1, SumEqual
  <1>11. SumFunctionOnSet(f, B) = SumFunctionOnSet(h, B)
    <2>1. \A e \in B : f[e] \in Int /\ f[e] = h[e]
      BY <1>3, <1>5, <1>7
    <2>2. QED
      BY <1>4, <2>1, SumEqual
  <1>12. Holds(input, p, S, seg) = AdjustedPool(input, p, seg, None)
    BY <1>3, <1>6, <1>8, <1>9, <1>10, <1>11
  <1>13. QED
    BY <1>12 DEF S

\* What is charged for a share of the whole: the share of what the pool holds
\* of the category.
LEMMA PlainCharge ==
  ASSUME WellFormed(input), NEW p \in Pool, NEW seg, IsWindow(seg), NEW q \in input.policies,
         DOMAIN q.terms \subseteq {"percent"}, Target(input, q, p) = None,
         \A e \in Included(input, p, seg) : input.expense[e].variability # "unknown",
         NEW M, M = Holds(input, p, {e \in Included(input, p, seg) : input.expense[e].cat = q.cat}, seg)
  PROVE  LET area == Denominator(input, p, seg)
         IN  /\ M \in Nat
             /\ Charge(input, q, p, seg) =
                   IF Has(q, "percent") THEN RoundDiv(M * q.terms.percent, 100)
                   ELSE IF area = 0 THEN 0 ELSE RoundDiv(M * Numerator(input, q.lease, p, seg), area)
  <1> DEFINE S == Included(input, p, seg)
             mine == {e \in S : input.expense[e].cat = q.cat}
             H == Holds(input, p, S, seg)
             part == Part(input, p, seg, q.cat, Target(input, q, p))
             area == Denominator(input, p, seg)
             n == Numerator(input, q.lease, p, seg)
             m == Max({1, H})
  <1>1. M \in Nat /\ H \in Nat /\ M <= H
    BY HoldsNat, HoldsMonotone
  <1>2. part.num = H * M /\ part.den = m
    <2>1. AdjustedPool(input, p, seg, None) = H
      BY NotAdjusted
    <2>2. part = Part(input, p, seg, q.cat, None)
      OBVIOUS
    <2>3. /\ Part(input, p, seg, q.cat, None).num = AdjustedPool(input, p, seg, None) * M
          /\ Part(input, p, seg, q.cat, None).den = m
      BY DEF Part
    <2> HIDE DEF H, m, part
    <2>4. QED
      BY <2>1, <2>2, <2>3
  <1>3. m = IF H = 0 THEN 1 ELSE H
    <2> HIDE DEF H
    <2>1. \E x \in {1, H} : \A y \in {1, H} : x >= y
      BY <1>1
    <2>2. Max({1, H}) \in {1, H} /\ \A y \in {1, H} : Max({1, H}) >= y
      BY <2>1 DEF Max
    <2>3. QED
      BY <1>1, <2>2
  <1>4. Charge(input, q, p, seg) = Share(input, q, p, seg)
    <2>1. ~Has(q, "direct") /\ ~Has(q, "base") /\ ~Has(q, "stop") /\ ~Has(q, "cap") /\ ~Has(q, "fee")
      BY DEF Has
    <2>2. \A x : AfterBase(input, q, p, seg, x) = x
      BY <2>1 DEF AfterBase
    <2>3. \A x : AfterStop(q, seg, x) = x
      BY <2>1 DEF AfterStop
    <2>4. \A x : AfterCap(input, q, p, seg, x) = x
      BY <2>1 DEF AfterCap
    <2>5. \A x : AfterFee(q, x) = x
      BY <2>1 DEF AfterFee
    <2>6. QED
      BY <2>1, <2>2, <2>3, <2>4, <2>5 DEF Charge
  <1>5. Share(input, q, p, seg) =
          IF Has(q, "percent") THEN RoundDiv(part.num * q.terms.percent, part.den * 100)
          ELSE IF area = 0 THEN 0 ELSE RoundDiv(part.num * n, part.den * area)
    BY DEF Share
  <1>6. area \in Nat /\ n \in Nat
    BY DenominatorNat, NumeratorNat
  <1>7. Has(q, "percent") => q.terms.percent \in Int
    BY PolicyIs, MoneyIs
  <1> HIDE DEF H, area, n, part
  <1>8. ASSUME NEW x \in Int, NEW d \in Nat \ {0}
        PROVE  RoundDiv((H * M) * x, m * d) = RoundDiv(M * x, d)
    <2>1. CASE H = 0
      <3>1. M = 0 /\ m = 1
        BY <1>1, <1>3, <2>1
      <3>2. (H * M) * x = 0 /\ M * x = 0 /\ m * d = d
        BY <2>1, <3>1
      <3>3. QED
        BY <3>2
    <2>2. CASE H # 0
      <3>1. m = H /\ H \in Nat \ {0} /\ M * x \in Int
        BY <1>1, <1>3, <2>2
      <3>2. (H * M) * x = H * (M * x)
        BY <1>1
      <3>3. RoundDiv(H * (M * x), H * d) = RoundDiv(M * x, d)
        <4> DEFINE y == M * x
        <4>1. y \in Int
          BY <3>1
        <4> HIDE DEF y
        <4>2. RoundDiv(H * y, H * d) = RoundDiv(y, d)
          BY <3>1, <4>1, RoundDivCancel
        <4>3. QED
          BY <4>2 DEF y
      <3>4. QED
        BY <3>1, <3>2, <3>3
    <2>3. QED
      BY <2>1, <2>2
  <1> HIDE DEF m
  <1>9. CASE Has(q, "percent")
    <2>1. Charge(input, q, p, seg) = RoundDiv((H * M) * q.terms.percent, m * 100)
      BY <1>2, <1>4, <1>5, <1>9
    <2>2. RoundDiv((H * M) * q.terms.percent, m * 100) = RoundDiv(M * q.terms.percent, 100)
      BY <1>7, <1>8, <1>9
    <2>3. QED
      BY <1>1, <1>9, <2>1, <2>2
  <1>10. CASE ~Has(q, "percent") /\ area = 0
    BY <1>1, <1>4, <1>5, <1>10 DEF area
  <1>11. CASE ~Has(q, "percent") /\ area # 0
    <2>1. Charge(input, q, p, seg) = RoundDiv((H * M) * n, m * area)
      BY <1>2, <1>4, <1>5, <1>11
    <2>2. RoundDiv((H * M) * n, m * area) = RoundDiv(M * n, area)
      BY <1>6, <1>8, <1>11
    <2>3. QED
      BY <1>1, <1>11, <2>1, <2>2 DEF n, area
  <1>12. QED
    BY <1>9, <1>10, <1>11

(* Areas *)

\* A sum of one.
LEMMA SumOne ==
  ASSUME NEW f, NEW x, f[x] \in Int
  PROVE  SumFunctionOnSet(f, {x}) = f[x]
  <1>1. IsFiniteSet({x}) /\ \A y \in {x} : f[y] \in Int
    BY FS_Singleton
  <1>2. SumFunctionOnSet(f, {x}) = f[x] + SumFunctionOnSet(f, {x} \ {x})
    BY <1>1, SumRemove
  <1>3. {x} \ {x} = {}
    OBVIOUS
  <1>4. QED
    BY <1>2, <1>3, SumEmpty

\* Nothing is rounded where division leaves no remainder.
LEMMA RoundDivExact ==
  ASSUME NEW n \in Int, NEW d \in Nat \ {0}
  PROVE  RoundDiv(n * d, d) = n
  <1> DEFINE r == RoundDiv(n * d, d)
             x == d * r
             y == n * d
  <1>1. y \in Int
    OBVIOUS
  <1>2. r \in Int /\ 2 * x <= 2 * y + d /\ 2 * y + d < 2 * x + 2 * d
    BY <1>1, RoundDivIs
  <1>3. x \in Int
    BY <1>2
  <1> HIDE DEF x, y
  <1>4. x < y + d /\ y < x + d
    BY <1>1, <1>2, <1>3
  <1> HIDE DEF r
  <1>5. d * r < d * (n + 1) /\ d * n < d * (r + 1)
    BY <1>2, <1>4 DEF x, y
  <1>6. r < n + 1 /\ n < r + 1
    BY <1>2, <1>5
  <1>7. QED
    BY <1>2, <1>6 DEF r

\* A measurement that covers a segment alone: its area is that of the scope.
LEMMA AreaIsMeasured ==
  ASSUME NEW in, WellFormed(in), NEW s, NEW seg, IsWindow(seg),
         Covered(in, s, seg) >= Length(seg), Cardinality(Measured(in, s, seg)) <= 1
  PROVE  \E m \in in.measurements :
            /\ Measured(in, s, seg) = {m} /\ m.scope = s /\ m.area \in Nat
            /\ DaysOf(seg) \subseteq DaysOf(m) /\ AreaOf(in, s, seg) = m.area
  <1> DEFINE S == Measured(in, s, seg)
             D == DaysOf(seg)
             L == Length(seg)
  <1>1. IsFiniteSet(S) /\ \A m \in S : m \in in.measurements /\ m.scope = s /\ IsWindow(m) /\ m.area \in Nat
    <2>1. \A m \in S : m \in in.measurements /\ m.scope = s
      BY DEF Measured, InForce
    <2>2. IsFiniteSet(S) /\ \A m \in S : IsWindow(m) /\ m.area \in Nat
      BY MeasuredIs
    <2> HIDE DEF S
    <2>3. QED
      BY <2>1, <2>2
  <1>2. IsFiniteSet(D) /\ Cardinality(D) = L /\ L \in Nat \ {0}
    BY DaysAre, LengthIs
  <1>3. ASSUME NEW d \in D PROVE \E m \in S : d \in DaysOf(m)
    <2>1. PICK m \in OnDay(in.measurements, d) : m.scope = s
      BY MeasuredDaily
    <2>2. m \in in.measurements /\ d \in DaysOf(m)
      BY <2>1 DEF OnDay
    <2>3. Overlap(m, seg) > 0
      <3> DEFINE C == DaysOf(m) \cap DaysOf(seg)
      <3>1. d \in C /\ C \subseteq D
        BY <2>2
      <3> HIDE DEF C, D
      <3>2. IsFiniteSet(C) /\ C # {}
        BY <1>2, <3>1, FS_Subset
      <3>3. Cardinality(C) \in Nat /\ Cardinality(C) # 0
        BY <3>2, FS_CardinalityType, FS_EmptySet
      <3>4. Overlap(m, seg) = Cardinality(C)
        BY DEF Overlap, C
      <3>5. QED
        BY <3>3, <3>4
    <2>4. m \in S
      BY <2>1, <2>2, <2>3 DEF Measured, InForce
    <2>5. QED
      BY <2>2, <2>4
  <1>4. \A m, n \in S : m = n
    <2> HIDE DEF S
    <2>1. ASSUME NEW m \in S, NEW n \in S, m # n PROVE FALSE
      <3>1. IsFiniteSet({m, n}) /\ Cardinality({m, n}) = 2
        <4>1. IsFiniteSet({m}) /\ Cardinality({m}) = 1 /\ n \notin {m}
          BY <2>1, FS_Singleton
        <4>2. IsFiniteSet({m} \cup {n}) /\ Cardinality({m} \cup {n}) = Cardinality({m}) + 1
          BY <4>1, FS_AddElement
        <4>3. {m} \cup {n} = {m, n}
          OBVIOUS
        <4>4. QED
          BY <4>1, <4>2, <4>3
      <3>2. {m, n} \subseteq S
        OBVIOUS
      <3>3. Cardinality({m, n}) <= Cardinality(S)
        BY <1>1, <3>2, FS_Subset
      <3>4. Cardinality(S) \in Nat /\ Cardinality(S) <= 1
        BY <1>1, FS_CardinalityType DEF S
      <3>5. QED
        BY <3>1, <3>3, <3>4
    <2>2. QED
      BY <2>1
  <1>5. D # {}
    BY DEF IsWindow, DaysOf
  <1> HIDE DEF S, D
  <1>6. PICK m \in S : TRUE
    BY <1>3, <1>5
  <1>7. S = {m}
    BY <1>4, <1>6
  <1>8. D \subseteq DaysOf(m)
    BY <1>3, <1>7
  <1>9. Overlap(m, seg) = L
    <2>1. DaysOf(m) \cap D = D
      BY <1>8
    <2>2. QED
      BY <1>2, <2>1 DEF Overlap, D
  <1> DEFINE f == [x \in {m} |-> Overlap(x, seg)]
             g == [x \in {m} |-> x.area * Overlap(x, seg)]
  <1>10. m.area \in Nat /\ m \in in.measurements /\ m.scope = s
    BY <1>1, <1>6
  <1>11. Covered(in, s, seg) = L
    <2>1. Covered(in, s, seg) = SumFunction([x \in S |-> Overlap(x, seg)])
      BY DEF Covered, Sum, S
    <2>2. Covered(in, s, seg) = SumFunctionOnSet(f, {m})
      BY <1>7, <2>1 DEF SumFunction
    <2>3. f[m] = L
      BY <1>9
    <2> HIDE DEF f, L
    <2>4. QED
      BY <1>2, <2>2, <2>3, SumOne
  <1>12. AreaOf(in, s, seg) = RoundDiv(m.area * L, L)
    <2>1. Sum(S, LAMBDA x : x.area * Overlap(x, seg)) = SumFunction([x \in S |-> x.area * Overlap(x, seg)])
      BY DEF Sum
    <2>2. Sum(S, LAMBDA x : x.area * Overlap(x, seg)) = SumFunctionOnSet(g, {m})
      BY <1>7, <2>1 DEF SumFunction
    <2>3. g[m] = m.area * L /\ m.area * L \in Int
      BY <1>2, <1>9, <1>10
    <2> HIDE DEF g, L
    <2>4. SumFunctionOnSet(g, {m}) = m.area * L
      BY <2>3, SumOne
    <2>5. Covered(in, s, seg) # 0
      BY <1>2, <1>11
    <2>6. AreaOf(in, s, seg) = RoundDiv(Sum(S, LAMBDA x : x.area * Overlap(x, seg)), Covered(in, s, seg))
      BY <2>5 DEF AreaOf, S
    <2>7. QED
      BY <1>11, <2>2, <2>4, <2>6
  <1>13. AreaOf(in, s, seg) = m.area
    BY <1>2, <1>10, <1>12, RoundDivExact
  <1>14. QED
    BY <1>7, <1>8, <1>10, <1>13 DEF S, D

\* Where one measurement covers a segment, the area a pool is divided by is its
\* area on each day.
LEMMA PoolAreaDaily ==
  ASSUME WellFormed(input), NEW p \in Pool, NEW seg \in Segments(input), NEW d \in DaysOf(seg),
         Included(input, p, seg) # {},
         \A s \in Scopes(input, p, seg) : /\ Covered(input, s, seg) >= Length(seg)
                                          /\ Cardinality(Measured(input, s, seg)) <= 1
  PROVE  PoolAreaOn(p, d) = Denominator(input, p, seg)
  <1> DEFINE C == Scopes(input, p, seg)
             Only(s, m) == /\ m \in input.measurements /\ Measured(input, s, seg) = {m} /\ m.scope = s
                           /\ m.area \in Nat /\ DaysOf(seg) \subseteq DaysOf(m) /\ AreaOf(input, s, seg) = m.area
             h == [s \in C |-> CHOOSE m : Only(s, m)]
             T == {m \in OnDay(input.measurements, d) : m.scope \in ScopesOn(p, d)}
             f == [m \in T |-> m.area]
             g == [s \in C |-> AreaOf(input, s, seg)]
  <1>1. IsWindow(seg) /\ IsFiniteSet(C)
    BY SegmentIs, ScopesFinite
  <1>2. \A s \in C : Only(s, h[s])
    <2>1. ASSUME NEW s \in C PROVE \E m : Only(s, m)
      BY <1>1, AreaIsMeasured
    <2>2. QED
      BY <2>1
  <1>3. ScopesOn(p, d) = C
    BY DaysOfSegment
  <1>4. \A m \in T : m.scope \in C /\ m \in Measured(input, m.scope, seg)
    <2>1. SUFFICES ASSUME NEW m \in T PROVE m.scope \in C /\ m \in Measured(input, m.scope, seg)
      OBVIOUS
    <2>2. m \in input.measurements /\ d \in DaysOf(m) /\ m.scope \in C
      BY <1>3 DEF OnDay
    <2>3. IsWindow(m)
      BY <2>2, WindowsOf
    <2>4. Overlap(m, seg) > 0
      <3> DEFINE X == DaysOf(m) \cap DaysOf(seg)
      <3>1. d \in X /\ X \subseteq DaysOf(seg)
        BY <2>2
      <3> HIDE DEF X
      <3>2. IsFiniteSet(X) /\ X # {}
        BY <1>1, <3>1, DaysAre, FS_Subset
      <3>3. Cardinality(X) \in Nat /\ Cardinality(X) # 0
        BY <3>2, FS_CardinalityType, FS_EmptySet
      <3>4. Overlap(m, seg) = Cardinality(X)
        BY DEF Overlap, X
      <3>5. QED
        BY <3>3, <3>4
    <2>5. QED
      BY <2>2, <2>4 DEF Measured, InForce
  <1>5. T = {h[s] : s \in C}
    <2>1. ASSUME NEW m \in T PROVE m \in {h[s] : s \in C}
      <3>1. m.scope \in C /\ m \in Measured(input, m.scope, seg)
        BY <1>4
      <3>2. Measured(input, m.scope, seg) = {h[m.scope]}
        BY <1>2, <3>1
      <3> HIDE DEF h, C
      <3>3. QED
        BY <3>1, <3>2
    <2>2. ASSUME NEW s \in C PROVE h[s] \in T
      <3>1. h[s] \in input.measurements /\ h[s].scope = s /\ DaysOf(seg) \subseteq DaysOf(h[s])
        BY <1>2
      <3> HIDE DEF h, C
      <3>2. QED
        BY <1>3, <3>1 DEF OnDay
    <2> HIDE DEF h, C, T
    <2>3. QED
      BY <2>1, <2>2
  <1>6. h = [s \in C |-> h[s]]
    OBVIOUS
  <1>7. \A s, t \in C : h[s] = h[t] => s = t
    <2>1. \A s \in C : h[s].scope = s
      BY <1>2
    <2> HIDE DEF h, C
    <2>2. QED
      BY <2>1
  <1>8. \A s \in C : f[h[s]] \in Int /\ g[s] = f[h[s]]
    <2>1. ASSUME NEW s \in C PROVE f[h[s]] \in Int /\ g[s] = f[h[s]]
      <3>1. h[s] \in T
        <4> HIDE DEF h, C, T
        <4>1. QED
          BY <1>5
      <3>2. h[s].area \in Nat /\ AreaOf(input, s, seg) = h[s].area
        BY <1>2
      <3> HIDE DEF h, C, T
      <3>3. QED
        BY <3>1, <3>2
    <2> HIDE DEF h, C, T, f, g
    <2>2. QED
      BY <2>1
  <1>9. PoolAreaOn(p, d) = SumFunctionOnSet(f, T)
    BY Zenon DEF PoolAreaOn, Sum, SumFunction
  <1>10. Denominator(input, p, seg) = SumFunctionOnSet(g, C)
    BY DEF Denominator, Sum, SumFunction
  <1> HIDE DEF f, g, h, C, T
  <1>11. SumFunctionOnSet(f, {h[s] : s \in C}) = SumFunctionOnSet(g, C)
    BY <1>1, <1>6, <1>7, <1>8, SumRenamed
  <1>12. QED
    BY <1>5, <1>9, <1>10, <1>11

\* A tenant's area in a segment is its area on each day of it.
LEMMA TenantAreaDaily ==
  ASSUME WellFormed(input), NEW p \in Pool, NEW seg \in Segments(input), NEW d \in DaysOf(seg), NEW l,
         \A x \in PremisesIn(input, l, p, seg) : \A a \in InForce(x.areas, seg) : a.area # None
  PROVE  Sum(AreasOn(l, p, d), LAMBDA at : at[2].area) = Numerator(input, l, p, seg)
  <1> DEFINE R == TenantAreas(input, l, p, seg)
             h == [r \in R |-> <<r.x, r.area>>]
             f == [at \in AreasOn(l, p, d) |-> at[2].area]
             g == [r \in R |-> RoundDiv(r.area.area * Overlap(r.area, seg), Length(seg))]
  <1>1. IsWindow(seg) /\ Length(seg) \in Nat \ {0}
    BY SegmentIs, LengthIs
  <1>2. IsFiniteSet(R) /\ \A r \in R : IsWindow(r.area) /\ r.area.area \in Nat
    BY <1>1, TenantAreasAre
  <1>3. PremisesOn(l, p, d) = PremisesIn(input, l, p, seg)
        /\ \A x \in PremisesIn(input, l, p, seg) : x \in input.premises /\ OnDay(x.areas, d) = InForce(x.areas, seg)
    <2>1. \A x \in PremisesIn(input, l, p, seg) : x \in input.premises
      BY DEF PremisesIn, InForce
    <2>2. QED
      BY <2>1, DaysOfSegment
  <1>4. \A r \in R : /\ r = [x |-> r.x, area |-> r.area]
                     /\ r.x \in PremisesIn(input, l, p, seg) /\ r.area \in InForce(r.x.areas, seg)
    BY DEF TenantAreas
  <1>5. \A x \in PremisesIn(input, l, p, seg) : \A a \in InForce(x.areas, seg) : [x |-> x, area |-> a] \in R
    <2> SUFFICES ASSUME NEW x \in PremisesIn(input, l, p, seg), NEW a \in InForce(x.areas, seg)
        PROVE [x |-> x, area |-> a] \in R
      OBVIOUS
    <2>1. a \in {b \in InForce(x.areas, seg) : b.area # None}
      OBVIOUS
    <2>2. [x |-> x, area |-> a] \in {[x |-> x, area |-> b] : b \in {b \in InForce(x.areas, seg) : b.area # None}}
      BY <2>1
    <2>3. QED
      BY <2>2, Zenon DEF TenantAreas
  <1>6. AreasOn(l, p, d) = {h[r] : r \in R}
    <2>1. ASSUME NEW at \in AreasOn(l, p, d) PROVE at \in {h[r] : r \in R}
      <3>1. PICK x \in PremisesOn(l, p, d) : \E a \in OnDay(x.areas, d) : at = <<x, a>>
        BY DEF AreasOn
      <3>2. PICK a \in OnDay(x.areas, d) : at = <<x, a>>
        BY <3>1
      <3>3. [x |-> x, area |-> a] \in R
        BY <1>3, <1>5, <3>1, <3>2
      <3> HIDE DEF R
      <3>4. h[[x |-> x, area |-> a]] = at
        BY <3>2, <3>3
      <3> HIDE DEF h
      <3>5. QED
        BY <3>3, <3>4
    <2>2. ASSUME NEW r \in R PROVE h[r] \in AreasOn(l, p, d)
      <3>1. r.x \in PremisesOn(l, p, d) /\ r.area \in OnDay(r.x.areas, d)
        BY <1>3, <1>4
      <3>2. <<r.x, r.area>> \in AreasOn(l, p, d)
        BY <3>1 DEF AreasOn
      <3> HIDE DEF R
      <3>3. QED
        BY <3>2
    <2> HIDE DEF h, R
    <2>3. QED
      BY <2>1, <2>2
  <1>7. h = [r \in R |-> h[r]]
    OBVIOUS
  <1>8. \A r, s \in R : h[r] = h[s] => r = s
    <2>1. ASSUME NEW r \in R, NEW s \in R, h[r] = h[s] PROVE r = s
      <3>1. r = [x |-> r.x, area |-> r.area] /\ s = [x |-> s.x, area |-> s.area]
        BY <1>4
      <3>2. <<r.x, r.area>> = <<s.x, s.area>>
        BY <2>1
      <3>3. QED
        BY <3>1, <3>2
    <2> HIDE DEF h, R
    <2>2. QED
      BY <2>1
  <1>9. \A r \in R : f[h[r]] \in Int /\ g[r] = f[h[r]]
    <2>1. ASSUME NEW r \in R PROVE f[h[r]] \in Int /\ g[r] = f[h[r]]
      <3>1. f[h[r]] = r.area.area
        <4>1. h[r] \in AreasOn(l, p, d)
          <5> HIDE DEF h, R
          <5>1. QED
            BY <1>6
        <4>2. h[r] = <<r.x, r.area>>
          OBVIOUS
        <4> HIDE DEF h, R
        <4>3. QED
          BY <4>1, <4>2
      <3>2. r.area.area \in Nat /\ IsWindow(r.area)
        BY <1>2
      <3>3. r.x \in input.premises /\ r.area \in r.x.areas /\ d \in DaysOf(r.area)
        BY <1>3, <1>4 DEF OnDay
      <3>4. r.area.from \in Boundaries(input) /\ r.area.to + 1 \in Boundaries(input)
        BY <3>3, AtBoundaries DEF Cuts
      <3>5. Overlap(r.area, seg) = Length(seg)
        BY <3>2, <3>3, <3>4, Throughout
      <3>6. g[r] = RoundDiv(r.area.area * Length(seg), Length(seg))
        BY <3>5
      <3> HIDE DEF f, g, h, R
      <3>7. QED
        BY <1>1, <3>1, <3>2, <3>6, RoundDivExact
    <2> HIDE DEF f, g, h, R
    <2>2. QED
      BY <2>1
  <1>10. Sum(AreasOn(l, p, d), LAMBDA at : at[2].area) = SumFunctionOnSet(f, AreasOn(l, p, d))
    BY Zenon DEF Sum, SumFunction
  <1>11. Numerator(input, l, p, seg) = SumFunctionOnSet(g, R)
    BY Zenon DEF Numerator, Sum, SumFunction, TenantAreas
  <1> HIDE DEF f, g, h, R
  <1>12. SumFunctionOnSet(f, {h[r] : r \in R}) = SumFunctionOnSet(g, R)
    BY <1>2, <1>7, <1>8, <1>9, SumRenamed
  <1>13. QED
    BY <1>6, <1>10, <1>11, <1>12

-----------------------------------------------------------------------------
(* A policy in a segment *)

\* Proportional summands have proportional sums.
LEMMA SumTimes ==
  ASSUME NEW S, IsFiniteSet(S), NEW f, NEW g, NEW a \in Int, NEW b \in Int,
         \A x \in S : f[x] \in Int /\ g[x] \in Int /\ a * f[x] = b * g[x]
  PROVE  a * SumFunctionOnSet(f, S) = b * SumFunctionOnSet(g, S)
  <1> DEFINE F == SumFunctionOnSet(f, S)
             G == SumFunctionOnSet(g, S)
             n == Cardinality(S)
  <1>1. F \in Int /\ G \in Int /\ n \in Nat
    BY SumInt, FS_CardinalityType
  <1>2. \A x \in S : /\ a * f[x] \in Int /\ b * g[x] \in Int
    OBVIOUS
  <1> DEFINE o == 0
  <1>3. o \in Int /\ \A x \in S : f[x] \in Int /\ g[x] \in Int /\ 2 * (a * f[x]) <= 2 * (b * g[x]) + o
    BY <1>2
  <1>4. \A x \in S : g[x] \in Int /\ f[x] \in Int /\ 2 * (b * g[x]) <= 2 * (a * f[x]) + o
    BY <1>2
  <1> HIDE DEF o, F, G
  <1>5. 2 * (a * F) <= 2 * (b * G) + o * n
    BY <1>3, SumWithin DEF F, G
  <1>6. 2 * (b * G) <= 2 * (a * F) + o * n
    BY <1>3, <1>4, SumWithin DEF F, G
  <1> DEFINE x == a * F
             y == b * G
  <1>7. x \in Int /\ y \in Int /\ o * n = 0
    BY <1>1 DEF o
  <1> HIDE DEF x, y, n
  <1>8. x = y
    BY <1>5, <1>6, <1>7 DEF x, y
  <1>9. QED
    BY <1>8 DEF x, y, F, G

\* M, in units of S, is half a unit off T for each of K costs; the costs of no
\* one are nothing.
HalfOff(S, M, T, K) ==
    /\ 2 * (S * M) <= 2 * T + S * K /\ 2 * T <= 2 * (S * M) + S * K
    /\ K = 0 => M = 0 /\ T = 0

\* It is a unit off for each.
UnitOff(S, M, T, K) == S * M <= T + S * K /\ T <= S * (M + K)

\* n parts of m.
IsPart(D, T, n, m) == n <= m /\ m * D = n * T

\* A part of what is half a unit off for each of K costs, rounded itself, is no
\* more than a unit off for each.
LEMMA ShareNear ==
  ASSUME NEW S \in Nat \ {0}, NEW M \in Nat, NEW K \in Nat, NEW T \in Int, NEW n \in Nat, NEW m \in Nat \ {0},
         HalfOff(S, M, T, K), NEW D \in Int, IsPart(D, T, n, m)
  PROVE  RoundDiv(M * n, m) \in Int /\ UnitOff(S, RoundDiv(M * n, m), D, K)
  <1> USE DEF HalfOff, UnitOff, IsPart
  <1> DEFINE R == RoundDiv(M * n, m)
             z == M * n
  <1>1. z \in Nat
    OBVIOUS
  <1>2. R \in Int /\ 2 * (m * R) <= 2 * z + m /\ 2 * z + m < 2 * (m * R) + 2 * m
    BY <1>1, RoundDivIs
  <1> HIDE DEF R
  <1>3. CASE K = 0
    <2>1. z = 0 /\ m * D = 0
      BY <1>3
    <2>2. D = 0
      BY <2>1
    <2>3. -m < 2 * (m * R) /\ 2 * (m * R) <= m
      <3> DEFINE y == m * R
      <3>1. y \in Int
        BY <1>2
      <3> HIDE DEF y
      <3>2. -m < 2 * y /\ 2 * y <= m
        BY <1>2, <2>1, <3>1 DEF y
      <3>3. QED
        BY <3>2 DEF y
    <2>4. m * (-1) < m * R /\ m * R < m * 1
      <3> DEFINE y == m * R
      <3>1. y \in Int
        BY <1>2
      <3> HIDE DEF y
      <3>2. -m < y /\ y < m
        BY <2>3, <3>1 DEF y
      <3>3. QED
        BY <3>2 DEF y
    <2>5. R = 0
      <3>1. -1 < R /\ R < 1
        BY <1>2, <2>4
      <3>2. QED
        BY <1>2, <3>1
    <2>6. QED
      BY <1>3, <2>2, <2>5 DEF R
  <1>4. CASE K # 0
    <2> DEFINE x == S * R
               k == S * K
               w == S * M
    <2>1. x \in Int /\ k \in Nat /\ S <= k /\ w \in Nat
      BY <1>2, <1>4
    <2>2. S * (m * R) = m * x /\ S * z = n * w
      <3>1. S * (m * R) = m * (S * R)
        BY <1>2
      <3>2. S * (M * n) = n * (S * M)
        OBVIOUS
      <3>3. QED
        BY <3>1, <3>2
    <2>3. 2 * (m * x) <= 2 * (n * w) + S * m /\ 2 * (n * w) <= 2 * (m * x) + S * m
      <3> DEFINE y == m * R
      <3>1. y \in Int /\ 2 * y <= 2 * z + m /\ 2 * z <= 2 * y + m
        <4>1. y \in Int
          BY <1>2
        <4> HIDE DEF y, z
        <4>2. QED
          BY <1>1, <1>2, <4>1 DEF y
      <3> HIDE DEF y, z
      <3>2. S * (2 * y) <= S * (2 * z + m) /\ S * (2 * z) <= S * (2 * y + m)
        BY <1>1, <3>1
      <3>3. 2 * (S * y) <= 2 * (S * z) + S * m /\ 2 * (S * z) <= 2 * (S * y) + S * m
        BY <1>1, <3>1, <3>2
      <3>4. QED
        BY <2>2, <3>3 DEF y
    <2>4. 2 * (n * w) <= 2 * (m * D) + m * k /\ 2 * (m * D) <= 2 * (n * w) + m * k
      <3> HIDE DEF w, k
      <3>1. 2 * w <= 2 * T + k /\ 2 * T <= 2 * w + k
        BY DEF w, k
      <3>2. n * (2 * w) <= n * (2 * T + k) /\ n * (2 * T) <= n * (2 * w + k)
        BY <2>1, <3>1
      <3>3. 2 * (n * w) <= 2 * (n * T) + n * k /\ 2 * (n * T) <= 2 * (n * w) + n * k
        BY <2>1, <3>2
      <3>4. n * k <= m * k
        BY <2>1
      <3>5. n * w \in Int /\ n * T \in Int /\ n * k \in Int /\ m * k \in Int
        BY <2>1
      <3>6. n * T = m * D
        OBVIOUS
      <3>7. QED
        <4> DEFINE a == n * w
                   b == n * T
                   c == n * k
                   d == m * k
        <4>1. a \in Int /\ b \in Int /\ c \in Int /\ d \in Int /\ c <= d
          BY <3>4, <3>5
        <4>2. 2 * a <= 2 * b + c /\ 2 * b <= 2 * a + c
          BY <3>3
        <4> HIDE DEF a, b, c, d
        <4>3. 2 * a <= 2 * b + d /\ 2 * b <= 2 * a + d
          BY <4>1, <4>2
        <4>4. QED
          BY <3>6, <4>3 DEF a, b, d
    <2>5. S * m <= m * k /\ S * m \in Int /\ m * k \in Int
      <3> HIDE DEF k
      <3>1. m * S <= m * k
        BY <2>1
      <3>2. S * m = m * S
        OBVIOUS
      <3>3. QED
        BY <2>1, <3>1, <3>2
    <2> HIDE DEF x, k, w, z
    <2>6. n * w \in Int /\ m * x \in Int /\ m * D \in Int
      BY <2>1
    <2>7. 2 * (m * x) <= 2 * (m * D) + 2 * (m * k) /\ 2 * (m * D) <= 2 * (m * x) + 2 * (m * k)
      <3> DEFINE a == n * w
                 b == m * x
                 c == m * D
                 d == m * k
                 e == S * m
      <3>1. a \in Int /\ b \in Int /\ c \in Int /\ d \in Int /\ e \in Int /\ e <= d
        BY <2>5, <2>6
      <3>2. 2 * b <= 2 * a + e /\ 2 * a <= 2 * b + e /\ 2 * a <= 2 * c + d /\ 2 * c <= 2 * a + d
        BY <2>3, <2>4
      <3> HIDE DEF a, b, c, d, e
      <3>3. 2 * b <= 2 * c + 2 * d /\ 2 * c <= 2 * b + 2 * d
        BY <3>1, <3>2
      <3>4. QED
        BY <3>3 DEF b, c, d
    <2>8. m * (2 * x) <= m * (2 * (D + k)) /\ m * (2 * D) <= m * (2 * (x + k))
      BY <2>1, <2>7
    <2>9. x <= D + k /\ D <= x + k
      <3>1. 2 * x <= 2 * (D + k) /\ 2 * D <= 2 * (x + k)
        BY <2>1, <2>8, CancelFactor
      <3>2. QED
        BY <2>1, <3>1
    <2>10. S * (R + K) = x + k
      BY <1>2 DEF x, k
    <2>11. QED
      BY <1>2, <2>9, <2>10 DEF x, k, R
  <1>5. QED
    BY <1>3, <1>4

\* A part of a whole, no more than one, is between nothing and the whole.
LEMMA PartOfCost ==
  ASSUME NEW c \in Nat, NEW n \in Nat, NEW m \in Nat \ {0}, n <= m
  PROVE  (c * n) \div m \in Nat /\ (c * n) \div m <= c
  <1> DEFINE z == c * n
             x == z \div m
  <1>1. z \in Nat /\ z <= m * c
    BY c * n <= c * m
  <1>2. x \in Nat /\ m * x <= z
    <2> HIDE DEF z
    <2>1. QED
      BY <1>1
  <1> HIDE DEF x
  <1>3. m * x <= m * c
    BY <1>1, <1>2
  <1>4. x <= c
    BY <1>2, <1>3
  <1>5. QED
    BY <1>2, <1>4 DEF x, z

\* Where a policy recovers something.
LEMMA PlaceIs ==
  ASSUME NEW p, NEW seg, NEW q, <<p, seg>> \in Places(q)
  PROVE  /\ seg \in segments /\ q \in PoliciesIn(input, q.lease, seg)
         /\ p \in PoolsFor(input, q, seg) /\ Rivals(input, q, seg) = {}
  <1>1. PICK s \in segments : /\ q \in PoliciesIn(input, q.lease, s) /\ Runs(q, s)
                              /\ <<p, seg>> \in PoolsFor(input, q, s) \X {s}
    BY DEF Places
  <1>2. seg = s /\ p \in PoolsFor(input, q, s)
    BY <1>1
  <1>3. QED
    BY <1>1, <1>2 DEF Runs

\* Scale times what a day costs a pool in a category.
CostOn(p, c, d) == Sum({e \in CostsOn(p, d) : input.expense[e].cat = c}, LAMBDA e : OfADay(p, e))

\* What the days of D cost a pool in a category; each a number that the shares
\* of a lease in it divide without a remainder.
CostOfDays(cost, p, c, D) == \A d \in D : cost[d] = CostOn(p, c, d)
WholeCosts(cost, p, D) ==
    \A d \in D : /\ cost[d] \in Nat
                 /\ \A m \in {100, PoolAreaOn(p, d)} \ {0} : \E k \in Nat : cost[d] = m * k

\* The costs of a category, day by day and in a segment.
LEMMA CostsOfPlace ==
  ASSUME CompleteInv, Ready, NEW p \in Pool, Fits(p), NEW seg \in segments,
         NEW c, Accepts(input.pools[p].categories, c),
         NEW cost, CostOfDays(cost, p, c, DaysOf(seg)),
         NEW M, M = Holds(input, p, {e \in Included(input, p, seg) : input.expense[e].cat = c}, seg),
         NEW K, K = Cardinality(OfCat(p, c)), NEW T, T = SumFunctionOnSet(cost, DaysOf(seg))
  PROVE  /\ K \in Nat /\ T \in Int /\ HalfOff(Scale, M, T, K)
         /\ WholeCosts(cost, p, DaysOf(seg))
  <1> USE DEF CostOfDays
  <1> DEFINE E == OfCat(p, c)
             D == DaysOf(seg)
             u == [e \in E |-> OfADay(p, e)]
             per == [e \in E |-> input.expense[e].period]
             f == [e \in E |-> Prorated(input, p, e, seg)]
             t == [e \in E |-> u[e] * Overlap(per[e], seg)]
             On(d) == {e \in E : d \in DaysOf(per[e])}
  <1>1. WellFormed(input) /\ seg \in Segments(input) /\ IsWindow(seg) /\ D \subseteq DaysOf(Period) /\ D # {}
    <2>1. WellFormed(input) /\ seg \in Segments(input)
      BY WellFormedInput DEF CompleteInv, EngineInv
    <2>2. IsWindow(seg) /\ seg \in [from : DaysOf(Period), to : DaysOf(Period)]
      BY <2>1, SegmentIs
    <2>3. QED
      BY <2>1, <2>2, PeriodIs DEF IsWindow, DaysOf
  <1>2. \A e \in E : f[e] = Prorated(input, p, e, seg)
    OBVIOUS
  <1>3. /\ IsFiniteSet(E) /\ \A e \in E : f[e] \in Int
        /\ M = SumFunctionOnSet(f, E)
    <2> HIDE DEF f
    <2>1. QED
      BY <1>1, <1>2, HeldOfCat
  <1>4. \A e \in E : e \in Spread(input, p) /\ e \in Expense /\ input.expense[e].cat = c
                     /\ input.expense[e].period # None /\ IsWindow(per[e])
    <2>1. \A e \in E : e \in Spread(input, p) /\ input.expense[e].cat = c /\ input.expense[e].period # None
      BY DEF OfCat, Spread
    <2>2. \A e \in Spread(input, p) : e \in Expense /\ IsWindow(input.expense[e].period)
      BY <1>1, SpreadIs
    <2>3. QED
      BY <2>1, <2>2
  <1>5. ASSUME NEW e \in E, NEW d \in D, NEW m \in {100, PoolAreaOn(p, d)} \ {0}
        PROVE  /\ u[e] \in Nat /\ input.assigned[<<e, p>>] * Scale = u[e] * Length(input.expense[e].period)
               /\ \E k \in Nat : u[e] = m * k
    <2>1. d \in DaysOf(Period) /\ e \in Expense /\ input.expense[e].period # None
      BY <1>1, <1>4
    <2>2. u[e] = OfADay(p, e)
      OBVIOUS
    <2>3. QED
      BY <1>1, <2>1, <2>2, DayOfCost
  <1>6. \A e \in E : u[e] \in Nat /\ input.assigned[<<e, p>>] * Scale = u[e] * Length(input.expense[e].period)
    <2>1. PICK d \in D : TRUE
      BY <1>1
    <2>2. 100 \in {100, PoolAreaOn(p, d)} \ {0}
      OBVIOUS
    <2> HIDE DEF D, E, u
    <2>3. QED
      BY <1>5, <2>1, <2>2
  <1> DEFINE Whole == \A e \in E : u[e] \in Nat /\ u[e] \in Int
  <1>whole. Whole
    <2> DEFINE Is(e) == u[e] \in Nat
    <2>1. \A e \in E : Is(e)
      BY <1>6
    <2> HIDE DEF E, u
    <2>2. QED
      BY <2>1
  <1>7. \A e \in E : /\ t[e] = u[e] * Overlap(per[e], seg) /\ t[e] \in Int
                     /\ 2 * (Scale * f[e]) <= 2 * (1 * t[e]) + Scale
                     /\ 2 * (1 * t[e]) <= 2 * (Scale * f[e]) + Scale
    <2> SUFFICES ASSUME NEW e \in E
        PROVE  /\ t[e] = u[e] * Overlap(per[e], seg) /\ t[e] \in Int
               /\ 2 * (Scale * f[e]) <= 2 * (1 * t[e]) + Scale
               /\ 2 * (1 * t[e]) <= 2 * (Scale * f[e]) + Scale
      OBVIOUS
    <2>1. t[e] = u[e] * Overlap(input.expense[e].period, seg) /\ per[e] = input.expense[e].period
      OBVIOUS
    <2>2. f[e] = Prorated(input, p, e, seg)
      OBVIOUS
    <2> DEFINE over == u[e] * Overlap(input.expense[e].period, seg)
    <2> HIDE DEF t, u, f, per
    <2>3. /\ over \in Nat
          /\ 2 * (Scale * Prorated(input, p, e, seg)) <= 2 * (1 * over) + Scale
          /\ 2 * (1 * over) <= 2 * (Scale * Prorated(input, p, e, seg)) + Scale
      BY <1>1, <1>4, <1>6, ProratedNear
    <2>4. t[e] = over
      BY <2>1
    <2> HIDE DEF over
    <2>5. QED
      BY <2>1, <2>2, <2>3, <2>4
  <1>8. \A d \in D : cost[d] = SumFunctionOnSet(u, On(d)) /\ On(d) \subseteq E
    <2> SUFFICES ASSUME NEW d \in D PROVE cost[d] = SumFunctionOnSet(u, On(d)) /\ On(d) \subseteq E
      OBVIOUS
    <2> DEFINE C == {e \in CostsOn(p, d) : input.expense[e].cat = c}
               g == [e \in C |-> OfADay(p, e)]
    <2>1. C = On(d)
      <3>1. \A e \in Assigned(input, p) : e \in input.published /\ input.expense[e].period # None
        BY AssembledWell
      <3>2. ASSUME NEW e \in C PROVE e \in On(d)
        BY <3>1, <3>2 DEF CostsOn, OfCat, Spread
      <3>3. ASSUME NEW e \in On(d) PROVE e \in C
        <4>1. e \in Assigned(input, p) /\ input.expense[e].period # None /\ d \in DaysOf(input.expense[e].period)
              /\ input.expense[e].cat = c
          BY DEF OfCat, Spread
        <4>2. QED
          BY <4>1 DEF CostsOn
      <3>4. QED
        BY <3>2, <3>3
    <2>2. cost[d] = SumFunctionOnSet(g, C)
      <3>1. CostOn(p, c, d) = SumFunctionOnSet(g, C)
        BY Zenon DEF CostOn, Sum, SumFunction
      <3> HIDE DEF g, C
      <3>2. QED
        BY <3>1
    <2>3. \A e \in C : g[e] = OfADay(p, e)
      OBVIOUS
    <2>4. On(d) \subseteq E
      OBVIOUS
    <2>5. \A e \in E : u[e] = OfADay(p, e)
      OBVIOUS
    <2> HIDE DEF g, C, On, u, E
    <2>6. IsFiniteSet(C)
      BY <1>3, <2>1, <2>4, FS_Subset
    <2>7. \A e \in C : g[e] \in Int /\ g[e] = u[e]
      <3>1. \A e \in E : u[e] \in Int
        BY <1>whole
      <3>2. QED
        BY <2>1, <2>3, <2>4, <2>5, <3>1
    <2>8. SumFunctionOnSet(g, C) = SumFunctionOnSet(u, C)
      BY <2>6, <2>7, SumEqual
    <2>9. QED
      BY <2>1, <2>2, <2>4, <2>8
  <1>9. SumFunctionOnSet(cost, D) = SumFunctionOnSet(t, E)
    <2>1. AreDailyCosts(seg, E, per, u, cost)
      <3> DEFINE Daily == \A d \in DaysOf(seg) : cost[d] = SumFunctionOnSet(u, {e \in E : d \in DaysOf(per[e])})
      <3>1. Daily
        BY <1>8
      <3> HIDE DEF E, u, per
      <3>2. QED
        BY <3>1 DEF AreDailyCosts
    <2>2. AreWorth(seg, E, per, u, t)
      <3> DEFINE Worth == \A e \in E : t[e] = u[e] * Overlap(per[e], seg)
      <3>1. Worth
        BY <1>7
      <3> HIDE DEF E, u, per, t
      <3>2. QED
        BY <3>1 DEF AreWorth
    <2>3. \A e \in E : IsWindow(per[e])
      BY <1>4
    <2> HIDE DEF E, u, per, t, On
    <2>4. \A e \in E : u[e] \in Int
      BY <1>whole
    <2>5. SumFunctionOnSet(cost, DaysOf(seg)) = SumFunctionOnSet(t, E)
      BY <1>1, <1>3, <2>1, <2>2, <2>3, <2>4, CostsOverDays
    <2>6. QED
      BY <2>5
  <1>10. \A d \in D : /\ cost[d] \in Nat
                      /\ \A m \in {100, PoolAreaOn(p, d)} \ {0} : \E k \in Nat : cost[d] = m * k
    <2> SUFFICES ASSUME NEW d \in D
        PROVE /\ cost[d] \in Nat
              /\ \A m \in {100, PoolAreaOn(p, d)} \ {0} : \E k \in Nat : cost[d] = m * k
      OBVIOUS
    <2> HIDE DEF E, u, On
    <2>1. IsFiniteSet(On(d)) /\ On(d) \subseteq E /\ cost[d] = SumFunctionOnSet(u, On(d))
      BY <1>3, <1>8, FS_Subset
    <2>2. \A e \in On(d) : u[e] \in Nat
      BY <1>whole, <2>1
    <2>3. cost[d] \in Nat
      BY <2>1, <2>2, SumNat
    <2>4. ASSUME NEW m \in {100, PoolAreaOn(p, d)} \ {0} PROVE \E k \in Nat : cost[d] = m * k
      <3> DEFINE h == [e \in On(d) |-> CHOOSE k \in Nat : u[e] = m * k]
      <3>1. \A e \in On(d) : h[e] \in Nat /\ u[e] = m * h[e]
        <4>1. \A e \in On(d) : \E k \in Nat : u[e] = m * k
          BY <1>5, <2>1
        <4>2. QED
          BY <4>1
      <3>2. m \in Nat
        BY <1>1, PoolAreaNat
      <3> HIDE DEF h
      <3>3. SumFunctionOnSet(h, On(d)) \in Nat
        BY <2>1, <3>1, SumNat
      <3>4. \A e \in On(d) : u[e] \in Int /\ h[e] \in Int /\ 1 * u[e] = m * h[e]
        BY <2>2, <3>1
      <3>5. 1 * SumFunctionOnSet(u, On(d)) = m * SumFunctionOnSet(h, On(d))
        BY <2>1, <3>2, <3>4, SumTimes
      <3>6. QED
        BY <2>1, <2>3, <3>3, <3>5
    <2>5. QED
      BY <2>3, <2>4
  <1>11. /\ K = Cardinality(E) /\ T = SumFunctionOnSet(cost, D)
         /\ K \in Nat /\ T \in Int /\ M \in Int /\ Scale \in Nat
    <2>1. \A e \in E : t[e] \in Int
      BY <1>7
    <2>2. K = Cardinality(E) /\ T = SumFunctionOnSet(cost, D)
      OBVIOUS
    <2> HIDE DEF E, f, t
    <2>3. QED
      BY <1>3, <1>9, <2>1, <2>2, SumInt, FS_CardinalityType, LeaseAssumption
  <1>12. 2 * (Scale * M) <= 2 * (1 * T) + Scale * K /\ 2 * (1 * T) <= 2 * (Scale * M) + Scale * K
    <2>1. \A e \in E : f[e] \in Int /\ t[e] \in Int /\ 2 * (Scale * f[e]) <= 2 * (1 * t[e]) + Scale
      BY <1>3, <1>7
    <2>2. \A e \in E : t[e] \in Int /\ f[e] \in Int /\ 2 * (1 * t[e]) <= 2 * (Scale * f[e]) + Scale
      BY <1>3, <1>7
    <2> DEFINE one == 1
    <2>3. one \in Int /\ Scale \in Int
      BY <1>11
    <2>4. \A e \in E : f[e] \in Int /\ t[e] \in Int /\ 2 * (Scale * f[e]) <= 2 * (one * t[e]) + Scale
      BY <2>1
    <2>5. \A e \in E : t[e] \in Int /\ f[e] \in Int /\ 2 * (one * t[e]) <= 2 * (Scale * f[e]) + Scale
      BY <2>2
    <2> HIDE DEF one, f, t, E
    <2>6. 2 * (Scale * SumFunctionOnSet(f, E)) <= 2 * (one * SumFunctionOnSet(t, E)) + Scale * Cardinality(E)
      BY <1>3, <2>3, <2>4, SumWithin
    <2>7. 2 * (one * SumFunctionOnSet(t, E)) <= 2 * (Scale * SumFunctionOnSet(f, E)) + Scale * Cardinality(E)
      BY <1>3, <2>3, <2>5, SumWithin
    <2>8. QED
      BY <1>3, <1>9, <1>11, <2>6, <2>7 DEF one
  <1>13. K = 0 => M = 0 /\ T = 0
    <2>1. K = 0 => E = {}
      BY <1>3, <1>11, FS_EmptySet
    <2> HIDE DEF E
    <2>2. QED
      BY <1>3, <1>9, <1>11, <2>1, SumEmpty
  <1>14. 2 * (Scale * M) <= 2 * T + Scale * K /\ 2 * T <= 2 * (Scale * M) + Scale * K
    <2>1. 1 * T = T
      BY <1>11
    <2>2. QED
      BY <1>12, <2>1
  <1>15. QED
    BY <1>10, <1>11, <1>13, <1>14 DEF HalfOff, WholeCosts

\* What each day costs is a multiple of m, of which n parts are taken.
AreMultiples(D, cost, m) == \A d \in D : cost[d] \in Nat /\ \E k \in Nat : cost[d] = m * k
AreParts(D, F, cost, n, m) == \A d \in D : F[d] = (cost[d] * n) \div m

\* The same part of each day's costs is that part of all of them.
LEMMA RatioOfDays ==
  ASSUME NEW D, IsFiniteSet(D), NEW cost, NEW F, NEW n \in Nat, NEW m \in Nat \ {0},
         AreMultiples(D, cost, m), AreParts(D, F, cost, n, m)
  PROVE  /\ \A d \in D : F[d] \in Int
         /\ m * SumFunctionOnSet(F, D) = n * SumFunctionOnSet(cost, D)
  <1> USE DEF AreMultiples, AreParts
  <1>1. ASSUME NEW d \in D PROVE F[d] \in Int /\ cost[d] \in Int /\ m * F[d] = n * cost[d]
    <2>1. PICK k \in Nat : cost[d] = m * k
      OBVIOUS
    <2>2. (m * k) * n = (k * n) * m /\ k * n \in Nat
      OBVIOUS
    <2> DEFINE x == k * n
    <2>3. (x * m) \div m = x
      <3>1. x \in Nat
        BY <2>2
      <3> HIDE DEF x
      <3>2. QED
        BY <3>1, DivOfProduct
    <2>4. F[d] = k * n
      BY <2>1, <2>2, <2>3
    <2>5. m * (k * n) = n * (m * k)
      OBVIOUS
    <2>6. QED
      BY <2>1, <2>2, <2>4, <2>5
  <1>2. \A d \in D : F[d] \in Int /\ cost[d] \in Int /\ m * F[d] = n * cost[d]
    BY <1>1
  <1>3. m * SumFunctionOnSet(F, D) = n * SumFunctionOnSet(cost, D)
    BY <1>2, SumTimes
  <1>4. QED
    BY <1>2, <1>3

\* What a policy that is a share is charged in a segment is what its days add up
\* to, up to a unit for each cost.
LEMMA PlaceNear ==
  ASSUME CompleteInv, Ready, NEW p \in Pool, Steady(p), Fits(p), NEW q \in input.policies, NEW seg,
         <<p, seg>> \in Places(q), Shares(q.lease, p),
         NEW F, \A d \in DaysOf(seg) : F[d] = OnTheDay(q, p, d)
  PROVE  LET c == Charge(input, q, p, seg)
             D == SumFunctionOnSet(F, DaysOf(seg))
             K == Cardinality(OfCat(p, q.cat))
         IN  /\ c \in Int /\ D \in Int /\ K \in Nat /\ UnitOff(Scale, c, D, K)
             /\ \A d \in DaysOf(seg) : F[d] \in Int
  <1> DEFINE days == DaysOf(seg)
             l == q.lease
             c == Charge(input, q, p, seg)
             D == SumFunctionOnSet(F, days)
             K == Cardinality(OfCat(p, q.cat))
             M == Holds(input, p, {e \in Included(input, p, seg) : input.expense[e].cat = q.cat}, seg)
             area == Denominator(input, p, seg)
             mine == Numerator(input, l, p, seg)
             cost == [d \in days |-> CostOn(p, q.cat, d)]
             T == SumFunctionOnSet(cost, days)
  <1>1. /\ seg \in segments /\ q \in PoliciesIn(input, l, seg)
        /\ p \in PoolsFor(input, q, seg)
    BY PlaceIs
  <1>2. WellFormed(input) /\ seg \in Segments(input)
    BY <1>1, WellFormedInput DEF CompleteInv, EngineInv
  <1>3. IsWindow(seg) /\ IsFiniteSet(days) /\ days # {} /\ days \subseteq DaysOf(Period)
    <2>1. IsWindow(seg) /\ seg \in [from : DaysOf(Period), to : DaysOf(Period)]
      BY <1>2, SegmentIs
    <2>2. QED
      BY <2>1, PeriodIs, DaysAre DEF IsWindow, DaysOf
  <1>4. q \in PoliciesOf(l) /\ l \in Lease /\ Accepts(input.pools[p].categories, q.cat) /\ Scale \in Nat \ {0}
    BY <1>1, <1>2, PolicyIs, LeaseAssumption DEF PoliciesOf, PoolsFor
  <1>5. DOMAIN q.terms \subseteq {"percent"} /\ Target(input, q, p) = None
    BY <1>4 DEF Shares
  <1>6. \A d \in days : cost[d] = CostOn(p, q.cat, d)
    OBVIOUS
  <1>7. /\ K \in Nat /\ T \in Int /\ HalfOff(Scale, M, T, K)
        /\ \A d \in days :
              /\ cost[d] \in Nat
              /\ \A m \in {100, PoolAreaOn(p, d)} \ {0} : \E k \in Nat : cost[d] = m * k
    <2>1. /\ M = Holds(input, p, {e \in Included(input, p, seg) : input.expense[e].cat = q.cat}, seg)
          /\ K = Cardinality(OfCat(p, q.cat)) /\ T = SumFunctionOnSet(cost, DaysOf(seg))
          /\ CostOfDays(cost, p, q.cat, DaysOf(seg))
      BY DEF CostOfDays
    <2> HIDE DEF cost, M, K, T
    <2>2. /\ K \in Nat /\ T \in Int /\ HalfOff(Scale, M, T, K)
          /\ WholeCosts(cost, p, DaysOf(seg))
      BY <1>1, <1>4, <2>1, CostsOfPlace
    <2>3. QED
      BY <2>2 DEF WholeCosts
  <1>8. \A d \in days : F[d] = IF ShareOn(q, p, d).den = 0 THEN 0
                               ELSE (cost[d] * ShareOn(q, p, d).num) \div ShareOn(q, p, d).den
    <2> SUFFICES ASSUME NEW d \in days
        PROVE  F[d] = IF ShareOn(q, p, d).den = 0 THEN 0
                      ELSE (cost[d] * ShareOn(q, p, d).num) \div ShareOn(q, p, d).den
      OBVIOUS
    <2> DEFINE C == {e \in CostsOn(p, d) : input.expense[e].cat = q.cat}
    <2>1. Sum(C, LAMBDA e : (input.assigned[<<e, p>>] * Scale) \div Length(input.expense[e].period))
            = CostOn(p, q.cat, d)
      BY DEF CostOn, OfADay
    <2>2. cost[d] = CostOn(p, q.cat, d)
      BY <1>6
    <2>3. F[d] = OnTheDay(q, p, d)
      OBVIOUS
    <2>4. OnTheDay(q, p, d) =
             LET share == ShareOn(q, p, d)
             IN  IF share.den = 0 THEN 0
                 ELSE (Sum(C, LAMBDA e : (input.assigned[<<e, p>>] * Scale) \div Length(input.expense[e].period))
                          * share.num) \div share.den
      BY DEF OnTheDay
    <2> HIDE DEF C, cost
    <2>5. QED
      BY <2>1, <2>2, <2>3, <2>4
  <1>9. \A d \in days : ShareOn(q, p, d).num >= 0
                        /\ (ShareOn(q, p, d).den = 0 \/ ShareOn(q, p, d).num <= ShareOn(q, p, d).den)
    <2> SUFFICES ASSUME NEW d \in days
        PROVE  ShareOn(q, p, d).num >= 0
               /\ (ShareOn(q, p, d).den = 0 \/ ShareOn(q, p, d).num <= ShareOn(q, p, d).den)
      OBVIOUS
    <2>1. q \in PoliciesOn(l, d) /\ p \in PoolsOn(q, d)
      BY <1>1, <1>2, DaysOfSegment
    <2>2. d \in DaysOf(Period)
      BY <1>3
    <2>3. QED
      BY <2>1, <2>2 DEF Shares
  <1>10. /\ M \in Nat /\ area \in Nat /\ mine \in Nat
         /\ c = IF Has(q, "percent") THEN RoundDiv(M * q.terms.percent, 100)
                ELSE IF area = 0 THEN 0 ELSE RoundDiv(M * mine, area)
    <2>1. \A e \in Included(input, p, seg) : input.expense[e].variability # "unknown"
      BY <1>1, AssembledWell
    <2>2. area \in Nat /\ mine \in Nat
      BY <1>2, <1>3, DenominatorNat, NumeratorNat
    <2> HIDE DEF M
    <2>3. M = Holds(input, p, {e \in Included(input, p, seg) : input.expense[e].cat = q.cat}, seg)
      BY DEF M
    <2>4. QED
      BY <1>2, <1>3, <1>5, <2>1, <2>2, <2>3, PlainCharge
  <1> HIDE DEF cost, M, area, mine, K, T, c, days
  <1>11. ASSUME NEW n \in Nat, NEW m \in Nat \ {0}, n <= m,
                c = RoundDiv(M * n, m), \A d \in days : m \in {100, PoolAreaOn(p, d)},
                \A d \in days : ShareOn(q, p, d).num = n /\ ShareOn(q, p, d).den = m
         PROVE  /\ c \in Int /\ D \in Int /\ \A d \in days : F[d] \in Int
                /\ UnitOff(Scale, c, D, K)
    <2>1. AreParts(days, F, cost, n, m)
      BY <1>8, <1>11 DEF AreParts
    <2>2. AreMultiples(days, cost, m)
      BY <1>7, <1>11 DEF AreMultiples
    <2>3. (\A d \in days : F[d] \in Int) /\ m * D = n * T
      BY <1>3, <2>1, <2>2, RatioOfDays DEF T
    <2>4. D \in Int
      BY <1>3, <2>3, SumInt
    <2> HIDE DEF D
    <2>5. c \in Int /\ UnitOff(Scale, c, D, K)
      <3>1. Scale \in Nat \ {0} /\ M \in Nat /\ K \in Nat /\ T \in Int /\ HalfOff(Scale, M, T, K)
        BY <1>4, <1>7, <1>10
      <3>2. IsPart(D, T, n, m)
        BY <1>11, <2>3 DEF IsPart
      <3>3. RoundDiv(M * n, m) \in Int /\ UnitOff(Scale, RoundDiv(M * n, m), D, K)
        BY <2>4, <3>1, <3>2, ShareNear
      <3>4. QED
        BY <1>11, <3>3
    <2>6. QED
      BY <2>3, <2>4, <2>5
  <1>12. CASE Has(q, "percent")
    <2> DEFINE n == q.terms.percent
    <2>1. \A d \in days : ShareOn(q, p, d).num = n /\ ShareOn(q, p, d).den = 100
      BY <1>12 DEF ShareOn
    <2>2. n \in Int
      BY <1>2, <1>12, PolicyIs, MoneyIs
    <2>3. n >= 0 /\ n <= 100
      <3>1. PICK d \in days : TRUE
        BY <1>3
      <3>2. ShareOn(q, p, d).num = n /\ ShareOn(q, p, d).den = 100
        BY <2>1
      <3> HIDE DEF n
      <3>3. QED
        BY <1>9, <3>2
    <2>4. c = RoundDiv(M * n, 100)
      BY <1>10, <1>12
    <2> HIDE DEF n, D
    <2>5. /\ c \in Int /\ D \in Int /\ \A d \in days : F[d] \in Int
          /\ UnitOff(Scale, c, D, K)
      BY <1>11, <2>1, <2>2, <2>3, <2>4
    <2>6. QED
      BY <1>7, <2>5 DEF c, D, K, days
  <1>13. CASE ~Has(q, "percent")
    <2>1. ASSUME NEW d \in days
          PROVE  /\ ShareOn(q, p, d).num = mine /\ ShareOn(q, p, d).den = PoolAreaOn(p, d)
                 /\ PoolAreaOn(p, d) \in Nat
      <3>1. \A x \in PremisesIn(input, l, p, seg) : \A a \in InForce(x.areas, seg) : a.area # None
        BY <1>1, <1>4, PolicyRan
      <3>2. Sum(AreasOn(l, p, d), LAMBDA at : at[2].area) = mine
        BY <1>2, <3>1, TenantAreaDaily DEF days, mine
      <3>3. ShareOn(q, p, d).num = Sum(AreasOn(l, p, d), LAMBDA at : at[2].area)
            /\ ShareOn(q, p, d).den = PoolAreaOn(p, d)
        BY <1>13 DEF ShareOn
      <3>4. QED
        BY <1>2, <3>2, <3>3, PoolAreaNat
    <2>2. CASE Included(input, p, seg) # {}
      <3>1. \A d \in days : PoolAreaOn(p, d) = area
        <4>1. \A s \in Scopes(input, p, seg) : Covered(input, s, seg) >= Length(seg)
          <5>1. UnmeasuredIn(p, seg) = {}
            BY <1>1, <2>2, AssembledWell
          <5>2. ASSUME NEW s \in Scopes(input, p, seg) PROVE Covered(input, s, seg) >= Length(seg)
            <6>1. ~(Covered(input, s, seg) < Length(seg))
              BY <5>1 DEF UnmeasuredIn
            <6>2. Covered(input, s, seg) \in Nat /\ Length(seg) \in Nat
              BY <1>2, <1>3, CoveredNat, LengthIs
            <6>3. QED
              BY <6>1, <6>2
          <5>3. QED
            BY <5>2
        <4>2. \A s \in Scopes(input, p, seg) : Cardinality(Measured(input, s, seg)) <= 1
          BY <1>1 DEF Steady
        <4>3. QED
          BY <1>2, <2>2, <4>1, <4>2, PoolAreaDaily DEF days, area
      <3>2. CASE area = 0
        <4>1. c = 0
          BY <1>10, <1>13, <3>2
        <4>2. \A d \in days : F[d] = 0
          BY <1>8, <2>1, <3>1, <3>2
        <4>3. D = 0 * Cardinality(days)
          BY <1>3, <4>2, SumCount
        <4>4. D = 0
          BY <1>3, <4>3, FS_CardinalityType
        <4> HIDE DEF D
        <4>5. /\ c \in Int /\ D \in Int /\ \A d \in days : F[d] \in Int
              /\ UnitOff(Scale, c, D, K)
          BY <1>4, <1>7, <4>1, <4>2, <4>4 DEF UnitOff
        <4>6. QED
          BY <1>7, <4>5 DEF c, D, K, days
      <3>3. CASE area # 0
        <4>1. \A d \in days : /\ area \in {100, PoolAreaOn(p, d)}
                              /\ ShareOn(q, p, d).num = mine /\ ShareOn(q, p, d).den = area
          BY <2>1, <3>1
        <4>2. mine <= area
          <5>1. PICK d \in days : TRUE
            BY <1>3
          <5>2. QED
            BY <1>9, <3>3, <4>1, <5>1
        <4>3. c = RoundDiv(M * mine, area)
          BY <1>10, <1>13, <3>3
        <4>4. area \in Nat \ {0} /\ mine \in Nat
          BY <1>10, <3>3
        <4> HIDE DEF D
        <4>5. /\ c \in Int /\ D \in Int /\ \A d \in days : F[d] \in Int
              /\ UnitOff(Scale, c, D, K)
          BY <1>11, <4>1, <4>2, <4>3, <4>4
        <4>6. QED
          BY <1>7, <4>5 DEF c, D, K, days
      <3>4. QED
        BY <3>2, <3>3
    <2>3. CASE Included(input, p, seg) = {}
      <3>1. area = 0
        BY <2>3 DEF Denominator, area
      <3>2. c = 0
        BY <1>10, <1>13, <3>1
      <3>3. M = 0
        <4>1. {e \in Included(input, p, seg) : input.expense[e].cat = q.cat} = {}
          BY <2>3
        <4>2. Holds(input, p, {}, seg) = SumFunctionOnSet([e \in {} |-> Prorated(input, p, e, seg)], {})
          BY DEF Holds, Sum, SumFunction
        <4>3. QED
          BY <4>1, <4>2, SumEmpty DEF M
      <3>4. \A d \in days : F[d] \in Nat /\ cost[d] \in Nat /\ F[d] <= cost[d]
        <4> SUFFICES ASSUME NEW d \in days PROVE F[d] \in Nat /\ cost[d] \in Nat /\ F[d] <= cost[d]
          OBVIOUS
        <4>1. cost[d] \in Nat
          BY <1>7
        <4>2. CASE PoolAreaOn(p, d) = 0
          BY <1>8, <2>1, <4>1, <4>2
        <4>3. CASE PoolAreaOn(p, d) # 0
          <5>1. mine <= PoolAreaOn(p, d) /\ PoolAreaOn(p, d) \in Nat \ {0}
            BY <1>9, <2>1, <4>3
          <5>2. F[d] = (cost[d] * mine) \div PoolAreaOn(p, d)
            BY <1>8, <2>1, <4>3
          <5>3. QED
            BY <1>10, <4>1, <5>1, <5>2, PartOfCost
        <4>4. QED
          BY <4>2, <4>3
      <3>5. D \in Nat /\ D <= T
        <4>1. D \in Nat
          BY <1>3, <3>4, SumNat
        <4>2. \A d \in days : F[d] \in Int /\ cost[d] \in Int /\ F[d] <= cost[d]
          BY <3>4
        <4>3. D <= T
          BY <1>3, <4>2, SumMonotone DEF T
        <4>4. QED
          BY <4>1, <4>3
      <3>6. 2 * T <= Scale * K
        BY <1>4, <1>7, <3>3 DEF HalfOff
      <3> HIDE DEF D
      <3>7. /\ c \in Int /\ D \in Int /\ \A d \in days : F[d] \in Int
            /\ UnitOff(Scale, c, D, K)
        <4> DEFINE x == Scale * K
        <4>1. x \in Nat /\ Scale * c = 0 /\ Scale * (c + K) = x
          BY <1>4, <1>7, <3>2
        <4> HIDE DEF x
        <4>2. 2 * T <= x
          BY <3>6 DEF x
        <4>3. 0 <= D + x /\ D <= x
          BY <1>7, <3>5, <4>1, <4>2
        <4>4. QED
          BY <3>2, <3>4, <3>5, <4>1, <4>3 DEF x, UnitOff
      <3>8. QED
        BY <1>7, <3>7 DEF c, D, K, days
    <2>4. QED
      BY <2>2, <2>3
  <1>14. QED
    BY <1>12, <1>13

-----------------------------------------------------------------------------
\* What is a unit off for each cost is so in sum.
LEMMA SumUnitOff ==
  ASSUME NEW A, IsFiniteSet(A), NEW S \in Nat, NEW c, NEW d, NEW k,
         \A x \in A : c[x] \in Int /\ d[x] \in Int /\ k[x] \in Nat /\ UnitOff(S, c[x], d[x], k[x])
  PROVE  UnitOff(S, SumFunctionOnSet(c, A), SumFunctionOnSet(d, A), SumFunctionOnSet(k, A))
  <1> DEFINE C == SumFunctionOnSet(c, A)
             D == SumFunctionOnSet(d, A)
             K == SumFunctionOnSet(k, A)
             e == [x \in A |-> c[x] + k[x]]
             f == [x \in A |-> S * c[x]]
             g == [x \in A |-> d[x] + S * k[x]]
             h == [x \in A |-> S * e[x]]
  <1>1. \A x \in A : c[x] \in Int /\ d[x] \in Int /\ k[x] \in Int /\ UnitOff(S, c[x], d[x], k[x])
    OBVIOUS
  <1>2. \A x \in A : /\ e[x] \in Int /\ e[x] = c[x] + k[x]
                     /\ f[x] \in Int /\ f[x] = S * c[x]
                     /\ g[x] \in Int /\ g[x] = d[x] + S * k[x]
                     /\ h[x] \in Int /\ h[x] = S * e[x]
    BY <1>1
  <1> HIDE DEF e, f, g, h
  <1>3. SumFunctionOnSet(e, A) = C + K
    <2>1. \A x \in A : c[x] \in Int /\ k[x] \in Int /\ e[x] = c[x] + k[x]
      BY <1>1, <1>2
    <2>2. QED
      BY <2>1, SumPlus
  <1>4. SumFunctionOnSet(g, A) = D + S * K
    <2>1. \A x \in A : d[x] \in Int /\ k[x] \in Int /\ g[x] = d[x] + S * k[x]
      BY <1>1, <1>2
    <2>2. S \in Int
      OBVIOUS
    <2>3. QED
      BY <2>1, <2>2, SumLinear
  <1>5. 1 * SumFunctionOnSet(f, A) = S * C
    <2>1. \A x \in A : f[x] \in Int /\ c[x] \in Int /\ 1 * f[x] = S * c[x]
      BY <1>1, <1>2
    <2>2. 1 \in Int /\ S \in Int
      OBVIOUS
    <2>3. QED
      BY <2>1, <2>2, SumTimes
  <1>6. 1 * SumFunctionOnSet(h, A) = S * SumFunctionOnSet(e, A)
    <2>1. \A x \in A : h[x] \in Int /\ e[x] \in Int /\ 1 * h[x] = S * e[x]
      BY <1>2
    <2>2. 1 \in Int /\ S \in Int
      OBVIOUS
    <2>3. QED
      BY <2>1, <2>2, SumTimes
  <1>7. SumFunctionOnSet(f, A) <= SumFunctionOnSet(g, A) /\ SumFunctionOnSet(d, A) <= SumFunctionOnSet(h, A)
    <2>1. \A x \in A : f[x] \in Int /\ g[x] \in Int /\ f[x] <= g[x]
      BY <1>1, <1>2 DEF UnitOff
    <2>2. \A x \in A : d[x] \in Int /\ h[x] \in Int /\ d[x] <= h[x]
      BY <1>1, <1>2 DEF UnitOff
    <2>3. QED
      BY <2>1, <2>2, SumMonotone
  <1>8. SumFunctionOnSet(f, A) \in Int /\ SumFunctionOnSet(h, A) \in Int
    BY <1>2, SumInt
  <1>9. S * C <= D + S * K /\ D <= S * (C + K)
    BY <1>3, <1>4, <1>5, <1>6, <1>7, <1>8
  <1>10. QED
    BY <1>9 DEF UnitOff

\* What the days of D are worth, by the day and by the policy and the day.
WorthOfDays(F, q, p, D)  == \A d \in D : F[d] \in Int /\ F[d] = OnTheDay(q, p, d)
WorthOfPairs(f, q, p, D) == \A d \in D : f[<<q, d>>] = OnTheDay(q, p, d)

\* The days of a policy are finitely many, each worth a number.
LEMMA PairsAre ==
  ASSUME NEW q, NEW p, NEW D, IsFiniteSet(D),
         NEW F, WorthOfDays(F, q, p, D), NEW f, WorthOfPairs(f, q, p, D)
  PROVE  IsFiniteSet({q} \X D) /\ \A y \in {q} \X D : f[y] \in Int
  <1>1. IsFiniteSet({q} \X D)
    BY FS_Singleton, FS_Product
  <1>2. \A y \in {q} \X D : f[y] \in Int
    BY DEF WorthOfDays, WorthOfPairs
  <1>3. QED
    BY <1>1, <1>2

\* The days of a policy, one by one or with the policy.
LEMMA DaysOfPolicy ==
  ASSUME NEW q, NEW p, NEW D, IsFiniteSet(D),
         NEW F, WorthOfDays(F, q, p, D), NEW f, WorthOfPairs(f, q, p, D)
  PROVE  SumFunctionOnSet(f, {q} \X D) = SumFunctionOnSet(F, D)
  <1> DEFINE h == [d \in D |-> <<q, d>>]
  <1>1. h = [d \in D |-> h[d]] /\ (\A x, y \in D : h[x] = h[y] => x = y) /\ {q} \X D = {h[d] : d \in D}
    OBVIOUS
  <1>2. \A d \in D : f[h[d]] \in Int /\ F[d] = f[h[d]]
    BY DEF WorthOfDays, WorthOfPairs
  <1> HIDE DEF h
  <1>3. SumFunctionOnSet(f, {h[d] : d \in D}) = SumFunctionOnSet(F, D)
    BY <1>1, <1>2, SumRenamed
  <1>4. QED
    BY <1>1, <1>3

\* Where the policies of a lease recover from a pool.
PlacesOf(l, p) ==
    UNION {{<<q, seg>> : seg \in {s \in segments : <<p, s>> \in Places(q)}}
              : q \in {q \in input.policies : q.lease = l}}

\* They are finitely many pairs of a policy and a segment.
LEMMA PlacesAre ==
  ASSUME EngineInv, NEW l, NEW p \in Pool
  PROVE  /\ IsFiniteSet(PlacesOf(l, p))
         /\ \A at \in PlacesOf(l, p) : /\ at = <<at[1], at[2]>>
                                       /\ at[1] \in input.policies /\ at[1].lease = l
                                       /\ at[2] \in segments /\ <<p, at[2]>> \in Places(at[1])
         /\ \A q \in input.policies, s \in segments :
               q.lease = l /\ <<p, s>> \in Places(q) => <<q, s>> \in PlacesOf(l, p)
  <1>1. WellFormed(input) /\ segments = Segments(input)
    BY WellFormedInput DEF EngineInv
  <1>2. IsFiniteSet(input.policies) /\ IsFiniteSet(segments)
    BY <1>1, WindowsAre, SegmentsFinite DEF WellFormed
  <1>3. ASSUME NEW at \in PlacesOf(l, p)
        PROVE  /\ at = <<at[1], at[2]>> /\ at[1] \in input.policies /\ at[1].lease = l
               /\ at[2] \in segments /\ <<p, at[2]>> \in Places(at[1])
    <2>1. PICK q \in {q \in input.policies : q.lease = l} :
             at \in {<<q, seg>> : seg \in {s \in segments : <<p, s>> \in Places(q)}}
      BY DEF PlacesOf
    <2>2. PICK s \in {s \in segments : <<p, s>> \in Places(q)} : at = <<q, s>>
      BY <2>1
    <2>3. at[1] = q /\ at[2] = s
      BY <2>2
    <2>4. QED
      BY <2>1, <2>2, <2>3
  <1>4. ASSUME NEW at \in PlacesOf(l, p) PROVE at \in input.policies \X segments
    <2>1. at[1] \in input.policies /\ at[2] \in segments
      BY <1>3
    <2>2. <<at[1], at[2]>> \in input.policies \X segments
      BY <2>1
    <2>3. at = <<at[1], at[2]>>
      BY <1>3
    <2>4. QED
      BY <2>2, <2>3
  <1>5. IsFiniteSet(PlacesOf(l, p))
    <2>1. PlacesOf(l, p) \subseteq input.policies \X segments
      BY <1>4
    <2>2. IsFiniteSet(input.policies \X segments)
      BY <1>2, FS_Product
    <2>3. QED
      BY <2>1, <2>2, FS_Subset
  <1>6. ASSUME NEW q \in input.policies, NEW s \in segments, q.lease = l, <<p, s>> \in Places(q)
        PROVE  <<q, s>> \in PlacesOf(l, p)
    <2>1. q \in {r \in input.policies : r.lease = l} /\ s \in {t \in segments : <<p, t>> \in Places(q)}
      BY <1>6
    <2>2. <<q, s>> \in {<<q, seg>> : seg \in {t \in segments : <<p, t>> \in Places(q)}}
      BY <2>1
    <2>3. QED
      BY <2>1, <2>2, Zenon DEF PlacesOf
  <1>7. QED
    BY <1>3, <1>5, <1>6

\* The days on which the policies of a lease recover from a pool are those of
\* these places, each of one of them.
LEMMA DaysOfPlaces ==
  ASSUME CompleteInv, Ready, NEW l \in Lease, NEW p \in Pool,
         NEW F, \A at \in PlacesOf(l, p) : F[at] = {at[1]} \X DaysOf(at[2])
  PROVE  /\ UNION {{<<q, d>> : q \in {q \in PoliciesOn(l, d) : p \in PoolsOn(q, d)}} : d \in DaysOf(Period)}
               = UNION {F[at] : at \in PlacesOf(l, p)}
         /\ \A x, y \in PlacesOf(l, p) : x # y => F[x] \cap F[y] = {}
  <1> DEFINE A == PlacesOf(l, p)
             B == UNION {{<<q, d>> : q \in {q \in PoliciesOn(l, d) : p \in PoolsOn(q, d)}} : d \in DaysOf(Period)}
  <1>1. EngineInv /\ WellFormed(input) /\ segments = Segments(input)
    BY WellFormedInput DEF CompleteInv, EngineInv
  <1>2. \A at \in A : /\ at = <<at[1], at[2]>> /\ at[1] \in input.policies /\ at[1].lease = l
                      /\ at[2] \in segments /\ <<p, at[2]>> \in Places(at[1])
    BY <1>1, PlacesAre
  <1>3. ASSUME NEW y \in B PROVE \E at \in A : y \in F[at]
    <2>1. PICK d \in DaysOf(Period) : y \in {<<q, d>> : q \in {q \in PoliciesOn(l, d) : p \in PoolsOn(q, d)}}
      OBVIOUS
    <2>2. PICK q \in PoliciesOn(l, d) : y = <<q, d>> /\ p \in PoolsOn(q, d)
      BY <2>1
    <2>3. PICK s \in segments : d \in DaysOf(s)
      BY <1>1, SegmentOf
    <2>4. q \in PoliciesIn(input, l, s) /\ p \in PoolsFor(input, q, s)
      BY <1>1, <2>2, <2>3, DaysOfSegment
    <2>5. q \in input.policies /\ q.lease = l
      BY <2>2 DEF PoliciesOn, OnDay
    <2>6. Runs(q, s)
      BY <2>3, <2>4, PolicyRan DEF Runs
    <2>7. <<p, s>> \in Places(q)
      <3>1. s \in {t \in segments : q \in PoliciesIn(input, q.lease, t) /\ Runs(q, t)}
        BY <2>3, <2>4, <2>5, <2>6
      <3>2. <<p, s>> \in PoolsFor(input, q, s) \X {s}
        BY <2>4
      <3>3. QED
        BY <3>1, <3>2 DEF Places
    <2>8. <<q, s>> \in A
      BY <1>1, <2>3, <2>5, <2>7, PlacesAre
    <2>9. F[<<q, s>>] = {q} \X DaysOf(s)
      BY <2>8
    <2> HIDE DEF A, B
    <2>10. y \in F[<<q, s>>]
      BY <2>2, <2>3, <2>9
    <2>11. QED
      BY <2>8, <2>10
  <1>4. ASSUME NEW at \in A, NEW y \in F[at] PROVE y \in B
    <2> DEFINE q == at[1]
               s == at[2]
    <2>1. q \in input.policies /\ q.lease = l /\ s \in segments /\ <<p, s>> \in Places(q)
      BY <1>2
    <2>2. F[at] = {q} \X DaysOf(s)
      OBVIOUS
    <2> HIDE DEF q, s, A
    <2>3. PICK d \in DaysOf(s) : y = <<q, d>>
      BY <2>2
    <2>4. q \in PoliciesIn(input, l, s) /\ p \in PoolsFor(input, q, s)
      BY <2>1, PlaceIs
    <2>5. q \in PoliciesOn(l, d) /\ p \in PoolsOn(q, d)
      BY <1>1, <2>1, <2>4, DaysOfSegment
    <2>6. d \in DaysOf(Period)
      <3>1. s \in [from : DaysOf(Period), to : DaysOf(Period)] /\ IsWindow(s)
        BY <1>1, <2>1, SegmentIs
      <3>2. QED
        BY <3>1, PeriodIs DEF DaysOf, IsWindow
    <2>7. y \in {<<r, d>> : r \in {r \in PoliciesOn(l, d) : p \in PoolsOn(r, d)}}
      BY <2>3, <2>5
    <2> DEFINE of(day) == {<<r, day>> : r \in {r \in PoliciesOn(l, day) : p \in PoolsOn(r, day)}}
    <2>8. y \in of(d) /\ B = UNION {of(day) : day \in DaysOf(Period)}
      BY <2>7
    <2> HIDE DEF of, B
    <2>9. QED
      BY <2>6, <2>8
  <1>5. ASSUME NEW x \in A, NEW y \in A, NEW z, z \in F[x], z \in F[y] PROVE x = y
    <2>1. /\ x = <<x[1], x[2]>> /\ y = <<y[1], y[2]>> /\ x[2] \in segments /\ y[2] \in segments
          /\ F[x] = {x[1]} \X DaysOf(x[2]) /\ F[y] = {y[1]} \X DaysOf(y[2])
      BY <1>2
    <2>2. z[1] = x[1] /\ z[1] = y[1] /\ z[2] \in DaysOf(x[2]) /\ z[2] \in DaysOf(y[2])
      BY <1>5, <2>1
    <2>3. x[2] = y[2]
      BY <1>1, <2>1, <2>2, SegmentsApart
    <2>4. QED
      BY <2>1, <2>2, <2>3
  <1>6. B = UNION {F[at] : at \in A}
    <2> HIDE DEF A, B
    <2>1. QED
      BY <1>3, <1>4
  <1>7. \A x, y \in A : x # y => F[x] \cap F[y] = {}
    <2> HIDE DEF A
    <2>1. QED
      BY <1>5
  <1>8. QED
    BY <1>6, <1>7

\* In a segment each cost is shared by one policy of a lease at most.
LEMMA CostsOfPlaces ==
  ASSUME EngineInv, NEW l, NEW p \in Pool,
         NEW k, \A at \in PlacesOf(l, p) : k[at] = Cardinality(OfCat(p, at[1].cat))
  PROVE  SumFunctionOnSet(k, PlacesOf(l, p)) <= Cardinality(segments) * Cardinality(Expense)
  <1> DEFINE A == PlacesOf(l, p)
             G == [at \in A |-> OfCat(p, at[1].cat) \X {at[2]}]
             all == UNION {G[at] : at \in A}
  <1>1. IsFiniteSet(A) /\ \A at \in A : /\ at = <<at[1], at[2]>> /\ at[1] \in input.policies /\ at[1].lease = l
                                        /\ at[2] \in segments /\ <<p, at[2]>> \in Places(at[1])
    BY PlacesAre
  <1>2. IsFiniteSet(Expense) /\ IsFiniteSet(segments)
    <2>1. WellFormed(input) /\ segments = Segments(input)
      BY WellFormedInput DEF EngineInv
    <2>2. QED
      BY <2>1, SegmentsFinite, LeaseAssumption
  <1>3. \A c : IsFiniteSet(OfCat(p, c)) /\ OfCat(p, c) \subseteq Expense
    <2>1. \A c : OfCat(p, c) \subseteq Expense
      BY DEF OfCat, Spread, Assigned
    <2>2. QED
      BY <1>2, <2>1, FS_Subset
  <1>4. \A at \in A : G[at] = OfCat(p, at[1].cat) \X {at[2]}
    OBVIOUS
  <1> HIDE DEF G, A
  <1>5. ASSUME NEW at \in A
        PROVE  /\ IsFiniteSet(G[at]) /\ k[at] = Cardinality(G[at])
               /\ G[at] \subseteq Expense \X segments
    <2> DEFINE E == OfCat(p, at[1].cat)
    <2>1. IsFiniteSet(E) /\ IsFiniteSet({at[2]}) /\ Cardinality({at[2]}) = 1 /\ E \subseteq Expense
      BY <1>3, FS_Singleton
    <2>2. G[at] = E \X {at[2]} /\ k[at] = Cardinality(E)
      BY <1>4 DEF A
    <2> HIDE DEF E
    <2>3. IsFiniteSet(E \X {at[2]}) /\ Cardinality(E \X {at[2]}) = Cardinality(E) * Cardinality({at[2]})
      BY <2>1, FS_Product
    <2>4. Cardinality(E) \in Nat
      BY <2>1, FS_CardinalityType
    <2>5. Cardinality(E \X {at[2]}) = Cardinality(E)
      <3> DEFINE n == Cardinality(E)
      <3>1. n \in Nat /\ Cardinality(E \X {at[2]}) = n * 1
        BY <2>1, <2>3, <2>4
      <3> HIDE DEF n
      <3>2. Cardinality(E \X {at[2]}) = n
        BY <3>1
      <3>3. QED
        BY <3>2 DEF n
    <2>6. at[2] \in segments
      BY <1>1
    <2>7. QED
      BY <2>1, <2>2, <2>3, <2>5, <2>6
  <1>6. ASSUME NEW x \in A, NEW y \in A, NEW z, z \in G[x], z \in G[y] PROVE x = y
    <2>1. G[x] = OfCat(p, x[1].cat) \X {x[2]} /\ G[y] = OfCat(p, y[1].cat) \X {y[2]}
      BY <1>4
    <2>2. z[1] \in OfCat(p, x[1].cat) /\ z[1] \in OfCat(p, y[1].cat) /\ z[2] = x[2] /\ z[2] = y[2]
      BY <1>6, <2>1
    <2>3. x[1].cat = y[1].cat /\ x[2] = y[2]
      BY <2>2 DEF OfCat
    <2>4. /\ x[1].lease = l /\ y[1].lease = l
          /\ <<p, x[2]>> \in Places(x[1]) /\ <<p, x[2]>> \in Places(y[1])
      BY <1>1, <2>3
    <2>5. y[1] \in PoliciesIn(input, l, x[2]) /\ Rivals(input, x[1], x[2]) = {}
      BY <2>4, PlaceIs
    <2>6. x[1] = y[1]
      BY <2>3, <2>4, <2>5 DEF Rivals
    <2>7. QED
      BY <1>1, <2>3, <2>6
  <1>7. SumFunctionOnSet(k, A) = Cardinality(all) /\ IsFiniteSet(all)
    <2>1. \A at \in A : IsFiniteSet(G[at])
      BY <1>5
    <2>2. \A x, y \in A : x # y => G[x] \cap G[y] = {}
      BY <1>6
    <2>3. \A at \in A : k[at] = Cardinality(G[at])
      BY <1>5
    <2>4. QED
      BY <1>1, <2>1, <2>2, <2>3, SumOfSizes
  <1>8. all \subseteq Expense \X segments
    BY <1>5
  <1> HIDE DEF all
  <1>9. /\ IsFiniteSet(Expense \X segments)
        /\ Cardinality(Expense \X segments) = Cardinality(Expense) * Cardinality(segments)
    BY <1>2, FS_Product
  <1>10. Cardinality(all) <= Cardinality(Expense \X segments)
    BY <1>8, <1>9, FS_Subset
  <1>11. Cardinality(Expense) * Cardinality(segments) = Cardinality(segments) * Cardinality(Expense)
    <2> DEFINE a == Cardinality(Expense)
               b == Cardinality(segments)
    <2>1. a \in Nat /\ b \in Nat
      BY <1>2, FS_CardinalityType
    <2> HIDE DEF a, b
    <2>2. a * b = b * a
      BY <2>1
    <2>3. QED
      BY <2>2 DEF a, b
  <1>12. QED
    BY <1>7, <1>9, <1>10, <1>11 DEF A

\* What a lease owes is what is charged in its places.
LEMMA OwedOfPlaces ==
  ASSUME NEW l, NEW p, NEW charge, charge = [at \in PlacesOf(l, p) |-> Charge(input, at[1], p, at[2])]
  PROVE  Owed(l, p) = SumFunctionOnSet(charge, PlacesOf(l, p))
  <1> DEFINE A == PlacesOf(l, p)
  <1>1. Owed(l, p) = SumFunction([at \in A |-> Charge(input, at[1], p, at[2])])
    BY Zenon DEF Owed, Sum, PlacesOf
  <1>2. DOMAIN charge = A /\ Owed(l, p) = SumFunction(charge)
    BY <1>1
  <1> HIDE DEF A
  <1>3. SumFunction(charge) = SumFunctionOnSet(charge, A)
    BY <1>2 DEF SumFunction
  <1>4. QED
    BY <1>2, <1>3 DEF A

\* The days that a lease recovers from a pool, and what each is worth.
LEMMA ByDayOfDays ==
  ASSUME NEW l, NEW p, NEW B,
         B = UNION {{<<q, d>> : q \in {q \in PoliciesOn(l, d) : p \in PoolsOn(q, d)}} : d \in DaysOf(Period)},
         NEW f, f = [at \in B |-> OnTheDay(at[1], p, at[2])]
  PROVE  ByDay(l, p) = SumFunctionOnSet(f, B)
  <1>1. ByDay(l, p) = SumFunction([at \in B |-> OnTheDay(at[1], p, at[2])])
    BY Zenon DEF ByDay, Sum
  <1>2. DOMAIN f = B /\ ByDay(l, p) = SumFunction(f)
    BY <1>1
  <1>3. QED
    BY <1>2 DEF SumFunction

\* Once every lease is charged, what a share of a pool owes is what its days add
\* up to, but for a unit for each cost in each segment.
LEMMA OwedByDay ==
  ASSUME OwingInv, Ready, NEW p \in Pool, NEW l \in DOMAIN raw[p],
         Steady(p), Fits(p), Shares(l, p)
  PROVE  /\ 2 * (Scale * raw[p][l] - ByDay(l, p)) <= Scale * Tolerance
         /\ 2 * (ByDay(l, p) - Scale * raw[p][l]) <= Scale * Tolerance
  <1> DEFINE A == PlacesOf(l, p)
             B == UNION {{<<q, d>> : q \in {q \in PoliciesOn(l, d) : p \in PoolsOn(q, d)}} : d \in DaysOf(Period)}
             charge == [at \in A |-> Charge(input, at[1], p, at[2])]
             F == [at \in A |-> {at[1]} \X DaysOf(at[2])]
             f == [y \in B |-> OnTheDay(y[1], p, y[2])]
             ofDay(at) == [d \in DaysOf(at[2]) |-> OnTheDay(at[1], p, d)]
             daily == [at \in A |-> SumFunctionOnSet(ofDay(at), DaysOf(at[2]))]
             k == [at \in A |-> Cardinality(OfCat(p, at[1].cat))]
  <1>1. CompleteInv /\ EngineInv /\ Owing
    BY DEF OwingInv, CompleteInv
  <1>2. l \in charged /\ l \in Lease /\ raw[p][l] = Owed(l, p)
    <2>1. l \in charged /\ raw[p][l] = Owed(l, p)
      BY <1>1 DEF Owing
    <2>2. charged \subseteq Lease
      BY <1>1 DEF EngineInv, EngineTypeOK
    <2>3. QED
      BY <2>1, <2>2
  <1>3. IsFiniteSet(A) /\ \A at \in A : /\ at = <<at[1], at[2]>> /\ at[1] \in input.policies /\ at[1].lease = l
                                        /\ at[2] \in segments /\ <<p, at[2]>> \in Places(at[1])
    BY <1>1, PlacesAre
  <1>4. Owed(l, p) = SumFunctionOnSet(charge, A)
    <2>1. charge = [at \in A |-> Charge(input, at[1], p, at[2])]
      OBVIOUS
    <2> HIDE DEF charge
    <2>2. QED
      BY <2>1, OwedOfPlaces
  <1>5. ByDay(l, p) = SumFunctionOnSet(f, B)
    <2>1. f = [y \in B |-> OnTheDay(y[1], p, y[2])]
      OBVIOUS
    <2>2. B = UNION {{<<q, d>> : q \in {q \in PoliciesOn(l, d) : p \in PoolsOn(q, d)}} : d \in DaysOf(Period)}
      OBVIOUS
    <2> HIDE DEF f, B
    <2>3. QED
      BY <2>1, <2>2, ByDayOfDays
  <1>6. B = UNION {F[at] : at \in A} /\ \A x, y \in A : x # y => F[x] \cap F[y] = {}
    <2>1. \A at \in A : F[at] = {at[1]} \X DaysOf(at[2])
      OBVIOUS
    <2> HIDE DEF F
    <2>2. QED
      BY <1>1, <1>2, <2>1, DaysOfPlaces
  <1>7. ASSUME NEW at \in A
        PROVE  /\ charge[at] \in Int /\ daily[at] \in Int /\ k[at] \in Nat
               /\ UnitOff(Scale, charge[at], daily[at], k[at])
               /\ IsFiniteSet(F[at]) /\ daily[at] = SumFunctionOnSet(f, F[at])
               /\ \A y \in F[at] : f[y] \in Int
    <2> DEFINE q == at[1]
               s == at[2]
               D == DaysOf(s)
               G == [d \in D |-> OnTheDay(q, p, d)]
    <2>1. /\ q \in input.policies /\ q.lease = l /\ s \in segments /\ <<p, s>> \in Places(q)
          /\ Shares(q.lease, p)
      BY <1>3
    <2>2. /\ charge[at] = Charge(input, q, p, s) /\ daily[at] = SumFunctionOnSet(G, D)
          /\ k[at] = Cardinality(OfCat(p, q.cat)) /\ F[at] = {q} \X D
      OBVIOUS
    <2>3. G = [d \in D |-> OnTheDay(q, p, d)] /\ \A d \in D : G[d] = OnTheDay(q, p, d)
      OBVIOUS
    <2>4. F[at] \subseteq B
      BY <1>6
    <2>5. \A d \in D : <<q, d>> \in F[at] /\ f[<<q, d>>] = OnTheDay(q, p, d)
      <3> SUFFICES ASSUME NEW d \in D PROVE <<q, d>> \in F[at] /\ f[<<q, d>>] = OnTheDay(q, p, d)
        OBVIOUS
      <3>1. <<q, d>> \in F[at]
        BY <2>2
      <3>2. <<q, d>> \in B
        BY <2>4, <3>1
      <3>3. QED
        BY <3>1, <3>2
    <2>6. IsFiniteSet(D)
      <3>1. WellFormed(input) /\ s \in Segments(input)
        BY <1>1, <2>1, WellFormedInput DEF EngineInv
      <3>2. IsWindow(s)
        BY <3>1, SegmentIs
      <3>3. QED
        BY <3>2, DaysAre
    <2> HIDE DEF q, s, D, G, charge, daily, k, F, f, A, B
    <2>7. /\ Charge(input, q, p, s) \in Int /\ SumFunctionOnSet(G, D) \in Int
          /\ Cardinality(OfCat(p, q.cat)) \in Nat
          /\ UnitOff(Scale, Charge(input, q, p, s), SumFunctionOnSet(G, D), Cardinality(OfCat(p, q.cat)))
          /\ \A d \in D : G[d] \in Int
      BY <1>1, <2>1, <2>3, PlaceNear DEF D
    <2>8. /\ SumFunctionOnSet(f, F[at]) = SumFunctionOnSet(G, D) /\ IsFiniteSet(F[at])
          /\ \A y \in F[at] : f[y] \in Int
      <3>1. WorthOfPairs(f, q, p, D)
        BY <2>5 DEF WorthOfPairs
      <3>2. WorthOfDays(G, q, p, D)
        BY <2>3, <2>7 DEF WorthOfDays
      <3>3. SumFunctionOnSet(f, {q} \X D) = SumFunctionOnSet(G, D)
        BY <2>6, <3>1, <3>2, DaysOfPolicy
      <3>4. IsFiniteSet({q} \X D) /\ \A y \in {q} \X D : f[y] \in Int
        BY <2>6, <3>1, <3>2, PairsAre
      <3>5. QED
        BY <2>2, <3>3, <3>4
    <2>9. QED
      BY <2>2, <2>7, <2>8
  <1>8. SumFunctionOnSet(k, A) <= Cardinality(segments) * Cardinality(Expense)
    <2>1. \A at \in A : k[at] = Cardinality(OfCat(p, at[1].cat))
      OBVIOUS
    <2> HIDE DEF k
    <2>2. QED
      BY <1>1, <2>1, CostsOfPlaces
  <1> HIDE DEF charge, F, f, daily, k, A, B
  <1>9. SumFunctionOnSet(f, B) = SumFunctionOnSet(daily, A)
    <2>1. /\ \A at \in A : IsFiniteSet(F[at])
          /\ \A at \in A : \A y \in F[at] : f[y] \in Int
          /\ \A at \in A : daily[at] = SumFunctionOnSet(f, F[at])
      BY <1>7
    <2>2. \A x, y \in A : x # y => F[x] \cap F[y] = {}
      BY <1>6
    <2>3. SumFunctionOnSet(f, UNION {F[at] : at \in A}) = SumFunctionOnSet(daily, A)
      BY <1>3, <2>1, <2>2, SumOverParts
    <2>4. QED
      BY <1>6, <2>3
  <1>10. UnitOff(Scale, SumFunctionOnSet(charge, A), SumFunctionOnSet(daily, A), SumFunctionOnSet(k, A))
    <2>1. \A at \in A : /\ charge[at] \in Int /\ daily[at] \in Int /\ k[at] \in Nat
                        /\ UnitOff(Scale, charge[at], daily[at], k[at])
      BY <1>7
    <2>2. Scale \in Nat
      BY LeaseAssumption
    <2>3. QED
      BY <1>3, <2>1, <2>2, SumUnitOff
  <1>11. /\ SumFunctionOnSet(charge, A) \in Int /\ SumFunctionOnSet(daily, A) \in Int
         /\ SumFunctionOnSet(k, A) \in Int
    <2>1. \A at \in A : charge[at] \in Int /\ daily[at] \in Int /\ k[at] \in Int
      BY <1>7
    <2>2. QED
      BY <1>3, <2>1, SumInt
  <1> DEFINE R == raw[p][l]
             T == ByDay(l, p)
             K == SumFunctionOnSet(k, A)
             m == Cardinality(segments)
             n == Cardinality(Expense)
  <1>12. R \in Int /\ T \in Int /\ K \in Int /\ UnitOff(Scale, R, T, K)
    BY <1>2, <1>4, <1>5, <1>9, <1>10, <1>11
  <1>13. m \in Nat /\ n \in Nat /\ Tolerance = 2 * m * n /\ K <= m * n
    <2>1. IsFiniteSet(segments) /\ IsFiniteSet(Expense)
      BY <1>1, WellFormedInput, SegmentsFinite, LeaseAssumption DEF EngineInv
    <2>2. QED
      BY <1>8, <2>1, FS_CardinalityType DEF Tolerance
  <1> HIDE DEF R, T, K, m, n
  <1> DEFINE w == m * n
             x == Scale * R
             y == Scale * K
             z == Scale * w
  <1>14. w \in Nat /\ Scale \in Nat /\ K <= w /\ Tolerance = 2 * w
    <2>1. 2 * m * n = 2 * (m * n) /\ m * n \in Nat
      BY <1>13
    <2>2. QED
      BY <1>13, <2>1, LeaseAssumption
  <1> HIDE DEF w
  <1>15. x \in Int /\ y \in Int /\ z \in Int /\ y <= z
    BY <1>12, <1>14
  <1>16. Scale * (R + K) = x + y /\ Scale * Tolerance = 2 * z
    BY <1>12, <1>14
  <1>17. x <= T + y /\ T <= x + y
    BY <1>12, <1>16 DEF UnitOff
  <1>18. Scale * R = x
    OBVIOUS
  <1> HIDE DEF x, y, z
  <1>19. 2 * (x - T) <= 2 * z /\ 2 * (T - x) <= 2 * z
    BY <1>12, <1>15, <1>17
  <1>20. QED
    BY <1>16, <1>18, <1>19 DEF R, T

\* Day by day: where a lease has a share of a pool and no other terms, the amount
\* that the passes over the segments of the period add up to is the sum, over the
\* days of the period, of its part of what each day costs, but for the
\* roundings: half a unit for each cost in a segment and half for each share.
THEOREM DailyAmounts == EngineSpec => []DayByDay
  <1>1. OwingInv => DayByDay
    BY OwedByDay DEF DayByDay
  <1>2. QED
    BY <1>1, OwedInvariance, PTL

=============================================================================
