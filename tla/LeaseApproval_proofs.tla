----------------------- MODULE LeaseApproval_proofs -----------------------
(***************************************************************************)
(* Theorems about LeaseApproval, for any keys, requests, calls, re-runs    *)
(* and reviews, with and without failures.                                 *)
(***************************************************************************)
EXTENDS LeaseApproval, SequenceTheorems, TLAPS

(* Every variable keeps its type.                                          *)
LEMMA TypeInit == Init => TypeOK
  BY RequestAssumption
  DEF Init, TypeOK, Lease, LeaseStatus, AbstractStatus, Answer, NoAnswer, Requests, RequestPc,
      Computes, ComputePc, Reruns, RerunPc

\* The other writers keep the row of the lease well-formed.
LEMMA LeaseStepType == ASSUME TypeOK, LeaseStep PROVE TypeOK'
  <1>1. ASSUME NEW v \in Review, SaveDraft(v) PROVE TypeOK'
    BY <1>1, TypeOK
    DEF TypeOK, SaveDraft, WriteLease, derivedVars, Lease, LeaseStatus, AbstractStatus
  <1>2. CASE Reject
    BY <1>2, TypeOK DEF TypeOK, Reject, WriteLease, derivedVars, Lease, LeaseStatus, AbstractStatus
  <1>3. CASE SendBack
    BY <1>3, TypeOK DEF TypeOK, SendBack, WriteLease, derivedVars, Lease, LeaseStatus, AbstractStatus
  <1>4. CASE Supersede
    BY <1>4, TypeOK DEF TypeOK, Supersede, WriteLease, derivedVars, Lease, LeaseStatus, AbstractStatus
  <1> QED
    BY <1>1, <1>2, <1>3, <1>4, LeaseStep DEF LeaseStep

\* A re-run writes only reviews that it has read.
LEMMA RerunStepType ==
  ASSUME TypeOK, NEW p \in Rerun, RerunNext(p)
  PROVE  TypeOK'
  <1>1. /\ rerun' \in [Rerun -> Reruns]
        /\ reviews' \in SUBSET Review
        /\ UNCHANGED <<lease, versions, run, derivedVars, rent, request, compute>>
    <2> USE DEF RerunStep, TypeOK, Reruns, RerunPc
    <2>1. CASE RerunRead(p)
      BY <2>1, TypeOK DEF RerunRead
    <2>2. CASE RerunWrite(p)
      BY <2>2, TypeOK DEF RerunWrite
    <2>3. CASE LinkRead(p)
      BY <2>3, TypeOK DEF LinkRead
    <2>4. CASE LinkWrite(p)
      BY <2>4, TypeOK DEF LinkWrite
    <2>5. CASE RerunFails(p)
      BY <2>5, TypeOK DEF RerunFails
    <2> QED
      BY <2>1, <2>2, <2>3, <2>4, <2>5, RerunNext(p) DEF RerunNext
  <1> QED
    BY <1>1, TypeOK DEF TypeOK, derivedVars

\* A compute-lease call inserts rows of the version it has read.
LEMMA ComputeStepType ==
  ASSUME TypeOK, NEW c \in Compute, ComputeNext(c)
  PROVE  TypeOK'
  <1>1. /\ compute' \in [Compute -> Computes]
        /\ rent' \in SUBSET (Compute \X Nat)
        /\ UNCHANGED <<leaseVars, derivedVars, request, rerun>>
    <2> USE DEF ComputeStep, TypeOK, Computes, ComputePc
    <2>1. CASE Trigger(c)
      BY <2>1, TypeOK DEF Trigger
    <2>2. CASE ReadLease(c)
      <3>1. lease.version \in Nat
        BY TypeOK DEF Lease
      <3>2. \/ ComputeStep(c, [compute[c] EXCEPT !.pc = "rows", !.version = lease.version])
            \/ ComputeStep(c, [compute[c] EXCEPT !.pc = "ended"])
        BY <2>2 DEF ReadLease
      <3>3. rent' = rent
        BY <2>2 DEF ReadLease
      <3> QED
        BY <3>1, <3>2, <3>3, TypeOK
    <2>3. CASE ReadRows(c)
      BY <2>3, TypeOK DEF ReadRows
    <2>4. CASE DeleteRows(c)
      BY <2>4, TypeOK DEF DeleteRows
    <2>5. CASE InsertRows(c)
      <3>1. <<c, compute[c].version>> \in Compute \X Nat
        BY TypeOK
      <3>2. /\ [compute[c] EXCEPT !.pc = "reload"] \in Computes
            /\ [compute[c] EXCEPT !.pc = "reload", !.none = TRUE] \in Computes
        BY TypeOK
      <3> QED
        BY <2>5, <3>1, <3>2, TypeOK DEF InsertRows
    <2>6. CASE Reload(c)
      BY <2>6, TypeOK DEF Reload
    <2>7. CASE ComputeFails(c)
      BY <2>7, TypeOK DEF ComputeFails
    <2> QED
      BY <2>1, <2>2, <2>3, <2>4, <2>5, <2>6, <2>7, ComputeNext(c) DEF ComputeNext
  <1> QED
    BY <1>1, TypeOK DEF TypeOK, leaseVars, derivedVars

\* Moving a request on keeps it a request, whatever it found or waits for.
LEMMA RequestTypes ==
  ASSUME request \in [Request -> Requests], NEW r \in Request, NEW pc \in RequestPc
  PROVE  /\ \A s \in SUBSET Request :
               [request EXCEPT ![r].pc = pc, ![r].ruleSet = s] \in [Request -> Requests]
         /\ \A s \in SUBSET Compute :
               [request EXCEPT ![r].pc = pc, ![r].compute = s] \in [Request -> Requests]
  <1>1. request[r] \in Requests
    OBVIOUS
  <1>2. /\ \A s \in SUBSET Request : [request[r] EXCEPT !.pc = pc, !.ruleSet = s] \in Requests
        /\ \A s \in SUBSET Compute : [request[r] EXCEPT !.pc = pc, !.compute = s] \in Requests
    BY <1>1 DEF Requests
  <1> QED
    BY <1>2

\* The same for a bare change of place.
LEMMA GotoType ==
  ASSUME TypeOK, NEW r \in Request, NEW pc \in RequestPc, Goto(r, pc)
  PROVE  request' \in [Request -> Requests]
  <1>1. [pc |-> pc, ruleSet |-> {}, compute |-> {}] \in Requests
    BY DEF Requests
  <1> QED
    BY <1>1, TypeOK, Goto(r, pc) DEF Goto, TypeOK

\* The transaction adds a version and stores an answer.
LEMMA ApproveType ==
  ASSUME TypeOK, NEW r \in Request, Approve(r)
  PROVE  TypeOK'
  <1> DEFINE k == KeyOf[r]
  <1>1. k \in Key /\ ReviewOf[k] \in Review
    BY RequestAssumption
  <1>2. Append(versions, k) \in Seq(Key)
    BY <1>1, TypeOK DEF TypeOK
  <1>3. lease' \in Lease /\ run' \in [Key -> Answer]
    BY <1>1, TypeOK, Approve(r)
    DEF TypeOK, Approve, Lease, LeaseStatus, AbstractStatus, Answer
  <1>4. request' \in [Request -> Requests]
    <2>1. "count" \in RequestPc
      BY DEF RequestPc
    <2> QED
      BY <2>1, GotoType, TypeOK, Approve(r) DEF Approve
  <1> QED
    BY <1>1, <1>2, <1>3, <1>4, TypeOK, Approve(r) DEF TypeOK, Approve

\* Every step of a request keeps the types.
LEMMA RequestStepType ==
  ASSUME TypeOK, NEW r \in Request, RequestNext(r)
  PROVE  TypeOK'
  <1>1. CASE Approve(r)
    BY <1>1, ApproveType
  <1>2. CASE CallCompute(r)
    <2>1. PICK c \in Compute :
             /\ compute' = [compute EXCEPT ![c].pc = "lease"]
             /\ request' = [request EXCEPT ![r].pc = "wait", ![r].compute = {c}]
      BY <1>2 DEF CallCompute
    <2>2. request' \in [Request -> Requests]
      <3>1. request \in [Request -> Requests] /\ "wait" \in RequestPc /\ {c} \in SUBSET Compute
        BY TypeOK DEF TypeOK, RequestPc
      <3>2. [request EXCEPT ![r].pc = "wait", ![r].compute = {c}] \in [Request -> Requests]
        BY <3>1, RequestTypes
      <3> QED
        BY <2>1, <3>2
    <2>3. compute' \in [Compute -> Computes]
      BY <2>1, TypeOK DEF TypeOK, Computes, ComputePc
    <2> QED
      BY <1>2, <2>2, <2>3, TypeOK DEF CallCompute, TypeOK, leaseVars, derivedVars
  <1>3. CASE FindRuleSet(r)
    <2>1. PICK found \in SUBSET ruleSets :
             request' = [request EXCEPT ![r].pc = "save", ![r].ruleSet = found]
      BY <1>3 DEF FindRuleSet
    <2>2. request' \in [Request -> Requests]
      BY <2>1, RequestTypes, TypeOK DEF TypeOK, RequestPc
    <2> QED
      BY <1>3, <2>2, TypeOK DEF FindRuleSet, TypeOK, leaseVars, derivedVars
  <1>4. CASE AlreadyApproved(r)
    <2>1. request' \in [Request -> Requests]
      BY <1>4, GotoType, TypeOK DEF AlreadyApproved, Continue, RequestPc
    <2>2. run' \in [Key -> Answer]
      BY <1>4, TypeOK DEF AlreadyApproved, TypeOK, Answer, Lease
    <2> QED
      BY <1>4, <2>1, <2>2, TypeOK DEF AlreadyApproved, Continue, TypeOK, derivedVars
  <1>5. ASSUME TypeOK, UNCHANGED <<leaseVars, rent, compute, rerun>>,
               \E pc \in RequestPc : Goto(r, pc),
               dates' \in SUBSET Review, obligations' \in SUBSET Review,
               ruleSets' \in SUBSET Request, ruleHome' \in SUBSET ruleSets'
        PROVE  TypeOK'
    <2>1. request' \in [Request -> Requests]
      BY <1>5, GotoType
    <2> QED
      BY <1>5, <2>1, TypeOK DEF TypeOK, leaseVars
  <1>6. CASE Begin(r) \/ Replay(r) \/ RequestDies(r)
    BY <1>5, <1>6, TypeOK
    DEF Begin, Replay, Continue, RequestDies, Goto, RequestPc, derivedVars, TypeOK
  <1>7. CASE CountRules(r) \/ PublicationFails(r) \/ ComputeAnswers(r) \/ CallFails(r)
    BY <1>5, <1>7, TypeOK
    DEF CountRules, PublicationFails, ComputeAnswers, CallFails, PostCommit, RequestPc, derivedVars, TypeOK
  <1>8. CASE Backfill(r) \/ Materialize(r)
    BY <1>5, <1>8, TypeOK, RequestAssumption
    DEF Backfill, Materialize, PostCommit, RequestPc, TypeOK
  <1>9. CASE SaveRules(r)
    BY <1>5, <1>9, TypeOK DEF SaveRules, PostCommit, RequestPc, TypeOK, Requests
  <1> QED
    BY <1>1, <1>2, <1>3, <1>4, <1>6, <1>7, <1>8, <1>9, RequestNext(r) DEF RequestNext

\* Every step of anybody does.
LEMMA TypeStep == TypeOK /\ [Next]_vars => TypeOK'
  <1>1. ASSUME TypeOK, UNCHANGED vars PROVE TypeOK'
    BY <1>1 DEF TypeOK, vars, leaseVars, derivedVars
  <1> QED
    BY <1>1, LeaseStepType, RerunStepType, RequestStepType, ComputeStepType DEF Next

(* Rows, requests and calls stay well-formed; rules live in a set that      *)
(* exists.                                                                  *)
THEOREM TypeCorrect == Spec => []TypeOK
  BY TypeInit, TypeStep, PTL DEF Spec

-----------------------------------------------------------------------------
(* Who writes what *)

\* Only the transaction writes history and answers; the lease's version and
\* stamp change with it.
Recorded == <<versions, run, lease.version, lease.stamped>>

\* The other writers of the lease touch neither history nor answers.
LEMMA LeaseStepFrame ==
  ASSUME TypeOK, LeaseStep
  PROVE  UNCHANGED Recorded /\ UNCHANGED <<derivedVars, rent, request, compute>>
  <1> lease \in Lease
    BY TypeOK DEF TypeOK
  <1> QED
    BY LeaseStep DEF LeaseStep, SaveDraft, Reject, SendBack, Supersede, WriteLease, Recorded, Lease

\* A re-run touches the reviews alone.
LEMMA RerunFrame ==
  ASSUME NEW p \in Rerun, RerunNext(p)
  PROVE  UNCHANGED <<lease, versions, run, derivedVars, rent, request, compute>>
  BY RerunNext(p)
  DEF RerunNext, RerunRead, RerunWrite, LinkRead, LinkWrite, RerunFails, RerunStep

\* A compute-lease call only reads the lease.
LEMMA ComputeFrame ==
  ASSUME NEW c \in Compute, ComputeNext(c)
  PROVE  UNCHANGED <<lease, versions, run, derivedVars, request>>
  <1>1. UNCHANGED <<leaseVars, derivedVars, request>>
    BY ComputeNext(c)
    DEF ComputeNext, Trigger, ReadLease, ReadRows, DeleteRows, InsertRows, Reload,
        ComputeFails, ComputeStep
  <1> QED
    BY <1>1 DEF leaseVars

\* Of a request's steps only the transaction writes the lease.
LEMMA RequestFrame ==
  ASSUME NEW r \in Request, RequestNext(r), ~AlreadyApproved(r), ~Approve(r)
  PROVE  UNCHANGED <<lease, versions, run>>
  <1>1. UNCHANGED leaseVars
    BY RequestNext(r)
    DEF RequestNext, Begin, Replay, Backfill, CountRules, FindRuleSet, SaveRules,
        PublicationFails, CallCompute, ComputeAnswers, CallFails, Materialize,
        RequestDies, PostCommit
  <1> QED
    BY <1>1 DEF leaseVars

\* Nobody but the transaction writes history.
LEMMA HistoryWriters ==
  ASSUME TypeOK, [Next]_vars
  PROVE  UNCHANGED Recorded \/ \E r \in Request : AlreadyApproved(r) \/ Approve(r)
  <1>1. CASE UNCHANGED vars
    BY <1>1 DEF vars, leaseVars, Recorded
  <1>2. ASSUME UNCHANGED <<lease, versions, run>> PROVE UNCHANGED Recorded
    BY <1>2 DEF Recorded
  <1> QED
    BY <1>1, <1>2, LeaseStepFrame, RerunFrame, ComputeFrame, RequestFrame DEF Next

-----------------------------------------------------------------------------
(* Answers and history *)

\* The key of a version has been answered.
LEMMA VersionAnswered ==
  ASSUME AnswerMatchesHistory, NEW i \in 1..Len(versions), Len(versions) \in Nat
  PROVE  Answered(versions[i])
  <1>1. run[versions[i]] = [version |-> i, already |-> FALSE] /\ i # 0
    BY AnswerMatchesHistory DEF AnswerMatchesHistory
  <1>2. run[versions[i]].version # NoAnswer.version
    BY <1>1 DEF NoAnswer
  <1> QED
    BY <1>2 DEF Answered

\* A key that has no answer yet made no version, and a version has an answer.
LEMMA HistoryStep ==
  ASSUME TypeOK, AnswerMatchesHistory, ColumnsAgree, [Next]_vars
  PROVE  AnswerMatchesHistory'
  <1>1. CASE UNCHANGED Recorded
    BY <1>1, AnswerMatchesHistory DEF AnswerMatchesHistory, Recorded, Answered
  <1>2. ASSUME NEW r \in Request, AlreadyApproved(r) PROVE AnswerMatchesHistory'
    <2> DEFINE k == KeyOf[r]
    <2>1. /\ k \in Key /\ ~Answered(k)
          /\ run' = [run EXCEPT ![k] = [version |-> lease.version, already |-> TRUE]]
          /\ UNCHANGED <<lease, versions>>
      BY <1>2, RequestAssumption DEF AlreadyApproved
    <2>2. lease.version \in 1..Len(versions)
      <3>1. versions # <<>> /\ versions \in Seq(Key)
        BY <1>2, ColumnsAgree, TypeOK DEF ColumnsAgree, AlreadyApproved, IsApproved, TypeOK
      <3>2. Len(versions) \in Nat /\ Len(versions) # 0
        BY <3>1
      <3> QED
        BY <3>2, AnswerMatchesHistory DEF AnswerMatchesHistory
    <2>3. \A i \in 1..Len(versions) : versions[i] # k
      BY <2>1, VersionAnswered, AnswerMatchesHistory, TypeOK DEF TypeOK
    <2>4. run \in [Key -> Answer] /\ \A i \in 1..Len(versions) : versions[i] \in Key
      BY TypeOK DEF TypeOK
    <2>5. \A j \in Key : j # k => run'[j] = run[j]
      BY <2>1, <2>4
    <2>6. run'[k] = [version |-> lease.version, already |-> TRUE]
      BY <2>1, <2>4
    <2> QED
      BY <2>1, <2>2, <2>3, <2>4, <2>5, <2>6, AnswerMatchesHistory DEF AnswerMatchesHistory, Answered
  <1>3. ASSUME NEW r \in Request, Approve(r) PROVE AnswerMatchesHistory'
    <2> DEFINE k == KeyOf[r]
               n == Len(versions) + 1
    <2>1. /\ k \in Key /\ ~Answered(k)
          /\ run' = [run EXCEPT ![k] = [version |-> lease.version + 1, already |-> FALSE]]
          /\ lease'.version = lease.version + 1
          /\ versions' = Append(versions, k)
      BY <1>3, RequestAssumption DEF Approve
    <2>2. /\ versions \in Seq(Key) /\ Len(versions) \in Nat
          /\ run \in [Key -> Answer]
          /\ \A i \in 1..Len(versions) : versions[i] \in Key
      BY TypeOK DEF TypeOK
    <2>3. lease.version + 1 = n
      BY AnswerMatchesHistory DEF AnswerMatchesHistory
    <2>4. /\ Len(versions') = n
          /\ versions'[n] = k
          /\ \A i \in 1..Len(versions) : versions'[i] = versions[i]
      BY <2>1, <2>2
    <2>5. \A i \in 1..Len(versions) : versions[i] # k
      BY <2>1, VersionAnswered, AnswerMatchesHistory, TypeOK DEF TypeOK
    <2>6. \A j \in Key : j # k => run'[j] = run[j]
      BY <2>1, <2>2
    <2>7. run'[k] = [version |-> n, already |-> FALSE]
      BY <2>1, <2>2, <2>3
    <2>8. \A i \in 1..n : run'[versions'[i]] = [version |-> i, already |-> FALSE]
      <3> TAKE i \in 1..n
      <3>1. CASE i = n
        BY <3>1, <2>4, <2>7
      <3>2. CASE i \in 1..Len(versions)
        BY <3>2, <2>2, <2>4, <2>5, <2>6, AnswerMatchesHistory DEF AnswerMatchesHistory
      <3> QED
        BY <3>1, <3>2, <2>2
    <2>9. ASSUME NEW j \in Key, run'[j] # NoAnswer
          PROVE  run'[j].version \in 1..n /\ (run'[j].already \/ versions'[run'[j].version] = j)
      <3>1. CASE j = k
        BY <3>1, <2>2, <2>4, <2>7
      <3>2. CASE j # k
        <4>1. run'[j] = run[j] /\ run[j] # NoAnswer
          BY <3>2, <2>6, <2>9
        <4>2. /\ run[j].version \in 1..Len(versions)
              /\ run[j].already \/ versions[run[j].version] = j
          BY <4>1, AnswerMatchesHistory DEF AnswerMatchesHistory, Answered
        <4> QED
          BY <4>1, <4>2, <2>2, <2>4
      <3> QED
        BY <3>1, <3>2
    <2> QED
      BY <2>1, <2>3, <2>4, <2>8, <2>9 DEF AnswerMatchesHistory, Answered
  <1> QED
    BY <1>1, <1>2, <1>3, HistoryWriters

\* A stored answer is replayed, never written again.
LEMMA AnswerStep ==
  ASSUME TypeOK, [Next]_vars
  PROVE  \A k \in Key : Answered(k) => run'[k] = run[k]
  <1>1. run \in [Key -> Answer]
    BY TypeOK DEF TypeOK
  <1>2. CASE UNCHANGED Recorded
    BY <1>2 DEF Recorded
  <1>3. ASSUME NEW r \in Request, AlreadyApproved(r) \/ Approve(r)
        PROVE  \A k \in Key : Answered(k) => run'[k] = run[k]
    BY <1>1, <1>3 DEF AlreadyApproved, Approve
  <1> QED
    BY <1>2, <1>3, HistoryWriters

-----------------------------------------------------------------------------
(* The two status columns *)

\* Who writes one column writes the other, or the lease is not approved.
LEMMA ColumnsStep ==
  ASSUME TypeOK, ColumnsAgree, [Next]_vars
  PROVE  ColumnsAgree'
  <1>1. lease \in Lease
    BY TypeOK DEF TypeOK
  <1>2. ASSUME UNCHANGED <<lease, versions>> PROVE ColumnsAgree'
    BY <1>2, ColumnsAgree DEF ColumnsAgree
  <1>3. CASE LeaseStep
    <2>1. UNCHANGED Recorded
      BY <1>3, LeaseStepFrame
    <2>2. /\ lease'.status = "approved" <=> lease'.abstract = "approved"
          /\ lease'.status = "approved" => lease.status = "approved"
      BY <1>1, <1>3, ColumnsAgree
      DEF LeaseStep, SaveDraft, Reject, SendBack, Supersede, WriteLease, Locked, ColumnsAgree, Lease
    <2> QED
      BY <2>1, <2>2, ColumnsAgree DEF ColumnsAgree, Recorded
  <1>4. ASSUME NEW r \in Request, Approve(r) PROVE ColumnsAgree'
    <2>1. versions' # <<>>
      BY <1>4, TypeOK, RequestAssumption DEF Approve, TypeOK
    <2> QED
      BY <1>4, <2>1 DEF Approve, ColumnsAgree
  <1>5. ASSUME NEW r \in Request, AlreadyApproved(r) PROVE ColumnsAgree'
    BY <1>2, <1>5 DEF AlreadyApproved
  <1>6. CASE UNCHANGED vars
    BY <1>2, <1>6 DEF vars, leaseVars
  <1> QED
    BY <1>2, <1>3, <1>4, <1>5, <1>6, RerunFrame, ComputeFrame, RequestFrame DEF Next

\* Every procedure but supersession looks for the approval first.
LEMMA LockStep ==
  ASSUME TypeOK, [Next]_vars, IsApproved
  PROVE  lease' = lease \/ lease'.status = "superseded"
  <1>1. lease \in Lease
    BY TypeOK DEF TypeOK
  <1>2. CASE LeaseStep
    BY <1>1, <1>2, IsApproved
    DEF LeaseStep, SaveDraft, Reject, SendBack, Supersede, WriteLease, Locked, IsApproved, Lease
  <1>3. ASSUME NEW r \in Request, AlreadyApproved(r) \/ Approve(r) PROVE lease' = lease
    BY <1>3, IsApproved DEF AlreadyApproved, Approve
  <1>4. CASE UNCHANGED vars
    BY <1>4 DEF vars, leaseVars
  <1> QED
    BY <1>2, <1>3, <1>4, RerunFrame, ComputeFrame, RequestFrame DEF Next

-----------------------------------------------------------------------------
(* The rent schedule *)

\* A call that is past reading the lease holds a version that was approved.
HeldVersions ==
    \A c \in Compute : compute[c].pc \in {"rows", "delete", "insert"}
                         => compute[c].version \in 1..Len(versions)

\* The history only grows.
LEMMA VersionsGrow ==
  ASSUME TypeOK, [Next]_vars
  PROVE  1..Len(versions) \subseteq 1..Len(versions')
  <1>1. versions \in Seq(Key) /\ Len(versions) \in Nat
    BY TypeOK DEF TypeOK
  <1>2. CASE UNCHANGED Recorded
    BY <1>2 DEF Recorded
  <1>3. ASSUME NEW r \in Request, AlreadyApproved(r) PROVE versions' = versions
    BY <1>3 DEF AlreadyApproved
  <1>4. ASSUME NEW r \in Request, Approve(r) PROVE Len(versions') = Len(versions) + 1
    BY <1>1, <1>4, RequestAssumption DEF Approve
  <1> QED
    BY <1>1, <1>2, <1>3, <1>4, HistoryWriters

\* A request touches the calls only to start one, and the schedule never.
LEMMA RequestCompute ==
  ASSUME TypeOK, NEW r \in Request, RequestNext(r)
  PROVE  /\ rent' = rent
         /\ \A c \in Compute : /\ compute'[c].rows = compute[c].rows
                               /\ compute'[c].none = compute[c].none
                               /\ compute'[c] = compute[c] \/ compute'[c].pc = "lease"
                               /\ compute[c].pc # "idle" => compute'[c] = compute[c]
  <1>1. compute \in [Compute -> Computes]
    BY TypeOK DEF TypeOK
  <1>2. CASE CallCompute(r)
    BY <1>1, <1>2 DEF CallCompute, Computes
  <1>3. CASE ~CallCompute(r)
    BY <1>3, RequestNext(r)
    DEF RequestNext, Begin, Replay, AlreadyApproved, Approve, Continue, Backfill, CountRules,
        FindRuleSet, SaveRules, PublicationFails, ComputeAnswers, CallFails, Materialize,
        RequestDies, PostCommit
  <1> QED
    BY <1>2, <1>3

\* What is read of an approved lease is one of its versions, and it stays one.
LEMMA RentStep ==
  ASSUME TypeOK, AnswerMatchesHistory, ColumnsAgree, HeldVersions, RentAuthoritative, [Next]_vars
  PROVE  HeldVersions' /\ RentAuthoritative'
  <1>1. /\ compute \in [Compute -> Computes]
        /\ versions \in Seq(Key) /\ Len(versions) \in Nat
    BY TypeOK DEF TypeOK
  <1>2. 1..Len(versions) \subseteq 1..Len(versions')
    BY VersionsGrow
  <1>3. ASSUME UNCHANGED <<rent, compute>> PROVE HeldVersions' /\ RentAuthoritative'
    BY <1>2, <1>3, HeldVersions, RentAuthoritative DEF HeldVersions, RentAuthoritative
  <1>4. ASSUME NEW r \in Request, RequestNext(r) PROVE HeldVersions' /\ RentAuthoritative'
    BY <1>2, <1>4, RequestCompute, HeldVersions, RentAuthoritative DEF HeldVersions, RentAuthoritative
  <1>5. ASSUME NEW c \in Compute, ComputeNext(c) PROVE HeldVersions' /\ RentAuthoritative'
    <2>1. UNCHANGED versions
      BY <1>5, ComputeFrame
    <2>2. \A d \in Compute : d # c => compute'[d] = compute[d]
      BY <1>1, <1>5
      DEF ComputeNext, Trigger, ReadLease, ReadRows, DeleteRows, InsertRows, Reload,
          ComputeFails, ComputeStep
    <2>3. HeldVersions'
      <3>1. CASE ReadLease(c)
        <4>1. HasApprovalBoundary => lease.version \in 1..Len(versions)
          <5>1. versions # <<>> => Len(versions) # 0
            BY <1>1
          <5> QED
            BY <1>1, <5>1, ColumnsAgree, AnswerMatchesHistory
            DEF HasApprovalBoundary, ColumnsAgree, AnswerMatchesHistory
        <4> QED
          BY <1>1, <2>1, <2>2, <3>1, <4>1, HeldVersions
          DEF HeldVersions, ReadLease, ComputeStep, Computes
      <3>2. CASE ~ReadLease(c)
        <4>1. compute'[c].pc \in {"rows", "delete", "insert"}
                => /\ compute'[c].version = compute[c].version
                   /\ compute[c].pc \in {"rows", "delete", "insert"}
          <5>1. CASE ReadRows(c) \/ DeleteRows(c)
            BY <1>1, <5>1 DEF ReadRows, DeleteRows, ComputeStep, Computes
          <5>2. CASE Trigger(c) \/ InsertRows(c) \/ Reload(c) \/ ComputeFails(c)
            <6>1. compute'[c].pc \in {"lease", "reload", "ended", "halfway"}
              BY <1>1, <5>2 DEF Trigger, InsertRows, Reload, ComputeFails, ComputeStep, Computes
            <6> QED
              BY <6>1
          <5> QED
            BY <1>5, <3>2, <5>1, <5>2 DEF ComputeNext
        <4> QED
          BY <2>1, <2>2, <4>1, HeldVersions DEF HeldVersions
      <3> QED
        BY <3>1, <3>2
    <2>4. RentAuthoritative'
      <3>1. CASE InsertRows(c)
        BY <2>1, <3>1, HeldVersions, RentAuthoritative DEF HeldVersions, RentAuthoritative, InsertRows
      <3>2. CASE ~InsertRows(c)
        <4>1. rent' \subseteq rent
          BY <1>5, <3>2
          DEF ComputeNext, Trigger, ReadLease, ReadRows, DeleteRows, Reload, ComputeFails
        <4> QED
          BY <2>1, <4>1, RentAuthoritative DEF RentAuthoritative
      <3> QED
        BY <3>1, <3>2
    <2> QED
      BY <2>3, <2>4
  <1>6. CASE UNCHANGED vars
    BY <1>3, <1>6 DEF vars
  <1> QED
    BY <1>3, <1>4, <1>5, <1>6, LeaseStepFrame, RerunFrame DEF Next

\* Only a call that has ended has answered.
AnsweredLast == \A c \in Compute : compute[c].rows => compute[c].pc = "ended"

\* A deletion opens the window, and a call that leaves it has inserted rows,
\* stays where it stopped, or has none to answer with; its answer is still to
\* come and tells.
LEMMA ScheduleStep ==
  ASSUME TypeOK, AnsweredLast, ScheduleKept, [Next]_vars
  PROVE  AnsweredLast' /\ ScheduleKept'
  <1>1. compute \in [Compute -> Computes]
    BY TypeOK DEF TypeOK
  <1>2. ASSUME UNCHANGED <<rent, compute>> PROVE AnsweredLast' /\ ScheduleKept'
    BY <1>2, AnsweredLast, ScheduleKept DEF AnsweredLast, ScheduleKept
  <1>3. ASSUME NEW r \in Request, RequestNext(r) PROVE AnsweredLast' /\ ScheduleKept'
    <2>1. \A c \in Compute :
             /\ compute'[c].rows = compute[c].rows
             /\ compute'[c].none = compute[c].none
             /\ compute[c].pc # "idle" => compute'[c].pc = compute[c].pc
      BY <1>3, RequestCompute
    <2>2. rent' = rent
      BY <1>3, RequestCompute
    <2>3. AnsweredLast'
      <3> SUFFICES ASSUME NEW c \in Compute, compute'[c].rows PROVE compute'[c].pc = "ended"
        BY DEF AnsweredLast
      <3>1. compute[c].pc = "ended"
        BY <2>1, AnsweredLast DEF AnsweredLast
      <3> QED
        BY <2>1, <3>1
    <2>4. \A c \in Compute :
             compute[c].pc \in {"insert", "halfway"} => compute'[c].pc = compute[c].pc
      BY <2>1
    <2> QED
      BY <2>1, <2>2, <2>3, <2>4, ScheduleKept DEF ScheduleKept
  <1>4. ASSUME NEW c \in Compute, ComputeNext(c) PROVE AnsweredLast' /\ ScheduleKept'
    <2>1. \A d \in Compute : d # c => compute'[d] = compute[d]
      BY <1>1, <1>4
      DEF ComputeNext, Trigger, ReadLease, ReadRows, DeleteRows, InsertRows, Reload,
          ComputeFails, ComputeStep
    <2>2. CASE DeleteRows(c)
      <3>1. compute'[c].pc = "insert" /\ ~compute'[c].rows
        BY <1>1, <2>2, AnsweredLast DEF AnsweredLast, DeleteRows, ComputeStep, Computes
      <3> QED
        BY <2>1, <3>1, AnsweredLast DEF AnsweredLast, ScheduleKept
    <2>3. CASE InsertRows(c)
      <3>1. compute[c] \in Computes /\ compute[c].pc = "insert" /\ ~compute[c].rows
        BY <1>1, <2>3, AnsweredLast DEF AnsweredLast, InsertRows
      <3>2. ~compute'[c].rows
        BY <1>1, <2>3, <3>1 DEF InsertRows, ComputeStep, Computes
      <3>3. rent' # {} \/ compute'[c].none = TRUE
        BY <1>1, <2>3 DEF InsertRows, ComputeStep, Computes
      <3> QED
        BY <2>1, <3>2, <3>3, AnsweredLast DEF AnsweredLast, ScheduleKept
    <2>4. CASE Reload(c)
      <3>1. /\ compute'[c].pc = "ended" /\ compute[c].pc = "reload"
            /\ compute'[c].none = compute[c].none
            /\ compute'[c].rows <=> rent # {}
            /\ rent' = rent
        BY <1>1, <2>4 DEF Reload, ComputeStep, Computes
      <3>2. AnsweredLast'
        BY <2>1, <3>1, AnsweredLast DEF AnsweredLast
      <3> QED
        BY <2>1, <3>1, <3>2, ScheduleKept DEF ScheduleKept
    <2>5. CASE Trigger(c) \/ ReadLease(c) \/ ReadRows(c) \/ ComputeFails(c)
      <3>1. /\ rent' = rent
            /\ compute'[c].rows = compute[c].rows
            /\ compute'[c].none = compute[c].none
            /\ compute[c].pc \in {"insert", "halfway"} => compute'[c].pc = "halfway"
            /\ compute[c].pc # "ended"
        BY <1>1, <2>5 DEF Trigger, ReadLease, ReadRows, ComputeFails, ComputeStep, Computes
      <3>2. AnsweredLast'
        BY <2>1, <3>1, AnsweredLast DEF AnsweredLast
      <3> QED
        BY <2>1, <3>1, <3>2, ScheduleKept DEF ScheduleKept
    <2> QED
      BY <1>4, <2>2, <2>3, <2>4, <2>5 DEF ComputeNext
  <1>5. CASE UNCHANGED vars
    BY <1>2, <1>5 DEF vars
  <1> QED
    BY <1>2, <1>3, <1>4, <1>5, LeaseStepFrame, RerunFrame DEF Next

-----------------------------------------------------------------------------
(* What follows the commit *)

\* A request that is past the transaction has an answer, and works with a rule
\* set that exists.
RequestsAnswered ==
    \A r \in Request :
        /\ request[r].pc \notin {"idle", "approve", "ended"} => Answered(KeyOf[r])
        /\ request[r].ruleSet \subseteq ruleSets

\* What one step of a request derives, it derives from the answer of its key.
LEMMA RequestDerives ==
  ASSUME TypeOK, RequestsAnswered, NEW r \in Request, RequestNext(r)
  PROVE  /\ \A q \in Request : q # r => request'[q] = request[q]
         /\ request'[r].pc \notin {"idle", "approve", "ended"} => Answered(KeyOf[r])'
         /\ request'[r].ruleSet \subseteq ruleSets'
         /\ dates' \cup obligations' \subseteq
               dates \cup obligations \cup {v \in {ReviewOf[KeyOf[r]]} : Answered(KeyOf[r])'}
         /\ ruleSets \subseteq ruleSets'
         /\ ruleSets' \subseteq ruleSets \cup {q \in {r} : Answered(KeyOf[r])'}
  <1> DEFINE k == KeyOf[r]
             Past(pc) == pc \notin {"idle", "approve", "ended"}
  <1>1. /\ request \in [Request -> Requests]
        /\ run \in [Key -> Answer]
        /\ k \in Key
        /\ Past(request[r].pc) => Answered(k)
        /\ request[r].ruleSet \subseteq ruleSets
    BY TypeOK, RequestAssumption, RequestsAnswered DEF TypeOK, RequestsAnswered
  <1>2. CASE Approve(r) \/ AlreadyApproved(r)
    <2>1. /\ Answered(k)'
          /\ UNCHANGED <<obligations, ruleSets>>
          /\ dates' \subseteq dates \cup {ReviewOf[k]}
      <3>1. CASE Approve(r)
        <4>1. run'[k] = [version |-> lease.version + 1, already |-> FALSE]
          BY <1>1, <3>1 DEF Approve
        <4>2. lease.version \in Nat
          BY TypeOK DEF TypeOK, Lease
        <4>3. run'[k].version # NoAnswer.version
          BY <4>1, <4>2 DEF NoAnswer
        <4> QED
          BY <3>1, <4>3 DEF Approve, Answered
      <3>2. CASE AlreadyApproved(r)
        <4>1. run'[k] = [version |-> lease.version, already |-> TRUE]
          BY <1>1, <3>2 DEF AlreadyApproved
        <4>2. run'[k].already # NoAnswer.already
          BY <4>1 DEF NoAnswer
        <4> QED
          BY <3>2, <4>2 DEF AlreadyApproved, Continue, derivedVars, Answered
      <3> QED
        BY <1>2, <3>1, <3>2
    <2>2. \E pc \in RequestPc : Goto(r, pc)
      BY <1>2 DEF Approve, AlreadyApproved, Continue, RequestPc
    <2> QED
      BY <1>1, <2>1, <2>2 DEF Goto, Requests
  <1>3. CASE ~(Approve(r) \/ AlreadyApproved(r))
    <2>1. run' = run
      BY <1>3, RequestFrame
    <2>2. CASE FindRuleSet(r)
      <3>1. PICK found \in SUBSET ruleSets :
               request' = [request EXCEPT ![r].pc = "save", ![r].ruleSet = found]
        BY <2>2 DEF FindRuleSet
      <3> QED
        BY <1>1, <2>1, <2>2, <3>1 DEF FindRuleSet, derivedVars, Requests, Answered
    <2>3. CASE CallCompute(r)
      <3>1. PICK c \in Compute :
               request' = [request EXCEPT ![r].pc = "wait", ![r].compute = {c}]
        BY <2>3 DEF CallCompute
      <3> QED
        BY <1>1, <2>1, <2>3, <3>1 DEF CallCompute, derivedVars, Requests, Answered
    <2>4. ASSUME NEW pc, Goto(r, pc), Past(pc) => Answered(k)
          PROVE  /\ \A q \in Request : q # r => request'[q] = request[q]
                 /\ Past(request'[r].pc) => Answered(k)'
                 /\ request'[r].ruleSet = {}
      BY <1>1, <2>1, <2>4 DEF Goto, Requests, Answered
    <2>5. CASE Begin(r) \/ RequestDies(r)
      <3>1. \E pc \in {"approve", "ended"} : Goto(r, pc)
        BY <2>5 DEF Begin, RequestDies
      <3> QED
        BY <1>1, <2>4, <2>5, <3>1 DEF Begin, RequestDies, derivedVars
    <2>6. CASE Replay(r)
      <3>1. \E pc : Goto(r, pc)
        BY <2>6 DEF Replay, Continue
      <3> QED
        BY <1>1, <2>4, <2>6, <3>1 DEF Replay, Continue, derivedVars
    <2>7. ASSUME NEW from \in {"backfill", "count", "find", "save", "rent", "wait", "obligations"},
                 NEW to, PostCommit(r, from, to)
          PROVE  /\ Answered(k) /\ Answered(k)'
                 /\ \A q \in Request : q # r => request'[q] = request[q]
                 /\ request'[r].ruleSet = {}
      BY <1>1, <2>1, <2>4, <2>7 DEF PostCommit, Answered
    <2>8. CASE Backfill(r) \/ Materialize(r)
      BY <1>1, <2>7, <2>8 DEF Backfill, Materialize
    <2>9. CASE CountRules(r) \/ PublicationFails(r) \/ ComputeAnswers(r) \/ CallFails(r)
      BY <1>1, <2>7, <2>9 DEF CountRules, PublicationFails, ComputeAnswers, CallFails, derivedVars
    <2>10. CASE SaveRules(r)
      BY <1>1, <2>7, <2>10 DEF SaveRules
    <2> QED
      BY <1>3, <2>2, <2>3, <2>5, <2>6, <2>8, <2>9, <2>10, RequestNext(r) DEF RequestNext
  <1> QED
    BY <1>2, <1>3

\* Answers are kept, so what was derived from one stays derived from one.
LEMMA DerivedStep ==
  ASSUME TypeOK, RequestsAnswered, DerivedFromAnswers, [Next]_vars
  PROVE  RequestsAnswered' /\ DerivedFromAnswers'
  <1>1. \A k \in Key : Answered(k) => Answered(k)'
    BY AnswerStep DEF Answered
  <1>2. KeyOf \in [Request -> Key]
    BY RequestAssumption
  <1>3. ASSUME UNCHANGED <<derivedVars, request>> PROVE RequestsAnswered' /\ DerivedFromAnswers'
    BY <1>1, <1>2, <1>3, RequestsAnswered, DerivedFromAnswers, TypeOK
    DEF RequestsAnswered, DerivedFromAnswers, derivedVars, TypeOK
  <1>4. ASSUME NEW r \in Request, RequestNext(r) PROVE RequestsAnswered' /\ DerivedFromAnswers'
    <2>1. RequestsAnswered'
      BY <1>1, <1>2, <1>4, RequestDerives, RequestsAnswered DEF RequestsAnswered
    <2>2. ASSUME NEW v \in dates' \cup obligations'
          PROVE  \E k \in Key : ReviewOf[k] = v /\ Answered(k)'
      <3>1. v \in dates \cup obligations \/ (v = ReviewOf[KeyOf[r]] /\ Answered(KeyOf[r])')
        BY <1>4, <2>2, RequestDerives
      <3> QED
        BY <1>1, <1>2, <3>1, DerivedFromAnswers DEF DerivedFromAnswers
    <2>3. \A q \in ruleSets' : Answered(KeyOf[q])'
      <3>1. ruleSets \subseteq Request
        BY TypeOK DEF TypeOK
      <3> QED
        BY <1>1, <1>2, <1>4, <3>1, RequestDerives, DerivedFromAnswers DEF DerivedFromAnswers
    <2> QED
      BY <2>1, <2>2, <2>3 DEF DerivedFromAnswers
  <1>5. CASE UNCHANGED vars
    BY <1>3, <1>5 DEF vars
  <1> QED
    BY <1>3, <1>4, <1>5, LeaseStepFrame, RerunFrame, ComputeFrame DEF Next

-----------------------------------------------------------------------------
(* The invariant of the approval                                           *)
ApprovalInv ==
    /\ TypeOK
    /\ AnswerMatchesHistory
    /\ ColumnsAgree
    /\ HeldVersions
    /\ RentAuthoritative
    /\ AnsweredLast
    /\ ScheduleKept
    /\ RequestsAnswered
    /\ DerivedFromAnswers

\* A new draft has no version, no answer, no row and nothing derived.
LEMMA ApprovalInit == Init => ApprovalInv
  <1> SUFFICES ASSUME Init PROVE ApprovalInv
    OBVIOUS
  <1>1. TypeOK
    BY TypeInit
  <1>2. AnswerMatchesHistory /\ ColumnsAgree
    BY DEF Init, AnswerMatchesHistory, ColumnsAgree, Answered
  <1>3. HeldVersions /\ RentAuthoritative /\ AnsweredLast /\ ScheduleKept
    BY DEF Init, HeldVersions, RentAuthoritative, AnsweredLast, ScheduleKept
  <1>4. RequestsAnswered /\ DerivedFromAnswers
    BY DEF Init, RequestsAnswered, DerivedFromAnswers
  <1> QED
    BY <1>1, <1>2, <1>3, <1>4 DEF ApprovalInv

\* History, columns and schedule hold each other up; the rest follows them.
LEMMA ApprovalStep == ApprovalInv /\ [Next]_vars => ApprovalInv'
  BY TypeStep, HistoryStep, ColumnsStep, RentStep, ScheduleStep, DerivedStep DEF ApprovalInv

\* The invariant of the approval, with what makes it inductive.
THEOREM ApprovalInvHolds == Spec => []ApprovalInv
  BY ApprovalInit, ApprovalStep, PTL DEF Spec

\* Whatever is retried, raced, failed or superseded, no key makes two versions
\* and every answer names a version of the history.
THEOREM OneVersionPerKey == Spec => []AnswerMatchesHistory
  <1>1. ApprovalInv => AnswerMatchesHistory
    BY DEF ApprovalInv
  <1> QED
    BY <1>1, ApprovalInvHolds, PTL

\* The two columns that different procedures look at agree about approval.
THEOREM ColumnsAlwaysAgree == Spec => []ColumnsAgree
  <1>1. ApprovalInv => ColumnsAgree
    BY DEF ApprovalInv
  <1> QED
    BY <1>1, ApprovalInvHolds, PTL

\* compute-lease publishes rent rows of approved versions only, though nothing
\* keeps the lease as it was read.
THEOREM RentIsAuthoritative == Spec => []RentAuthoritative
  <1>1. ApprovalInv => RentAuthoritative
    BY DEF ApprovalInv
  <1> QED
    BY <1>1, ApprovalInvHolds, PTL

\* A reported schedule is there, or a deletion is under way or failed, or a
\* call has found that the lease yields no rows and does not claim any.
THEOREM ScheduleIsKept == Spec => []ScheduleKept
  <1>1. ApprovalInv => ScheduleKept
    BY DEF ApprovalInv
  <1> QED
    BY <1>1, ApprovalInvHolds, PTL

\* Dates, obligations and rule sets never run ahead of the transaction.
THEOREM DerivedAfterCommit == Spec => []DerivedFromAnswers
  <1>1. ApprovalInv => DerivedFromAnswers
    BY DEF ApprovalInv
  <1> QED
    BY <1>1, ApprovalInvHolds, PTL

\* The stored answer of a key never changes.
THEOREM AnswersAreKept == Spec => AnswerKept
  <1>1. TypeOK /\ [Next]_vars => [\A k \in Key : Answered(k) => run'[k] = run[k]]_vars
    BY AnswerStep
  <1> QED
    BY <1>1, TypeCorrect, PTL DEF Spec, AnswerKept

\* Only supersession takes a lease out of approval.
THEOREM Locking == Spec => ApprovedIsLocked
  <1>1. TypeOK /\ [Next]_vars
          => [IsApproved => lease' = lease \/ lease'.status = "superseded"]_vars
    BY LockStep
  <1> QED
    BY <1>1, TypeCorrect, PTL DEF Spec, ApprovedIsLocked

=============================================================================
