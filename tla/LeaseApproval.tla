--------------------------- MODULE LeaseApproval ---------------------------
(***************************************************************************)
(* The approval of one lease abstract: the approve_lease_workflow          *)
(* transaction behind its idempotency key, what approve-lease-workflow     *)
(* does after the commit (critical dates, expense rules, rent schedule,    *)
(* obligations), the compute-lease invocations it and the client start,    *)
(* and everybody else who writes the lease: the reviewer's drafts,         *)
(* rejection, send-back, supersession, and review-approve, which rebuilds  *)
(* the draft from a fresh extraction.                                      *)
(*                                                                         *)
(* A procedure locks the rows it uses and is one action; an Edge Function  *)
(* is one action per statement.                                            *)
(***************************************************************************)
EXTENDS Naturals, Sequences, FiniteSets

CONSTANTS
    Key,       \* idempotency keys
    Request,   \* calls of approve-lease-workflow, retries included
    Compute,   \* calls of compute-lease
    Rerun,     \* calls of review-approve for the file of the lease
    Review,    \* what a reviewer may have decided about the fields
    KeyOf,     \* the key a request carries
    ReviewOf,  \* the field reviews that go with a key
    Faulty     \* whether a statement or call may fail

ASSUME RequestAssumption ==
    /\ KeyOf \in [Request -> Key]
    /\ ReviewOf \in [Key -> Review]
    /\ Faulty \in BOOLEAN

LeaseStatus    == {"draft", "approved", "rejected", "superseded"}
AbstractStatus == LeaseStatus \cup {"pending_review"}

\* stamped: abstract_approved_at is set.
Lease == [status : LeaseStatus, abstract : AbstractStatus, version : Nat, stamped : BOOLEAN]

Answer   == [version : Nat, already : BOOLEAN]
NoAnswer == [version |-> 0, already |-> FALSE]

RequestPc == {"idle", "approve", "backfill", "count", "find", "save", "rent", "wait",
              "obligations", "ended"}
ComputePc == {"idle", "lease", "rows", "delete", "insert", "reload", "ended", "halfway"}
RerunPc   == {"idle", "write", "link", "linking"}

\* ruleSet: the rule set found, if any; compute: the call it waits for.
Requests == [pc : RequestPc, ruleSet : SUBSET Request, compute : SUBSET Compute]
\* version: of the lease as read; none: it deleted the rows and generated none;
\* rows: whether it answered with rows.
Computes == [pc : ComputePc, version : Nat, none : BOOLEAN, rows : BOOLEAN]
\* held: the field reviews as read.
Reruns   == [pc : RerunPc, held : SUBSET Review]

VARIABLES
    lease,        \* the row of leases
    reviews,      \* its extraction_data.field_reviews, {} when absent
    versions,     \* lease_abstract_versions: the key that approved each
    run,          \* lease_approval_workflow_runs: the stored response per key
    dates,        \* lease_critical_dates, by the reviews they come from
    obligations,  \* lease_obligations, likewise
    ruleSets,     \* lease_expense_rule_sets, by the request that made each
    ruleHome,     \* the rule set that the lease's expense rules belong to
    rent,         \* rent_schedules: one <<compute, version>> per insert
    request, compute, rerun

leaseVars    == <<lease, reviews, versions, run>>
derivedVars  == <<dates, obligations, ruleSets, ruleHome>>
vars == <<leaseVars, derivedVars, rent, request, compute, rerun>>

Init ==
    /\ lease = [status |-> "draft", abstract |-> "draft", version |-> 0, stamped |-> FALSE]
    /\ reviews = {}
    /\ versions = <<>>
    /\ run = [k \in Key |-> NoAnswer]
    /\ dates = {} /\ obligations = {} /\ ruleSets = {} /\ ruleHome = {} /\ rent = {}
    /\ request = [r \in Request |-> [pc |-> "idle", ruleSet |-> {}, compute |-> {}]]
    /\ compute = [c \in Compute |-> [pc |-> "idle", version |-> 0, none |-> FALSE, rows |-> FALSE]]
    /\ rerun = [p \in Rerun |-> [pc |-> "idle", held |-> {}]]

\* approve_lease_workflow asks for both; the other procedures look at the
\* abstract status alone.
IsApproved == lease.status = "approved" /\ lease.abstract = "approved"
Locked     == lease.abstract = "approved"
Answered(k) == run[k] # NoAnswer

-----------------------------------------------------------------------------
(* The other writers of the lease *)

WriteLease(new) ==
    /\ lease' = new
    /\ UNCHANGED <<versions, run, derivedVars, rent, request, compute, rerun>>

SaveDraft(v) ==
    /\ ~Locked
    /\ reviews' = {v}
    /\ WriteLease([lease EXCEPT !.abstract = "pending_review"])

\* Mutant of Reject: looks for an earlier rejection instead of the lock.
RejectUnlessRejected ==
    /\ lease.abstract # "rejected"
    /\ WriteLease([lease EXCEPT !.status = "rejected", !.abstract = "rejected"])
    /\ UNCHANGED reviews

Reject ==
    /\ ~Locked
    /\ WriteLease([lease EXCEPT !.status = "rejected", !.abstract = "rejected"])
    /\ UNCHANGED reviews

SendBack ==
    /\ ~Locked
    /\ WriteLease([lease EXCEPT !.status = "draft"])
    /\ UNCHANGED reviews

\* supersede_duplicate_lease does not ask whether the lease is approved.
Supersede ==
    /\ lease.status # "superseded"
    /\ WriteLease([lease EXCEPT !.status = "superseded", !.abstract = "superseded"])
    /\ UNCHANGED reviews

-----------------------------------------------------------------------------
(* review-approve: rebuild the draft, then link it to its file *)

RerunStep(p, pc, held) ==
    /\ rerun' = [rerun EXCEPT ![p] = [pc |-> pc, held |-> held]]
    /\ UNCHANGED <<lease, versions, run, derivedVars, rent, request, compute>>

\* The error of the read is not looked at.
RerunRead(p) ==
    /\ rerun[p].pc = "idle"
    /\ \/ RerunStep(p, "write", reviews)
       \/ Faulty /\ RerunStep(p, "write", {})
    /\ UNCHANGED reviews

RerunWrite(p) ==
    /\ rerun[p].pc = "write"
    /\ reviews' = IF lease.status = "draft" THEN rerun[p].held ELSE reviews
    /\ RerunStep(p, "link", {})

\* A file that already names its leases comes here directly.
LinkRead(p) ==
    /\ rerun[p].pc \in {"idle", "link"}
    /\ RerunStep(p, "linking", reviews)
    /\ UNCHANGED reviews

\* Writes all of extraction_data, by id.
LinkWrite(p) ==
    /\ rerun[p].pc = "linking"
    /\ reviews' = rerun[p].held
    /\ RerunStep(p, "idle", {})

RerunFails(p) ==
    /\ Faulty
    /\ rerun[p].pc # "idle"
    /\ RerunStep(p, "idle", {})
    /\ UNCHANGED reviews

-----------------------------------------------------------------------------
(* approve-lease-workflow *)

\* What a step found or waited for is of use to the next one only.
Goto(r, pc) == request' = [request EXCEPT ![r] = [pc |-> pc, ruleSet |-> {}, compute |-> {}]]

\* Reads the lease and composes snapshot and critical dates from the reviews
\* of the request.
Begin(r) ==
    /\ request[r].pc = "idle"
    /\ Goto(r, "approve")
    /\ UNCHANGED <<leaseVars, derivedVars, rent, compute, rerun>>

\* The three outcomes of approve_lease_workflow, a single transaction.
Continue(r, answer) ==
    /\ Goto(r, IF answer.already THEN "backfill" ELSE "count")
    /\ UNCHANGED <<derivedVars, rent, compute, rerun>>

Replay(r) ==
    /\ request[r].pc = "approve"
    /\ Answered(KeyOf[r])
    /\ Continue(r, run[KeyOf[r]])
    /\ UNCHANGED leaseVars

\* Mutant of AlreadyApproved: looks at the lease before the stored answer.
AlreadyApprovedFirst(r) ==
    LET answer == [version |-> lease.version, already |-> TRUE] IN
    /\ request[r].pc = "approve"
    /\ IsApproved
    /\ run' = [run EXCEPT ![KeyOf[r]] = answer]
    /\ Continue(r, answer)
    /\ UNCHANGED <<lease, reviews, versions>>

AlreadyApproved(r) ==
    LET answer == [version |-> lease.version, already |-> TRUE] IN
    /\ request[r].pc = "approve"
    /\ ~Answered(KeyOf[r])
    /\ IsApproved
    /\ run' = [run EXCEPT ![KeyOf[r]] = answer]
    /\ Continue(r, answer)
    /\ UNCHANGED <<lease, reviews, versions>>

\* Mutant of Approve: relies on the status of the lease, not on the key.
ApproveAnyKey(r) ==
    LET k == KeyOf[r]
        answer == [version |-> lease.version + 1, already |-> FALSE] IN
    /\ request[r].pc = "approve"
    /\ ~IsApproved
    /\ lease' = [status |-> "approved", abstract |-> "approved",
                 version |-> answer.version, stamped |-> TRUE]
    /\ reviews' = {ReviewOf[k]}
    /\ versions' = Append(versions, k)
    /\ run' = [run EXCEPT ![k] = answer]
    /\ dates' = dates \cup {ReviewOf[k]}
    /\ Goto(r, "count")
    /\ UNCHANGED <<obligations, ruleSets, ruleHome, rent, compute, rerun>>

\* The critical dates are inserted in the same transaction.
Approve(r) ==
    LET k == KeyOf[r]
        answer == [version |-> lease.version + 1, already |-> FALSE] IN
    /\ request[r].pc = "approve"
    /\ ~Answered(k)
    /\ ~IsApproved
    /\ lease' = [status |-> "approved", abstract |-> "approved",
                 version |-> answer.version, stamped |-> TRUE]
    /\ reviews' = {ReviewOf[k]}
    /\ versions' = Append(versions, k)
    /\ run' = [run EXCEPT ![k] = answer]
    /\ dates' = dates \cup {ReviewOf[k]}
    /\ Goto(r, "count")
    /\ UNCHANGED <<obligations, ruleSets, ruleHome, rent, compute, rerun>>

\* A post-commit step: what it writes, or nothing if the write fails, and on.
PostCommit(r, from, to) ==
    /\ request[r].pc = from
    /\ Goto(r, to)
    /\ UNCHANGED <<leaseVars, rent, compute, rerun>>

Backfill(r) ==
    /\ \/ dates' = dates \cup {ReviewOf[KeyOf[r]]}
       \/ Faulty /\ UNCHANGED dates
    /\ PostCommit(r, "backfill", "count")
    /\ UNCHANGED <<obligations, ruleSets, ruleHome>>

\* publishApprovedLeaseExpenseArtifacts ends here when rules exist, and also
\* when the extraction has none to publish.
CountRules(r) ==
    /\ \/ PostCommit(r, "count", "rent")
       \/ ruleHome = {} /\ PostCommit(r, "count", "find")
    /\ UNCHANGED derivedVars

FindRuleSet(r) ==
    /\ request[r].pc = "find"
    /\ \E found \in {s \in SUBSET ruleSets : Cardinality(s) = 1} \cup
                    (IF ruleSets = {} THEN {{}} ELSE {}) :
            request' = [request EXCEPT ![r].pc = "save", ![r].ruleSet = found]
    /\ UNCHANGED <<leaseVars, derivedVars, rent, compute, rerun>>

\* save_lease_expense_rule_set: the set found, or a new one; rules that exist
\* move to it.
SaveRules(r) ==
    LET home == IF request[r].ruleSet = {} THEN {r} ELSE request[r].ruleSet IN
    /\ ruleSets' = ruleSets \cup home
    /\ ruleHome' = home
    /\ PostCommit(r, "save", "rent")
    /\ UNCHANGED <<dates, obligations>>

\* Its errors are caught and reported.
PublicationFails(r) ==
    /\ Faulty
    /\ \E pc \in {"count", "find", "save"} : PostCommit(r, pc, "rent")
    /\ UNCHANGED derivedVars

CallCompute(r) ==
    /\ request[r].pc = "rent"
    /\ \E c \in Compute :
          /\ compute[c].pc = "idle"
          /\ compute' = [compute EXCEPT ![c].pc = "lease"]
          /\ request' = [request EXCEPT ![r].pc = "wait", ![r].compute = {c}]
    /\ UNCHANGED <<leaseVars, derivedVars, rent, rerun>>

ComputeAnswers(r) ==
    /\ \A c \in request[r].compute : compute[c].pc \in {"ended", "halfway"}
    /\ PostCommit(r, "wait", "obligations")
    /\ UNCHANGED derivedVars

\* No configuration, or a network error, while the call may go on.
CallFails(r) ==
    /\ Faulty
    /\ \E pc \in {"rent", "wait"} : PostCommit(r, pc, "obligations")
    /\ UNCHANGED derivedVars

Materialize(r) ==
    /\ \/ obligations' = obligations \cup {ReviewOf[KeyOf[r]]}
       \/ Faulty /\ UNCHANGED obligations
    /\ PostCommit(r, "obligations", "ended")
    /\ UNCHANGED <<dates, ruleSets, ruleHome>>

\* Mutant of RequestDies: the error of the transaction is not looked at.
RequestGoesOn(r) ==
    /\ Faulty
    /\ request[r].pc \notin {"idle", "ended"}
    /\ Goto(r, IF request[r].pc = "approve" THEN "obligations" ELSE "ended")
    /\ UNCHANGED <<leaseVars, derivedVars, rent, compute, rerun>>

\* The transaction is refused, or the invocation is killed.
RequestDies(r) ==
    /\ Faulty
    /\ request[r].pc \notin {"idle", "ended"}
    /\ Goto(r, "ended")
    /\ UNCHANGED <<leaseVars, derivedVars, rent, compute, rerun>>

-----------------------------------------------------------------------------
(* compute-lease *)

ComputeStep(c, new) ==
    /\ compute' = [compute EXCEPT ![c] = new]
    /\ UNCHANGED <<leaseVars, derivedVars, request, rerun>>

\* Fired by the client after an approval, a saved draft, and at will.
Trigger(c) ==
    /\ compute[c].pc = "idle"
    /\ ComputeStep(c, [compute[c] EXCEPT !.pc = "lease"])
    /\ UNCHANGED rent

\* Mutant of HasApprovalBoundary: any lease the filter lets through.
NoApprovalBoundary == TRUE

HasApprovalBoundary ==
    lease.abstract = "approved" \/ lease.status = "approved" \/ lease.stamped

\* The caller's filter may ask for active leases or for all of them.
ReadLease(c) ==
    /\ compute[c].pc = "lease"
    /\ \/ /\ HasApprovalBoundary
          /\ ComputeStep(c, [compute[c] EXCEPT !.pc = "rows", !.version = lease.version])
       \/ /\ ~HasApprovalBoundary \/ lease.status # "approved"
          /\ ComputeStep(c, [compute[c] EXCEPT !.pc = "ended"])
    /\ UNCHANGED rent

ReadRows(c) ==
    LET current == \E row \in rent : row[2] = compute[c].version IN
    /\ compute[c].pc = "rows"
    /\ ComputeStep(c, [compute[c] EXCEPT !.pc = IF current THEN "reload" ELSE "delete"])
    /\ UNCHANGED rent

DeleteRows(c) ==
    /\ compute[c].pc = "delete"
    /\ rent' = {}
    /\ ComputeStep(c, [compute[c] EXCEPT !.pc = "insert"])

\* Mutant of InsertRows: looks at the lease again, after the deletion.
InsertRowsIfApproved(c) ==
    /\ compute[c].pc = "insert"
    /\ rent' = IF IsApproved THEN rent \cup {<<c, compute[c].version>>} ELSE rent
    /\ ComputeStep(c, [compute[c] EXCEPT !.pc = "reload"])

\* A lease may yield no rows, if its rent starts after it ends, say; then
\* nothing is inserted, and that is no error.
InsertRows(c) ==
    /\ compute[c].pc = "insert"
    /\ \/ /\ rent' = rent \cup {<<c, compute[c].version>>}
          /\ ComputeStep(c, [compute[c] EXCEPT !.pc = "reload"])
       \/ /\ ComputeStep(c, [compute[c] EXCEPT !.pc = "reload", !.none = TRUE])
          /\ UNCHANGED rent

Reload(c) ==
    /\ compute[c].pc = "reload"
    /\ ComputeStep(c, [compute[c] EXCEPT !.pc = "ended", !.rows = rent # {}])
    /\ UNCHANGED rent

\* A statement fails, or the invocation is killed; "halfway": rows deleted and
\* none inserted.
ComputeFails(c) ==
    /\ Faulty
    /\ compute[c].pc \in {"lease", "rows", "delete", "insert", "reload"}
    /\ ComputeStep(c, [compute[c] EXCEPT !.pc = IF @ = "insert" THEN "halfway" ELSE "ended"])
    /\ UNCHANGED rent

-----------------------------------------------------------------------------
LeaseStep == (\E v \in Review : SaveDraft(v)) \/ Reject \/ SendBack \/ Supersede

RerunNext(p) ==
    RerunRead(p) \/ RerunWrite(p) \/ LinkRead(p) \/ LinkWrite(p) \/ RerunFails(p)

RequestNext(r) ==
    \/ Begin(r) \/ Replay(r) \/ AlreadyApproved(r) \/ Approve(r) \/ Backfill(r)
    \/ CountRules(r) \/ FindRuleSet(r) \/ SaveRules(r) \/ PublicationFails(r)
    \/ CallCompute(r) \/ ComputeAnswers(r) \/ CallFails(r) \/ Materialize(r) \/ RequestDies(r)

ComputeNext(c) ==
    \/ Trigger(c) \/ ReadLease(c) \/ ReadRows(c) \/ DeleteRows(c) \/ InsertRows(c)
    \/ Reload(c) \/ ComputeFails(c)

Next ==
    \/ LeaseStep
    \/ \E p \in Rerun : RerunNext(p)
    \/ \E r \in Request : RequestNext(r)
    \/ \E c \in Compute : ComputeNext(c)

Spec == Init /\ [][Next]_vars

-----------------------------------------------------------------------------
(* Type correctness: rows, requests and calls stay well-formed, and at most *)
(* one value of field reviews is saved.                                     *)
TypeOK ==
    /\ lease \in Lease
    /\ reviews \in SUBSET Review
    /\ versions \in Seq(Key)
    /\ run \in [Key -> Answer]
    /\ dates \in SUBSET Review
    /\ obligations \in SUBSET Review
    /\ ruleSets \in SUBSET Request
    /\ ruleHome \in SUBSET ruleSets
    /\ rent \in SUBSET (Compute \X Nat)
    /\ request \in [Request -> Requests]
    /\ compute \in [Compute -> Computes]
    /\ rerun \in [Rerun -> Reruns]

\* The history and the answers tell the same story: the lease's version is the
\* newest in lease_abstract_versions, the key of every version has been answered
\* with that version, and an answer that claims an approval names the version
\* its key made.  So no key approves twice, whatever is retried, raced or
\* superseded in between.
AnswerMatchesHistory ==
    /\ lease.version = Len(versions)
    /\ \A i \in 1..Len(versions) : run[versions[i]] = [version |-> i, already |-> FALSE]
    /\ \A k \in Key : Answered(k) =>
          /\ run[k].version \in 1..Len(versions)
          /\ run[k].already \/ versions[run[k].version] = k

\* The answer a client got for a key is the answer every retry gets.
AnswerKept == [][\A k \in Key : Answered(k) => run'[k] = run[k]]_vars

\* "Approved and locked": the two status columns agree about approval, a lease
\* was stamped when and only when a version exists.  Each of the procedures
\* that look at one column only relies on it.
ColumnsAgree ==
    /\ lease.status = "approved" <=> lease.abstract = "approved"
    /\ lease.stamped <=> versions # <<>>
    /\ lease.status = "approved" => lease.stamped

\* An approved lease leaves that state only by being superseded: no draft,
\* rejection, send-back or second approval changes it.
ApprovedIsLocked ==
    [][IsApproved => lease' = lease \/ lease'.status = "superseded"]_vars

\* "No caller-supplied filter may broaden this set to unapproved leases": every
\* row of the rent schedule belongs to a version that was approved, though the
\* lease was read three statements before the row is inserted.
RentAuthoritative == \A row \in rent : row[2] \in 1..Len(versions)

\* A schedule that some call has reported is never lost in silence: it is gone
\* only while a call has deleted the rows and not yet inserted its own, after
\* one that failed there, or after one whose lease yields no rows and that has
\* not answered with any, which its caller takes for a failure.
ScheduleKept ==
    (\E c \in Compute : compute[c].rows)
      => \/ rent # {}
         \/ \E c \in Compute : compute[c].pc \in {"insert", "halfway"}
         \/ \E c \in Compute : compute[c].none /\ ~compute[c].rows

\* Critical dates, obligations and rule sets come only from requests whose key
\* has a committed answer: what follows the commit never runs ahead of it.
DerivedFromAnswers ==
    /\ \A v \in dates \cup obligations : \E k \in Key : ReviewOf[k] = v /\ Answered(k)
    /\ \A r \in ruleSets : Answered(KeyOf[r])

=============================================================================
