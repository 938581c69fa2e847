------------------------------ MODULE CamInputs ------------------------------
(***************************************************************************)
(* The publication of one actual expense to CAM: its row of expenses, its  *)
(* row of expense_classifications, the versions of its CAM input, and the  *)
(* assignment of a version to recovery pools.                              *)
(*                                                                         *)
(* Every procedure is one transaction under READ COMMITTED.  It is split   *)
(* where it waits for a row lock that another one may hold, and where it   *)
(* uses after such a wait what it read before.  Nothing it writes is seen  *)
(* before its last step, which commits.  now() is the time at which a      *)
(* transaction begins, not the one at which it writes.                     *)
(***************************************************************************)
EXTENDS Naturals, SequencesExt

CONSTANTS
    Call,       \* transactions that may be open at the same time
    Key,        \* idempotency keys of "send to CAM"
    Amount,     \* amounts an expense may have
    Pool,       \* recovery pools of the property that take the category
    Defaulting  \* those that have a variability default for it

ASSUME InputAssumption ==
    /\ Amount \subseteq Nat \ {0}
    /\ Defaulting \subseteq Pool

ReviewStatus == {"matched", "conditional", "excluded", "finalized"}

Expense        == [amount : Amount, at : Nat]
Classification == [status : ReviewStatus, amount : Amount, sent : BOOLEAN, at : Nat]

\* source: the expense's updated_at when the version was made; known: its
\* variability is.
Version == [status : {"published", "withdrawn", "superseded"}, amount : Amount,
            previous : Nat, source : Nat, at : Nat, known : BOOLEAN]

\* An assignment to a pool, in halves of the amount of the version.
Assignment == [version : Nat, pool : Pool, halves : 1..2]

\* A procedure waits in the state of its name, and holds locks in the next.
Procedure == {"send", "pull", "review", "finalize", "edit", "persist", "assign"}

VARIABLES
    expense,   \* the row of expenses
    class,     \* the row of expense_classifications
    input,     \* the versions in cam_expense_inputs
    assigned,  \* cam_input_pool_assignments
    answer,    \* expense_classification_cam_send_runs: the version, or 0
    call,      \* the open transactions
    clock      \* how many have begun

vars == <<expense, class, input, assigned, answer, call, clock>>
rows == <<expense, class, input, assigned, answer>>

Idle == [pc |-> "idle", at |-> 0]
\* What a transaction has read or is about to write.
IsOpen(m) ==
    \/ m \in [pc : Procedure \cup {"pulling"}, at : Nat]
    \/ m \in [pc : {"publish", "finalizing"}, at : Nat, seen : Expense]
    \/ m \in [pc : {"sync"}, at : Nat, amount : Amount, version : Nat]
    \/ m \in [pc : {"overwrite"}, at : Nat, held : Classification]
    \/ m \in [pc : {"insert"}, at : Nat, version : Nat, known : BOOLEAN]
    \/ m \in [pc : {"balance", "commit"}, at : Nat, row : Assignment, backfills : BOOLEAN]

Init ==
    /\ expense \in [amount : Amount, at : {0}]
    /\ class = [status |-> "matched", amount |-> expense.amount, sent |-> FALSE, at |-> 0]
    /\ input = <<>>
    /\ assigned = {}
    /\ answer = [k \in Key |-> 0]
    /\ call = [c \in Call |-> Idle]
    /\ clock = 0

\* The published version, or 0.
Live == LET published == {v \in 1..Len(input) : input[v].status = "published"}
        IN  IF published = {} THEN 0 ELSE Max(published)

Holds(pcs)   == \E d \in Call : call[d].pc \in pcs
ClassFree    == ~Holds({"publish", "pulling", "finalizing"})
ExpenseFree  == ~Holds({"sync", "overwrite"})
\* FOR UPDATE on a version, and the KEY SHARE that an assignment to it takes.
InputHeld(v)   == \E d \in Call : call[d].pc = "sync" /\ call[d].version = v
Assigning(d, v) == call[d].pc \in {"balance", "commit"} /\ call[d].row.version = v
InputShared(v) == \E d \in Call : Assigning(d, v)

Assigned(v)     == {a \in assigned : a.version = v}
HalvesOf(as)    == FoldSet(LAMBDA a, sum : a.halves + sum, 0, as)

Goto(c, new) == call' = [call EXCEPT ![c] = new] /\ UNCHANGED clock
Ends(c)      == Goto(c, Idle)

Begin(c) ==
    /\ call[c].pc = "idle"
    /\ \E p \in Procedure : call' = [call EXCEPT ![c] = [pc |-> p, at |-> clock + 1]]
    /\ clock' = clock + 1
    /\ UNCHANGED rows

\* Refused by a check, chosen by deadlock detection, or killed: rolled back.
Aborts(c) ==
    /\ call[c].pc # "idle"
    /\ Ends(c)
    /\ UNCHANGED rows

-----------------------------------------------------------------------------
(* send_expense_classification_to_cam_workflow *)

\* Locks the classification; the expense is only read.
SendLock(c) ==
    /\ call[c].pc = "send"
    /\ ClassFree
    /\ Goto(c, [pc |-> "publish", at |-> call[c].at, seen |-> expense])
    /\ UNCHANGED rows

\* The row of the idempotency key references the expense, and waits for it.
Answering(c, k, v) ==
    /\ call[c].pc = "publish"
    /\ ExpenseFree
    /\ answer' = [answer EXCEPT ![k] = v]
    /\ Ends(c)
    /\ UNCHANGED <<expense, assigned>>

Replay(c, k) ==
    /\ answer[k] # 0
    /\ Answering(c, k, answer[k])
    /\ UNCHANGED <<class, input>>

AlreadySent(c, k) ==
    /\ answer[k] = 0 /\ Live # 0
    /\ Answering(c, k, Live)
    /\ UNCHANGED <<class, input>>

\* PRIOR_PUBLICATION_WITHDRAWN, NOT_FINALIZED and AMOUNT_EXCEEDS_EXPENSE.
Sendable(c) ==
    /\ call[c].pc = "publish"
    /\ input # <<>> => class.at > Last(input).at
    /\ class.status = "finalized"
    /\ class.amount <= call[c].seen.amount

PublishBy(c, k, source) ==
    /\ Sendable(c)
    /\ Live = 0
    /\ input' = Append(input, [status |-> "published", amount |-> class.amount,
                               previous |-> Len(input), source |-> source, at |-> call[c].at,
                               known |-> FALSE])
    /\ class' = [class EXCEPT !.sent = TRUE, !.at = call[c].at]
    /\ Answering(c, k, Len(input) + 1)

\* Mutant of Publish: stamps the expense as it is now, not as it was read.
PublishRestamped(c, k) == answer[k] = 0 /\ PublishBy(c, k, expense.at)

Publish(c, k) == answer[k] = 0 /\ PublishBy(c, k, call[c].seen.at)

-----------------------------------------------------------------------------
(* withdraw_cam_expense_input and review_expense_classification *)

PullLock(c) ==
    /\ call[c].pc = "pull"
    /\ ClassFree
    /\ Goto(c, [pc |-> "pulling", at |-> call[c].at])
    /\ UNCHANGED rows

UnsendAs(c, status) ==
    /\ call[c].pc = "pulling"
    /\ class' = [class EXCEPT !.status = status, !.sent = FALSE, !.at = call[c].at]
    /\ Ends(c)
    /\ UNCHANGED <<expense, assigned, answer>>

\* Mutant of Unsend: gives the review the status of the publication.
UnsendMixed(c) == UnsendAs(c, "withdrawn")

Unsend(c) == UnsendAs(c, "matched")

\* Mutant of Withdraw: relies on the lock of the classification.
WithdrawUnlocked(c) ==
    /\ Live # 0
    /\ input' = [input EXCEPT ![Live].status = "withdrawn", ![Live].at = call[c].at]
    /\ Unsend(c)

\* A withdrawal, or a reopening of what is published.
Withdraw(c) ==
    /\ Live # 0
    /\ ~InputHeld(Live) /\ ~InputShared(Live)
    /\ input' = [input EXCEPT ![Live].status = "withdrawn", ![Live].at = call[c].at]
    /\ Unsend(c)

Reopen(c) ==
    /\ Live = 0
    /\ Unsend(c)
    /\ UNCHANGED input

\* approve, reject, mark_na and resolve leave what is published alone.
Review(c) ==
    /\ call[c].pc = "review"
    /\ ClassFree
    /\ \E s \in ReviewStatus : class' = [class EXCEPT !.status = s, !.at = call[c].at]
    /\ Ends(c)
    /\ UNCHANGED <<expense, input, assigned, answer>>

FinalizeLock(c) ==
    /\ call[c].pc = "finalize"
    /\ ClassFree
    /\ Goto(c, [pc |-> "finalizing", at |-> call[c].at, seen |-> expense])
    /\ UNCHANGED rows

\* A smaller amount needs the remainder to be accepted.
Finalize(c) ==
    /\ call[c].pc = "finalizing"
    /\ ExpenseFree
    /\ class.amount <= call[c].seen.amount
    /\ class' = [class EXCEPT !.status = "finalized", !.at = call[c].at]
    /\ Ends(c)
    /\ UNCHANGED <<expense, input, assigned, answer>>

-----------------------------------------------------------------------------
(* update_expense_details and update_expense_amount, with the trigger      *)
(* sync_cam_inputs_after_expense_update                                    *)

\* Locks the expense and, if there is one, the published version.
EditScan(c) ==
    /\ call[c].pc = "edit"
    /\ ExpenseFree
    /\ Live # 0
    /\ ~InputHeld(Live) /\ ~InputShared(Live)
    /\ \E a \in Amount :
          Goto(c, [pc |-> "sync", at |-> call[c].at, amount |-> a, version |-> Live])
    /\ UNCHANGED rows

EditUnpublished(c) ==
    /\ call[c].pc = "edit"
    /\ ExpenseFree
    /\ Live = 0
    /\ expense' \in [amount : Amount, at : {call[c].at}]
    /\ Ends(c)
    /\ UNCHANGED <<class, input, assigned, answer>>

\* A pool of another property does not follow the expense there; a copied
\* assignment goes through the balance check.
Copies(old, new) ==
    {{}} \cup (IF HalvesOf(Assigned(old)) > 2 THEN {} ELSE
               {{[a EXCEPT !.version = new] : a \in Assigned(old)}})

EditBy(c, pulled) ==
    LET me == call[c] IN
    /\ me.pc = "sync"
    /\ ClassFree
    /\ expense' = [amount |-> me.amount, at |-> me.at]
    /\ class' = [class EXCEPT !.amount = me.amount, !.at = me.at]
    /\ input' = Append([input EXCEPT ![me.version].status = pulled, ![me.version].at = me.at],
                       [status |-> "published", amount |-> me.amount,
                        previous |-> me.version, source |-> me.at, at |-> me.at,
                        known |-> FALSE])
    /\ \E copy \in Copies(me.version, Len(input) + 1) : assigned' = assigned \cup copy
    /\ Ends(c)
    /\ UNCHANGED answer

\* Mutant of EditSync: the old version stays published.
EditSyncTwice(c) == EditBy(c, "published")

EditSync(c) == EditBy(c, "superseded")

-----------------------------------------------------------------------------
(* persist_expense_classification *)

\* Locks the expense; the classification is only read.
PersistRead(c) ==
    /\ call[c].pc = "persist"
    /\ ExpenseFree
    /\ Goto(c, [pc |-> "overwrite", at |-> call[c].at, held |-> class])
    /\ UNCHANGED rows

\* What the client does not patch is written back as it was read.
PersistWrite(c) ==
    LET held == call[c].held IN
    /\ call[c].pc = "overwrite"
    /\ ClassFree
    /\ \E s \in {"matched", held.status}, a \in Amount :
          class' = [status |-> s, amount |-> a, sent |-> held.sent, at |-> call[c].at]
    /\ \E t \in {expense.at, call[c].at} : expense' = [expense EXCEPT !.at = t]
    /\ Ends(c)
    /\ UNCHANGED <<input, assigned, answer>>

-----------------------------------------------------------------------------
(* assign_cam_input_to_pool, with the trigger                              *)
(* enforce_cam_pool_assignment_balance                                     *)

AssignRead(c) ==
    /\ call[c].pc = "assign"
    /\ Live # 0
    /\ Goto(c, [pc |-> "insert", at |-> call[c].at, version |-> Live, known |-> input[Live].known])
    /\ UNCHANGED rows

\* The new row shares the lock of its version; the update of an unknown
\* variability excludes that of another.
AssignInsert(c) ==
    LET me == call[c] IN
    /\ me.pc = "insert"
    /\ ~InputHeld(me.version)
    /\ \E p \in Pool, h \in 1..2 :
          LET backfills == ~me.known /\ p \in Defaulting IN
          /\ \A a \in Assigned(me.version) : a.pool # p
          /\ \A d \in Call : Assigning(d, me.version) =>
                call[d].row.pool # p /\ ~(backfills /\ call[d].backfills)
          /\ Goto(c, [pc |-> "balance", at |-> me.at, backfills |-> backfills,
                      row |-> [version |-> me.version, pool |-> p, halves |-> h]])
    /\ UNCHANGED rows

\* The deferred check: it sees its own row and the committed ones.
AssignCheck(c) ==
    LET me == call[c] IN
    /\ me.pc = "balance"
    /\ HalvesOf(Assigned(me.row.version)) + me.row.halves <= 2
    /\ Goto(c, [me EXCEPT !.pc = "commit"])
    /\ UNCHANGED rows

AssignCommit(c) ==
    LET me == call[c]  v == me.row.version IN
    /\ me.pc = "commit"
    /\ assigned' = assigned \cup {me.row}
    /\ input' = IF me.backfills THEN [input EXCEPT ![v].known = TRUE, ![v].at = me.at] ELSE input
    /\ Ends(c)
    /\ UNCHANGED <<expense, class, answer>>

-----------------------------------------------------------------------------
SendNext(c, k) == Replay(c, k) \/ AlreadySent(c, k) \/ Publish(c, k)

CallNext(c) ==
    \/ Begin(c) \/ Aborts(c) \/ SendLock(c) \/ \E k \in Key : SendNext(c, k)
    \/ PullLock(c) \/ Withdraw(c) \/ Reopen(c) \/ Review(c) \/ FinalizeLock(c) \/ Finalize(c)
    \/ EditScan(c) \/ EditUnpublished(c) \/ EditSync(c) \/ PersistRead(c) \/ PersistWrite(c)
    \/ AssignRead(c) \/ AssignInsert(c) \/ AssignCheck(c) \/ AssignCommit(c)

Next == \E c \in Call : CallNext(c)

Spec == Init /\ [][Next]_vars

-----------------------------------------------------------------------------
(* Type correctness. *)
TypeOK ==
    /\ expense \in Expense
    /\ class \in Classification
    /\ input \in Seq(Version)
    /\ assigned \in SUBSET Assignment
    /\ answer \in [Key -> Nat]
    /\ DOMAIN call = Call /\ \A c \in Call : call[c] = Idle \/ IsOpen(call[c])
    /\ clock \in Nat

\* "At most one CURRENT row per series", and the history of the publication is
\* a chain: a version names the one before it, every one but the last has been
\* pulled back, whichever of publication, withdrawal, reopening and edit made
\* or unmade it.
OneChain ==
    \A v \in 1..Len(input) :
        /\ input[v].previous = v - 1
        /\ input[v].status = "published" => v = Len(input)

\* What was pulled back stays so: an edit that was waiting for the
\* classification does not publish anew what a reviewer withdrew meanwhile.
PulledBackStays ==
    [][\A v \in 1..Len(input) : input[v].status # "published" =>
          input'[v].status = input[v].status]_vars

\* A published input that is out of step with its expense can be told by its
\* source stamp: when source_expense_updated_at is the expense's own, the input
\* does not claim more than the expense, although the expense was read before
\* the publication waited for it.
StaleSourceShows ==
    Live # 0 /\ input[Live].source = expense.at => input[Live].amount <= expense.amount

=============================================================================
