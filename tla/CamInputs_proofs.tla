---------------------------- MODULE CamInputs_proofs ----------------------------
(***************************************************************************)
(* Theorems about CamInputs, for any number of transactions, keys, amounts  *)
(* and pools: types, that the versions of an input are one chain of which   *)
(* only the last is published, that what was pulled back stays so, and that *)
(* a published input which is out of step with its expense shows it.        *)
(***************************************************************************)
EXTENDS CamInputs, SequenceTheorems, TLAPS

-----------------------------------------------------------------------------
(* Invariants *)

\* Only one transaction holds the lock of the expense.
OneEditor ==
    \A c, d \in Call : {call[c].pc, call[d].pc} \subseteq {"sync", "overwrite"} => c = d

\* The version that an edit has locked is published until it commits.
EditsLive == \A c \in Call : call[c].pc = "sync" => Live # 0 /\ call[c].version = Live

ChainInv == TypeOK /\ OneChain /\ OneEditor /\ EditsLive

\* No row carries a time yet, and no publication has read it of the expense.
Unstamped(t) ==
    /\ expense.at # t
    /\ \A v \in 1..Len(input) : input[v].source # t
    /\ \A d \in Call : call[d].pc = "publish" => call[d].seen.at # t

\* The time of an open transaction is its own, and no row has it yet.
OwnTimes ==
    \A c \in Call : call[c].pc # "idle" =>
        /\ call[c].at <= clock /\ Unstamped(call[c].at)
        /\ \A d \in Call : call[d].pc # "idle" /\ call[d].at = call[c].at => c = d

\* Times that have not come yet are on no row.
NoFuture == \A t \in Nat : t > clock => Unstamped(t)

\* What a publication has read of the expense is so, as long as the expense has
\* not been stamped anew.
SeenTruly ==
    \A c \in Call : call[c].pc = "publish" /\ call[c].seen.at = expense.at =>
        call[c].seen.amount = expense.amount

StaleInv == OwnTimes /\ NoFuture /\ SeenTruly /\ StaleSourceShows

-----------------------------------------------------------------------------
(* The published version *)

\* The published version of a sequence of versions, and whether they are a chain.
LiveOf(s) == LET published == {v \in 1..Len(s) : s[v].status = "published"}
             IN  IF published = {} THEN 0 ELSE Max(published)
Chained(s) == \A v \in 1..Len(s) : s[v].status = "published" => v = Len(s)

\* Of a chain, the published version is the last one.
LEMMA LastOfChain ==
  ASSUME NEW s \in Seq(Version), Chained(s)
  PROVE  /\ Len(s) \in Nat /\ LiveOf(s) \in {0, Len(s)}
         /\ LiveOf(s) # 0 => s[Len(s)].status = "published"
         /\ LiveOf(s) = 0 => \A v \in 1..Len(s) : s[v].status # "published"
  <1> DEFINE published == {v \in 1..Len(s) : s[v].status = "published"}
  <1>1. Len(s) \in Nat
    OBVIOUS
  <1>2. published \subseteq {Len(s)}
    BY DEF Chained
  <1>3. CASE published = {}
    <2>1. LiveOf(s) = 0
      BY <1>3 DEF LiveOf
    <2>2. QED
      BY <1>1, <1>3, <2>1
  <1>4. CASE published # {}
    <2>1. published = {Len(s)} /\ Len(s) \in published
      BY <1>2, <1>4
    <2>2. Max({Len(s)}) = Len(s)
      BY <1>1 DEF Max
    <2>3. LiveOf(s) = Len(s)
      BY <2>1, <2>2 DEF LiveOf
    <2>4. Len(s) # 0 /\ s[Len(s)].status = "published"
      BY <1>1, <2>1
    <2>5. QED
      BY <1>1, <2>3, <2>4
  <1>5. QED
    BY <1>3, <1>4

LEMMA LiveIsLast ==
  ASSUME input \in Seq(Version), OneChain
  PROVE  /\ Len(input) \in Nat /\ Live \in {0, Len(input)}
         /\ Live # 0 => input[Len(input)].status = "published"
         /\ Live = 0 => \A v \in 1..Len(input) : input[v].status # "published"
  <1>1. Chained(input) /\ Live = LiveOf(input)
    BY DEF OneChain, Chained, Live, LiveOf
  <1>2. QED
    BY <1>1, LastOfChain

LEMMA LiveStays == input' = input => Live' = Live
  BY DEF Live

-----------------------------------------------------------------------------
(* The transactions *)

CallsTyped == DOMAIN call = Call /\ \A c \in Call : call[c] = Idle \/ IsOpen(call[c])

\* A transaction that goes on; the others stay.
LEMMA Gone ==
  ASSUME CallsTyped, NEW c \in Call, NEW new, new = Idle \/ IsOpen(new), Goto(c, new)
  PROVE  /\ CallsTyped' /\ call'[c] = new /\ clock' = clock
         /\ \A d \in Call \ {c} : call'[d] = call[d]
  <1>1. /\ call'[c] = new /\ DOMAIN call' = Call /\ clock' = clock
        /\ \A d \in Call \ {c} : call'[d] = call[d]
    BY DEF Goto, CallsTyped
  <1>2. QED
    BY <1>1 DEF CallsTyped, IsOpen

LEMMA Ended ==
  ASSUME CallsTyped, NEW c \in Call, Ends(c)
  PROVE  /\ CallsTyped' /\ call'[c] = Idle /\ call'[c].pc = "idle" /\ clock' = clock
         /\ \A d \in Call \ {c} : call'[d] = call[d]
  BY Gone DEF Ends, Idle

\* What an open transaction holds, by where it is.
LEMMA Held ==
  ASSUME CallsTyped, NEW c \in Call
  PROVE  /\ call[c].at \in Nat
         /\ call[c].pc # "idle" => IsOpen(call[c])
         /\ call[c].pc \in {"publish", "finalizing"} => call[c].seen \in Expense
         /\ call[c].pc = "sync" => call[c].amount \in Amount /\ call[c].version \in Nat
         /\ call[c].pc = "overwrite" => call[c].held \in Classification
         /\ call[c].pc = "insert" => call[c].version \in Nat /\ call[c].known \in BOOLEAN
         /\ call[c].pc \in {"balance", "commit"} =>
              /\ call[c] \in [pc : {"balance", "commit"}, at : Nat, row : Assignment, backfills : BOOLEAN]
              /\ call[c].row \in Assignment /\ call[c].backfills \in BOOLEAN
  <1>1. CASE call[c] = Idle
    BY <1>1 DEF Idle
  <1>2. CASE call[c] \in [pc : Procedure \cup {"pulling"}, at : Nat]
    BY <1>2 DEF Procedure, IsOpen
  <1>3. CASE call[c] \in [pc : {"publish", "finalizing"}, at : Nat, seen : Expense]
    BY <1>3 DEF IsOpen
  <1>4. CASE call[c] \in [pc : {"sync"}, at : Nat, amount : Amount, version : Nat]
    BY <1>4 DEF IsOpen
  <1>5. CASE call[c] \in [pc : {"overwrite"}, at : Nat, held : Classification]
    BY <1>5 DEF IsOpen
  <1>6. CASE call[c] \in [pc : {"insert"}, at : Nat, version : Nat, known : BOOLEAN]
    BY <1>6 DEF IsOpen
  <1>7. CASE call[c] \in [pc : {"balance", "commit"}, at : Nat, row : Assignment, backfills : BOOLEAN]
    BY <1>7 DEF IsOpen
  <1>8. QED
    BY <1>1, <1>2, <1>3, <1>4, <1>5, <1>6, <1>7 DEF CallsTyped, IsOpen

\* A step that takes or leaves locks and writes nothing.
Quietly(c) ==
    \/ Begin(c) \/ Aborts(c) \/ SendLock(c) \/ PullLock(c) \/ FinalizeLock(c) \/ EditScan(c)
    \/ PersistRead(c) \/ AssignRead(c) \/ AssignInsert(c) \/ AssignCheck(c)

\* Where such a step leads: to a lock that was free, what was read with it, or out.
LEMMA QuietSteps ==
  ASSUME TypeOK, OneChain, NEW c \in Call, Quietly(c)
  PROVE  /\ UNCHANGED rows /\ CallsTyped'
         /\ \A d \in Call \ {c} : call'[d] = call[d]
         /\ \/ call'[c].pc = "idle" /\ clock' = clock
            \/ /\ call[c].pc = "idle" /\ clock' = clock + 1 /\ call'[c].at = clock + 1
               /\ call'[c].pc \in Procedure
            \/ /\ call[c].pc # "idle" /\ clock' = clock /\ call'[c].at = call[c].at
               /\ call'[c].pc # "idle"
               /\ call'[c].pc \in {"sync", "overwrite"} => ExpenseFree
               /\ call'[c].pc = "sync" => Live # 0 /\ call'[c].version = Live
               /\ call'[c].pc = "publish" => call'[c].seen = expense
  <1> DEFINE Goal ==
        /\ UNCHANGED rows /\ CallsTyped'
        /\ \A d \in Call \ {c} : call'[d] = call[d]
        /\ \/ call'[c].pc = "idle" /\ clock' = clock
           \/ /\ call[c].pc = "idle" /\ clock' = clock + 1 /\ call'[c].at = clock + 1
              /\ call'[c].pc \in Procedure
           \/ /\ call[c].pc # "idle" /\ clock' = clock /\ call'[c].at = call[c].at
              /\ call'[c].pc # "idle"
              /\ call'[c].pc \in {"sync", "overwrite"} => ExpenseFree
              /\ call'[c].pc = "sync" => Live # 0 /\ call'[c].version = Live
              /\ call'[c].pc = "publish" => call'[c].seen = expense
  <1>1. CallsTyped /\ call[c].at \in Nat /\ clock \in Nat /\ expense \in Expense /\ class \in Classification
    BY Held DEF TypeOK, CallsTyped
  <1>2. Live \in Nat /\ (Live # 0 => input[Live].known \in BOOLEAN)
    <2>1. input \in Seq(Version) /\ Len(input) \in Nat /\ Live \in {0, Len(input)}
      BY LiveIsLast DEF TypeOK
    <2>2. Live # 0 => input[Live] \in Version
      BY <2>1
    <2>3. QED
      BY <2>1, <2>2 DEF Version
  <1>3. ASSUME NEW new, IsOpen(new), Goto(c, new), UNCHANGED rows, new.pc # "idle",
               call[c].pc # "idle", new.at = call[c].at,
               new.pc \in {"sync", "overwrite"} => ExpenseFree,
               new.pc = "sync" => Live # 0 /\ new.version = Live,
               new.pc = "publish" => new.seen = expense
        PROVE  Goal
    BY <1>1, <1>3, Gone
  <1>4. CASE Begin(c)
    <2>1. PICK p \in Procedure : call' = [call EXCEPT ![c] = [pc |-> p, at |-> clock + 1]]
      BY <1>4 DEF Begin
    <2>2. IsOpen([pc |-> p, at |-> clock + 1])
      BY <1>1 DEF IsOpen
    <2>3. /\ call'[c] = [pc |-> p, at |-> clock + 1] /\ DOMAIN call' = Call
          /\ \A d \in Call \ {c} : call'[d] = call[d]
      BY <1>1, <2>1 DEF CallsTyped
    <2>4. CallsTyped'
      BY <1>1, <2>2, <2>3 DEF CallsTyped, IsOpen
    <2>5. QED
      BY <1>4, <2>3, <2>4 DEF Begin
  <1>5. CASE Aborts(c)
    BY <1>1, <1>5, Ended DEF Aborts
  <1>6. CASE SendLock(c)
    <2> DEFINE new == [pc |-> "publish", at |-> call[c].at, seen |-> expense]
    <2>1. IsOpen(new)
      BY <1>1 DEF IsOpen
    <2>2. QED
      BY <1>3, <1>6, <2>1 DEF SendLock
  <1>7. CASE PullLock(c)
    <2> DEFINE new == [pc |-> "pulling", at |-> call[c].at]
    <2>1. IsOpen(new)
      BY <1>1 DEF IsOpen
    <2>2. QED
      BY <1>3, <1>7, <2>1 DEF PullLock
  <1>8. CASE FinalizeLock(c)
    <2> DEFINE new == [pc |-> "finalizing", at |-> call[c].at, seen |-> expense]
    <2>1. IsOpen(new)
      BY <1>1 DEF IsOpen
    <2>2. QED
      BY <1>3, <1>8, <2>1 DEF FinalizeLock
  <1>9. CASE EditScan(c)
    <2>1. PICK a \in Amount :
            Goto(c, [pc |-> "sync", at |-> call[c].at, amount |-> a, version |-> Live])
      BY <1>9 DEF EditScan
    <2> DEFINE new == [pc |-> "sync", at |-> call[c].at, amount |-> a, version |-> Live]
    <2>2. IsOpen(new)
      BY <1>1, <1>2 DEF IsOpen
    <2>3. QED
      BY <1>3, <1>9, <2>1, <2>2 DEF EditScan
  <1>10. CASE PersistRead(c)
    <2> DEFINE new == [pc |-> "overwrite", at |-> call[c].at, held |-> class]
    <2>1. IsOpen(new)
      BY <1>1 DEF IsOpen
    <2>2. QED
      BY <1>3, <1>10, <2>1 DEF PersistRead
  <1>11. CASE AssignRead(c)
    <2> DEFINE new == [pc |-> "insert", at |-> call[c].at, version |-> Live, known |-> input[Live].known]
    <2>1. IsOpen(new)
      BY <1>1, <1>2, <1>11 DEF IsOpen, AssignRead
    <2>2. QED
      BY <1>3, <1>11, <2>1 DEF AssignRead
  <1>12. CASE AssignInsert(c)
    <2>1. PICK p \in Pool, h \in 1..2 :
            Goto(c, [pc |-> "balance", at |-> call[c].at, backfills |-> ~call[c].known /\ p \in Defaulting,
                     row |-> [version |-> call[c].version, pool |-> p, halves |-> h]])
      BY <1>12 DEF AssignInsert
    <2>2. call[c].version \in Nat
      BY <1>1, <1>12, Held DEF AssignInsert
    <2> DEFINE row == [version |-> call[c].version, pool |-> p, halves |-> h]
               b == ~call[c].known /\ p \in Defaulting
               new == [pc |-> "balance", at |-> call[c].at, backfills |-> b, row |-> row]
    <2>3. row \in Assignment /\ b \in BOOLEAN
      BY <2>2 DEF Assignment
    <2>4. Goto(c, new)
      BY <2>1
    <2> HIDE DEF row, b
    <2>5. IsOpen(new)
      BY <1>1, <2>3 DEF IsOpen
    <2>6. QED
      BY <1>3, <1>12, <2>4, <2>5 DEF AssignInsert
  <1>13. CASE AssignCheck(c)
    <2> DEFINE new == [call[c] EXCEPT !.pc = "commit"]
    <2>1. call[c] \in [pc : {"balance", "commit"}, at : Nat, row : Assignment, backfills : BOOLEAN]
      BY <1>1, <1>13, Held DEF AssignCheck
    <2>2. new \in [pc : {"balance", "commit"}, at : Nat, row : Assignment, backfills : BOOLEAN]
          /\ new.pc = "commit" /\ new.at = call[c].at
      BY <2>1
    <2>3. IsOpen(new)
      BY <2>2 DEF IsOpen
    <2>4. Goto(c, new) /\ UNCHANGED rows /\ call[c].pc # "idle"
      BY <1>13 DEF AssignCheck
    <2> HIDE DEF new
    <2>5. QED
      BY <1>3, <2>2, <2>3, <2>4
  <1>14. QED
    BY <1>4, <1>5, <1>6, <1>7, <1>8, <1>9, <1>10, <1>11, <1>12, <1>13 DEF Quietly

-----------------------------------------------------------------------------
(* What a transaction writes *)

\* The versions with one of them moved on: its status or whether its variability
\* is known, and its time.
LEMMA Rewritten ==
  ASSUME input \in Seq(Version), NEW v \in 1..Len(input), NEW new \in Version
  PROVE  /\ [input EXCEPT ![v] = new] \in Seq(Version)
         /\ Len([input EXCEPT ![v] = new]) = Len(input)
         /\ \A u \in 1..Len(input) :
              [input EXCEPT ![v] = new][u] = IF u = v THEN new ELSE input[u]
  BY ExceptSeq

PullBack(v, s, t) == [input EXCEPT ![v].status = s, ![v].at = t]
Backfill(v, t)    == [input EXCEPT ![v].known = TRUE, ![v].at = t]

LEMMA PulledBack ==
  ASSUME input \in Seq(Version), NEW v \in 1..Len(input), NEW t \in Nat,
         NEW s, s \in {"withdrawn", "superseded"}
  PROVE  /\ PullBack(v, s, t) \in Seq(Version) /\ Len(PullBack(v, s, t)) = Len(input)
         /\ \A u \in 1..Len(input) :
              /\ PullBack(v, s, t)[u].previous = input[u].previous
              /\ PullBack(v, s, t)[u].status = IF u = v THEN s ELSE input[u].status
              /\ PullBack(v, s, t)[u].source = input[u].source
              /\ PullBack(v, s, t)[u].amount = input[u].amount
  <1> DEFINE one == [input[v] EXCEPT !.status = s, !.at = t]
  <1>1. input[v] \in Version /\ DOMAIN input = 1..Len(input)
    BY ElementOfSeq, LenProperties
  <1>2. /\ one \in Version /\ one.status = s /\ one.previous = input[v].previous
        /\ one.source = input[v].source /\ one.amount = input[v].amount
    BY <1>1 DEF Version
  <1>3. PullBack(v, s, t) = [input EXCEPT ![v] = one]
    BY <1>1 DEF Version, PullBack
  <1> HIDE DEF one
  <1>4. QED
    BY <1>2, <1>3, Rewritten

LEMMA Backfilled ==
  ASSUME input \in Seq(Version), NEW v, NEW t \in Nat
  PROVE  /\ Backfill(v, t) \in Seq(Version) /\ Len(Backfill(v, t)) = Len(input)
         /\ \A u \in 1..Len(input) :
              /\ Backfill(v, t)[u].previous = input[u].previous
              /\ Backfill(v, t)[u].status = input[u].status
              /\ Backfill(v, t)[u].source = input[u].source
              /\ Backfill(v, t)[u].amount = input[u].amount
  <1>1. DOMAIN input = 1..Len(input)
    BY LenProperties
  <1>2. CASE v \in 1..Len(input)
    <2> DEFINE one == [input[v] EXCEPT !.known = TRUE, !.at = t]
    <2>1. input[v] \in Version
      BY <1>2, ElementOfSeq
    <2>2. /\ one \in Version /\ one.status = input[v].status /\ one.previous = input[v].previous
          /\ one.source = input[v].source /\ one.amount = input[v].amount
      BY <2>1 DEF Version
    <2>3. Backfill(v, t) = [input EXCEPT ![v] = one]
      BY <1>1, <1>2, <2>1 DEF Version, Backfill
    <2> HIDE DEF one
    <2>4. QED
      BY <1>2, <2>2, <2>3, Rewritten
  <1>3. CASE v \notin 1..Len(input)
    <2>1. Backfill(v, t) = input
      BY <1>1, <1>3 DEF Backfill
    <2>2. QED
      BY <2>1
  <1>4. QED
    BY <1>2, <1>3

LEMMA Appended ==
  ASSUME NEW s \in Seq(Version), NEW new \in Version
  PROVE  /\ Append(s, new) \in Seq(Version) /\ Len(Append(s, new)) = Len(s) + 1
         /\ Len(s) \in Nat
         /\ Append(s, new)[Len(s) + 1] = new
         /\ \A u \in 1..Len(s) : Append(s, new)[u] = s[u]
  OBVIOUS

\* A write that leaves the versions of the input alone.
Writes(c) ==
    \/ \E k \in Key : Replay(c, k) \/ AlreadySent(c, k)
    \/ Reopen(c) \/ Review(c) \/ Finalize(c) \/ EditUnpublished(c) \/ PersistWrite(c)

LEMMA WriteSteps ==
  ASSUME TypeOK, OneChain, NEW c \in Call, Writes(c)
  PROVE  /\ TypeOK' /\ Ends(c) /\ UNCHANGED <<input, assigned>>
         /\ \/ UNCHANGED expense
            \/ call[c].pc = "edit" /\ Live = 0 /\ expense'.at = call[c].at
            \/ call[c].pc = "overwrite" /\ expense'.amount = expense.amount
                 /\ expense'.at \in {expense.at, call[c].at}
  <1>1. /\ CallsTyped /\ call[c].at \in Nat /\ clock \in Nat /\ expense \in Expense
        /\ class \in Classification /\ answer \in [Key -> Nat]
    BY Held DEF TypeOK, CallsTyped
  <1>2. Ends(c) => CallsTyped' /\ clock' = clock
    BY <1>1, Ended
  <1>3. Live \in Nat
    BY LiveIsLast DEF TypeOK
  <1>4. ASSUME Ends(c), UNCHANGED <<input, assigned>>, expense' \in Expense,
               class' \in Classification, answer' \in [Key -> Nat]
        PROVE  TypeOK'
    BY <1>1, <1>2, <1>4 DEF TypeOK, CallsTyped
  <1>5. ASSUME NEW k \in Key, Replay(c, k) \/ AlreadySent(c, k)
        PROVE  /\ TypeOK' /\ Ends(c) /\ UNCHANGED <<expense, input, assigned>>
    <2>1. Ends(c) /\ UNCHANGED <<expense, class, input, assigned>>
          /\ \E v \in Nat : answer' = [answer EXCEPT ![k] = v]
      BY <1>1, <1>3, <1>5 DEF Replay, AlreadySent, Answering
    <2>2. answer' \in [Key -> Nat]
      BY <1>1, <2>1
    <2>3. QED
      BY <1>1, <1>4, <2>1, <2>2
  <1>6. CASE Reopen(c)
    <2>1. Ends(c) /\ UNCHANGED <<expense, input, assigned, answer>>
          /\ class' = [class EXCEPT !.status = "matched", !.sent = FALSE, !.at = call[c].at]
      BY <1>6 DEF Reopen, Unsend, UnsendAs
    <2>2. class' \in Classification
      BY <1>1, <2>1 DEF Classification, ReviewStatus
    <2>3. QED
      BY <1>1, <1>4, <2>1, <2>2
  <1>7. CASE Review(c)
    <2>1. Ends(c) /\ UNCHANGED <<expense, input, assigned, answer>>
          /\ \E s \in ReviewStatus : class' = [class EXCEPT !.status = s, !.at = call[c].at]
      BY <1>7 DEF Review
    <2>2. class' \in Classification
      BY <1>1, <2>1 DEF Classification
    <2>3. QED
      BY <1>1, <1>4, <2>1, <2>2
  <1>8. CASE Finalize(c)
    <2>1. Ends(c) /\ UNCHANGED <<expense, input, assigned, answer>>
          /\ class' = [class EXCEPT !.status = "finalized", !.at = call[c].at]
      BY <1>8 DEF Finalize
    <2>2. class' \in Classification
      BY <1>1, <2>1 DEF Classification, ReviewStatus
    <2>3. QED
      BY <1>1, <1>4, <2>1, <2>2
  <1>9. CASE EditUnpublished(c)
    <2>1. Ends(c) /\ UNCHANGED <<class, input, assigned, answer>> /\ call[c].pc = "edit" /\ Live = 0
          /\ expense' \in [amount : Amount, at : {call[c].at}]
      BY <1>9 DEF EditUnpublished
    <2>2. expense' \in Expense /\ expense'.at = call[c].at
      BY <1>1, <2>1 DEF Expense
    <2>3. QED
      BY <1>1, <1>4, <2>1, <2>2
  <1>10. CASE PersistWrite(c)
    <2>1. PICK s \in {"matched", call[c].held.status}, a \in Amount :
            class' = [status |-> s, amount |-> a, sent |-> call[c].held.sent, at |-> call[c].at]
      BY <1>10 DEF PersistWrite
    <2>2. Ends(c) /\ UNCHANGED <<input, assigned, answer>> /\ call[c].pc = "overwrite"
          /\ \E t \in {expense.at, call[c].at} : expense' = [expense EXCEPT !.at = t]
      BY <1>10 DEF PersistWrite
    <2>3. call[c].held \in Classification
      BY <1>1, <2>2, Held
    <2>4. class' \in Classification
      BY <1>1, <2>1, <2>3 DEF Classification, ReviewStatus
    <2>5. expense' \in Expense /\ expense'.amount = expense.amount
          /\ expense'.at \in {expense.at, call[c].at}
      BY <1>1, <2>2 DEF Expense
    <2>6. QED
      BY <1>1, <1>4, <2>2, <2>4, <2>5
  <1>11. QED
    BY <1>5, <1>6, <1>7, <1>8, <1>9, <1>10 DEF Writes, Reopen, Unsend, UnsendAs, Review, Finalize

LEMMA PublishSteps ==
  ASSUME TypeOK, OneChain, NEW c \in Call, NEW k \in Key, Publish(c, k)
  PROVE  /\ TypeOK' /\ Ends(c) /\ UNCHANGED expense
         /\ Live = 0 /\ call[c].pc = "publish"
         /\ Len(input') = Len(input) + 1
         /\ \A v \in 1..Len(input) : input'[v] = input[v]
         /\ input'[Len(input) + 1].previous = Len(input)
         /\ input'[Len(input) + 1].source = call[c].seen.at
         /\ input'[Len(input) + 1].amount <= call[c].seen.amount
  <1> DEFINE new == [status |-> "published", amount |-> class.amount, previous |-> Len(input),
                     source |-> call[c].seen.at, at |-> call[c].at, known |-> FALSE]
  <1>1. /\ CallsTyped /\ call[c].at \in Nat /\ call[c].seen \in Expense /\ clock \in Nat
        /\ class \in Classification /\ answer \in [Key -> Nat] /\ call[c].pc = "publish"
    BY Held DEF TypeOK, CallsTyped, Publish, PublishBy, Answering
  <1>2. /\ Live = 0 /\ Ends(c) /\ UNCHANGED <<expense, assigned>>
        /\ input' = Append(input, new)
        /\ class' = [class EXCEPT !.sent = TRUE, !.at = call[c].at]
        /\ answer' = [answer EXCEPT ![k] = Len(input) + 1]
        /\ class.amount <= call[c].seen.amount
    BY DEF Publish, PublishBy, Answering, Sendable
  <1>3. Len(input) \in Nat /\ input \in Seq(Version)
    BY LenProperties DEF TypeOK
  <1>4. /\ new \in Version /\ new.previous = Len(input) /\ new.source = call[c].seen.at
        /\ new.amount = class.amount
    BY <1>1, <1>3 DEF Version, Classification, Expense
  <1> HIDE DEF new
  <1>5. /\ input' \in Seq(Version) /\ Len(input') = Len(input) + 1
        /\ input'[Len(input) + 1] = new /\ \A v \in 1..Len(input) : input'[v] = input[v]
    <2>1. /\ Append(input, new) \in Seq(Version) /\ Len(Append(input, new)) = Len(input) + 1
          /\ Append(input, new)[Len(input) + 1] = new
          /\ \A v \in 1..Len(input) : Append(input, new)[v] = input[v]
      BY <1>3, <1>4, Appended
    <2>2. QED
      BY <1>2, <2>1
  <1>6. class' \in Classification /\ answer' \in [Key -> Nat]
    <2>1. class' \in Classification
      BY <1>1, <1>2 DEF Classification
    <2>2. answer' \in [Key -> Nat]
      BY <1>1, <1>2, <1>3
    <2>3. QED
      BY <2>1, <2>2
  <1>7. CallsTyped' /\ clock' = clock
    BY <1>1, <1>2, Ended
  <1>8. TypeOK'
    BY <1>1, <1>2, <1>5, <1>6, <1>7 DEF TypeOK, CallsTyped
  <1>9. QED
    BY <1>1, <1>2, <1>4, <1>5, <1>8

LEMMA WithdrawSteps ==
  ASSUME TypeOK, OneChain, NEW c \in Call, Withdraw(c)
  PROVE  /\ TypeOK' /\ Ends(c) /\ UNCHANGED expense
         /\ Live # 0 /\ ~InputHeld(Live)
         /\ Len(input') = Len(input)
         /\ \A v \in 1..Len(input) :
              /\ input'[v].previous = input[v].previous /\ input'[v].source = input[v].source
              /\ input'[v].status = IF v = Live THEN "withdrawn" ELSE input[v].status
  <1>1. CallsTyped /\ call[c].at \in Nat /\ class \in Classification /\ clock \in Nat
    BY Held DEF TypeOK, CallsTyped
  <1>2. /\ Live # 0 /\ ~InputHeld(Live) /\ Ends(c) /\ UNCHANGED <<expense, assigned, answer>>
        /\ input' = PullBack(Live, "withdrawn", call[c].at)
        /\ class' = [class EXCEPT !.status = "matched", !.sent = FALSE, !.at = call[c].at]
    BY DEF Withdraw, Unsend, UnsendAs, PullBack
  <1>3. input \in Seq(Version) /\ Live \in 1..Len(input)
    BY <1>2, LiveIsLast DEF TypeOK
  <1>4. /\ input' \in Seq(Version) /\ Len(input') = Len(input)
        /\ \A v \in 1..Len(input) :
             /\ input'[v].previous = input[v].previous /\ input'[v].source = input[v].source
             /\ input'[v].status = IF v = Live THEN "withdrawn" ELSE input[v].status
    BY <1>1, <1>2, <1>3, PulledBack
  <1>5. class' \in Classification
    BY <1>1, <1>2 DEF Classification, ReviewStatus
  <1>6. CallsTyped' /\ clock' = clock
    BY <1>1, <1>2, Ended
  <1>7. TypeOK'
    BY <1>1, <1>2, <1>4, <1>5, <1>6 DEF TypeOK, CallsTyped
  <1>8. QED
    BY <1>2, <1>4, <1>7

LEMMA EditSteps ==
  ASSUME ChainInv, NEW c \in Call, EditSync(c)
  PROVE  /\ TypeOK' /\ Ends(c) /\ call[c].pc = "sync"
         /\ Live # 0 /\ Live = Len(input)
         /\ expense'.at = call[c].at
         /\ Len(input') = Len(input) + 1
         /\ \A v \in 1..Len(input) :
              /\ input'[v].previous = input[v].previous /\ input'[v].source = input[v].source
              /\ input'[v].status = IF v = Live THEN "superseded" ELSE input[v].status
         /\ input'[Len(input) + 1].previous = Len(input)
         /\ input'[Len(input) + 1].source = call[c].at
         /\ input'[Len(input) + 1].amount = expense'.amount
  <1> DEFINE me == call[c]
             pulled == PullBack(me.version, "superseded", me.at)
             new == [status |-> "published", amount |-> me.amount, previous |-> me.version,
                     source |-> me.at, at |-> me.at, known |-> FALSE]
  <1>1. /\ CallsTyped /\ me.at \in Nat /\ me.amount \in Amount /\ me.pc = "sync"
        /\ class \in Classification /\ clock \in Nat
    BY Held DEF ChainInv, TypeOK, CallsTyped, EditSync, EditBy
  <1>2. /\ Ends(c) /\ UNCHANGED answer
        /\ expense' = [amount |-> me.amount, at |-> me.at]
        /\ class' = [class EXCEPT !.amount = me.amount, !.at = me.at]
        /\ input' = Append(pulled, new)
    BY DEF EditSync, EditBy, PullBack
  <1>3. PICK copy \in Copies(me.version, Len(input) + 1) : assigned' = assigned \cup copy
    BY DEF EditSync, EditBy
  <1>4. /\ input \in Seq(Version) /\ Len(input) \in Nat
        /\ Live # 0 /\ Live = Len(input) /\ me.version = Len(input) /\ me.version \in 1..Len(input)
    BY <1>1, LiveIsLast DEF ChainInv, TypeOK, EditsLive
  <1>5. /\ pulled \in Seq(Version) /\ Len(pulled) = Len(input)
        /\ \A v \in 1..Len(input) :
             /\ pulled[v].previous = input[v].previous /\ pulled[v].source = input[v].source
             /\ pulled[v].status = IF v = Live THEN "superseded" ELSE input[v].status
    <2>1. me.version = Live /\ me.version \in 1..Len(input) /\ me.at \in Nat
      BY <1>1, <1>4
    <2>2. pulled \in Seq(Version) /\ Len(pulled) = Len(input)
      BY <1>4, <2>1, PulledBack
    <2>3. ASSUME NEW v \in 1..Len(input)
          PROVE  /\ pulled[v].previous = input[v].previous /\ pulled[v].source = input[v].source
                 /\ pulled[v].status = IF v = Live THEN "superseded" ELSE input[v].status
      <3>1. pulled[v].previous = input[v].previous /\ pulled[v].source = input[v].source
        BY <1>4, <2>1, PulledBack
      <3>2. pulled[v].status = IF v = me.version THEN "superseded" ELSE input[v].status
        BY <1>4, <2>1, PulledBack
      <3>3. QED
        BY <2>1, <3>1, <3>2
    <2>4. QED
      BY <2>2, <2>3
  <1>6. /\ new \in Version /\ new.previous = Len(input) /\ new.source = me.at /\ new.amount = me.amount
    BY <1>1, <1>4 DEF Version
  <1>7. /\ expense' \in Expense /\ expense'.at = me.at /\ expense'.amount = me.amount
        /\ class' \in Classification
    BY <1>1, <1>2 DEF Expense, Classification
  <1>8. assigned' \in SUBSET Assignment
    <2>1. \A a \in Assigned(me.version) : [a EXCEPT !.version = Len(input) + 1] \in Assignment
      BY <1>4 DEF Assigned, ChainInv, TypeOK, Assignment
    <2>2. copy \in {{}, {[a EXCEPT !.version = Len(input) + 1] : a \in Assigned(me.version)}}
      BY <1>3 DEF Copies
    <2>3. copy \subseteq Assignment
      BY <2>1, <2>2
    <2>4. QED
      BY <1>3, <2>3 DEF ChainInv, TypeOK
  <1> HIDE DEF pulled, new
  <1>9. /\ input' \in Seq(Version) /\ Len(input') = Len(input) + 1
        /\ input'[Len(input) + 1] = new /\ \A v \in 1..Len(input) : input'[v] = pulled[v]
    BY <1>2, <1>5, <1>6, Appended
  <1>10. CallsTyped' /\ clock' = clock
    BY <1>1, <1>2, Ended
  <1>11. TypeOK'
    BY <1>1, <1>2, <1>7, <1>8, <1>9, <1>10 DEF ChainInv, TypeOK, CallsTyped
  <1>12. QED
    BY <1>1, <1>2, <1>4, <1>5, <1>6, <1>7, <1>9, <1>11

LEMMA CommitSteps ==
  ASSUME TypeOK, NEW c \in Call, AssignCommit(c)
  PROVE  /\ TypeOK' /\ Ends(c) /\ UNCHANGED expense
         /\ Len(input') = Len(input)
         /\ \A v \in 1..Len(input) :
              /\ input'[v].previous = input[v].previous /\ input'[v].status = input[v].status
              /\ input'[v].source = input[v].source /\ input'[v].amount = input[v].amount
  <1>1. CallsTyped /\ call[c].at \in Nat /\ call[c].row \in Assignment /\ clock \in Nat
    BY Held DEF TypeOK, CallsTyped, AssignCommit
  <1>2. /\ Ends(c) /\ UNCHANGED <<expense, class, answer>>
        /\ assigned' = assigned \cup {call[c].row}
        /\ input' \in {input, Backfill(call[c].row.version, call[c].at)}
    BY DEF AssignCommit, Backfill
  <1>3. /\ input' \in Seq(Version) /\ Len(input') = Len(input)
        /\ \A v \in 1..Len(input) :
             /\ input'[v].previous = input[v].previous /\ input'[v].status = input[v].status
             /\ input'[v].source = input[v].source /\ input'[v].amount = input[v].amount
    BY <1>1, <1>2, Backfilled DEF TypeOK
  <1>4. CallsTyped' /\ clock' = clock
    BY <1>1, <1>2, Ended
  <1>5. TypeOK'
    BY <1>1, <1>2, <1>3, <1>4 DEF TypeOK, CallsTyped
  <1>6. QED
    BY <1>2, <1>3, <1>5

LEMMA Cases ==
  ASSUME NEW c \in Call, CallNext(c)
  PROVE  \/ Quietly(c) \/ Writes(c) \/ (\E k \in Key : Publish(c, k)) \/ Withdraw(c)
         \/ EditSync(c) \/ AssignCommit(c)
  BY DEF CallNext, SendNext, Quietly, Writes

-----------------------------------------------------------------------------
(* One chain *)

\* The locks after a step that ends a transaction.
LEMMA LocksEnd ==
  ASSUME OneEditor, NEW c \in Call, call'[c].pc = "idle",
         \A d \in Call \ {c} : call'[d] = call[d]
  PROVE  OneEditor'
  BY DEF OneEditor

LEMMA NextChain == ChainInv /\ [Next]_vars => ChainInv'
  <1> SUFFICES ASSUME ChainInv, [Next]_vars PROVE ChainInv'
    OBVIOUS
  <1>1. CASE UNCHANGED vars
    <2>1. TypeOK'
      BY <1>1 DEF vars, ChainInv, TypeOK, IsOpen
    <2>2. Live' = Live
      BY <1>1, LiveStays DEF vars
    <2>3. QED
      BY <1>1, <2>1, <2>2 DEF vars, ChainInv, OneChain, OneEditor, EditsLive
  <1>2. ASSUME NEW c \in Call, CallNext(c)
        PROVE  ChainInv'
    <2>1. TypeOK /\ OneChain /\ OneEditor /\ EditsLive /\ CallsTyped
      BY DEF ChainInv, TypeOK, CallsTyped
    <2>2. Len(input) \in Nat
      BY <2>1, LenProperties DEF TypeOK
    <2>3. Ends(c) => /\ call'[c].pc = "idle" /\ OneEditor'
                     /\ \A d \in Call \ {c} : call'[d] = call[d]
      BY <2>1, Ended, LocksEnd
    <2>4. CASE Quietly(c)
      <3>1. /\ UNCHANGED rows /\ CallsTyped' /\ \A d \in Call \ {c} : call'[d] = call[d]
            /\ call'[c].pc \in {"sync", "overwrite"} => ExpenseFree
            /\ call'[c].pc = "sync" => Live # 0 /\ call'[c].version = Live
            /\ clock' \in Nat
        <4>1. "sync" \notin Procedure /\ "overwrite" \notin Procedure
          BY DEF Procedure
        <4>2. QED
          BY <2>1, <2>4, <4>1, QuietSteps DEF TypeOK
      <3>2. Live' = Live
        BY <3>1, LiveStays DEF rows
      <3>3. TypeOK' /\ OneChain'
        BY <2>1, <3>1 DEF TypeOK, CallsTyped, OneChain, rows
      <3>4. EditsLive'
        BY <2>1, <3>1, <3>2 DEF EditsLive
      <3>5. OneEditor'
        BY <2>1, <3>1 DEF OneEditor, ExpenseFree, Holds
      <3>6. QED
        BY <3>3, <3>4, <3>5 DEF ChainInv
    <2>5. CASE Writes(c)
      <3>1. TypeOK' /\ Ends(c) /\ input' = input
        BY <2>1, <2>5, WriteSteps
      <3>2. OneChain' /\ Live' = Live
        BY <2>1, <3>1, LiveStays DEF OneChain
      <3>3. EditsLive'
        BY <2>1, <2>3, <3>1, <3>2 DEF EditsLive
      <3>4. QED
        BY <2>3, <3>1, <3>2, <3>3 DEF ChainInv
    <2>6. CASE AssignCommit(c)
      <3>1. /\ TypeOK' /\ Ends(c) /\ Len(input') = Len(input)
            /\ \A v \in 1..Len(input) :
                 input'[v].previous = input[v].previous /\ input'[v].status = input[v].status
        BY <2>1, <2>6, CommitSteps
      <3>2. OneChain' /\ Live' = Live
        BY <2>1, <3>1 DEF OneChain, Live
      <3>3. EditsLive'
        BY <2>1, <2>3, <3>1, <3>2 DEF EditsLive
      <3>4. QED
        BY <2>3, <3>1, <3>2, <3>3 DEF ChainInv
    <2>7. ASSUME NEW k \in Key, Publish(c, k)
          PROVE  ChainInv'
      <3>1. /\ TypeOK' /\ Ends(c) /\ Live = 0
            /\ Len(input') = Len(input) + 1
            /\ \A v \in 1..Len(input) : input'[v] = input[v]
            /\ input'[Len(input) + 1].previous = Len(input)
        BY <2>1, <2>7, PublishSteps
      <3>2. \A v \in 1..Len(input) : input[v].previous = v - 1 /\ input[v].status # "published"
        BY <2>1, <3>1, LiveIsLast DEF OneChain, TypeOK
      <3>3. OneChain'
        BY <2>2, <3>1, <3>2 DEF OneChain
      <3>4. EditsLive'
        BY <2>1, <2>3, <3>1 DEF EditsLive
      <3>5. QED
        BY <2>3, <3>1, <3>3, <3>4 DEF ChainInv
    <2>8. CASE Withdraw(c)
      <3>1. /\ TypeOK' /\ Ends(c) /\ Live # 0 /\ ~InputHeld(Live)
            /\ Len(input') = Len(input)
            /\ \A v \in 1..Len(input) :
                 /\ input'[v].previous = input[v].previous
                 /\ input'[v].status = IF v = Live THEN "withdrawn" ELSE input[v].status
        BY <2>1, <2>8, WithdrawSteps
      <3>2. OneChain'
        BY <2>1, <3>1 DEF OneChain
      <3>3. \A d \in Call : call[d].pc # "sync"
        BY <2>1, <3>1 DEF EditsLive, InputHeld
      <3>4. EditsLive'
        BY <2>3, <3>1, <3>3 DEF EditsLive
      <3>5. QED
        BY <2>3, <3>1, <3>2, <3>4 DEF ChainInv
    <2>9. CASE EditSync(c)
      <3>1. /\ TypeOK' /\ Ends(c) /\ call[c].pc = "sync" /\ Live = Len(input)
            /\ Len(input') = Len(input) + 1
            /\ \A v \in 1..Len(input) :
                 /\ input'[v].previous = input[v].previous
                 /\ input'[v].status = IF v = Live THEN "superseded" ELSE input[v].status
            /\ input'[Len(input) + 1].previous = Len(input)
        BY <2>9, EditSteps
      <3>2. \A v \in 1..Len(input) :
               /\ input[v].previous = v - 1
               /\ input[v].status = "published" => v = Len(input)
        BY <2>1 DEF OneChain
      <3>3. OneChain'
        BY <2>2, <3>1, <3>2 DEF OneChain
      <3>4. \A d \in Call \ {c} : call[d].pc # "sync"
        BY <2>1, <3>1 DEF OneEditor
      <3>5. EditsLive'
        BY <2>3, <3>1, <3>4 DEF EditsLive
      <3>6. QED
        BY <2>3, <3>1, <3>3, <3>5 DEF ChainInv
    <2>10. QED
      BY <1>2, <2>4, <2>5, <2>6, <2>7, <2>8, <2>9, Cases
  <1>3. QED
    BY <1>1, <1>2 DEF Next

LEMMA InitChain == Init => ChainInv
  <1> SUFFICES ASSUME Init PROVE ChainInv
    OBVIOUS
  <1>1. input = <<>> /\ input \in Seq(Version) /\ Len(input) = 0
    BY EmptySeq DEF Init
  <1>2. expense \in Expense /\ class \in Classification /\ answer \in [Key -> Nat]
    BY DEF Init, Expense, Classification, ReviewStatus
  <1>3. CallsTyped /\ \A c \in Call : call[c].pc = "idle"
    BY DEF Init, CallsTyped, Idle
  <1>4. TypeOK
    BY <1>1, <1>2, <1>3 DEF Init, TypeOK, CallsTyped
  <1>5. OneChain /\ OneEditor /\ EditsLive
    BY <1>1, <1>3 DEF OneChain, OneEditor, EditsLive
  <1>6. QED
    BY <1>4, <1>5 DEF ChainInv

LEMMA AlwaysChain == Spec => []ChainInv
  BY InitChain, NextChain, PTL DEF Spec

\* The state is well-typed.
THEOREM TypeCorrect == Spec => []TypeOK
  <1>1. ChainInv => TypeOK
    BY DEF ChainInv
  <1>2. QED
    BY <1>1, AlwaysChain, PTL

\* The versions of an input are one chain of which only the last is published,
\* whichever publications, withdrawals, reopenings and edits overlap.
THEOREM OneCurrent == Spec => []OneChain
  <1>1. ChainInv => OneChain
    BY DEF ChainInv
  <1>2. QED
    BY <1>1, AlwaysChain, PTL

\* What was pulled back is never published again.
THEOREM StaysPulledBack == Spec => PulledBackStays
  <1>1. ChainInv /\ [Next]_vars =>
          [\A v \in 1..Len(input) : input[v].status # "published" =>
              input'[v].status = input[v].status]_vars
    <2> SUFFICES ASSUME ChainInv, NEW c \in Call, CallNext(c),
                        NEW v \in 1..Len(input), input[v].status # "published"
                 PROVE  input'[v].status = input[v].status
      BY DEF Next
    <2>1. TypeOK /\ OneChain
      BY DEF ChainInv
    <2>2. Live # 0 => v # Live
      BY <2>1, LiveIsLast DEF TypeOK
    <2>3. CASE Quietly(c)
      BY <2>1, <2>3, QuietSteps DEF rows
    <2>4. CASE Writes(c)
      BY <2>1, <2>4, WriteSteps
    <2>5. ASSUME NEW k \in Key, Publish(c, k) PROVE input'[v].status = input[v].status
      BY <2>1, <2>5, PublishSteps
    <2>6. CASE Withdraw(c)
      BY <2>1, <2>2, <2>6, WithdrawSteps
    <2>7. CASE EditSync(c)
      BY <2>2, <2>7, EditSteps
    <2>8. CASE AssignCommit(c)
      BY <2>1, <2>8, CommitSteps
    <2>9. QED
      BY <2>3, <2>4, <2>5, <2>6, <2>7, <2>8, Cases
  <1>2. QED
    BY <1>1, AlwaysChain, PTL DEF Spec, PulledBackStays

-----------------------------------------------------------------------------
(* Source stamps *)

LEMMA BusyWriters ==
  ASSUME NEW c \in Call,
         Writes(c) \/ (\E k \in Key : Publish(c, k)) \/ Withdraw(c) \/ EditSync(c) \/ AssignCommit(c)
  PROVE  call[c].pc # "idle"
  BY DEF Writes, Replay, AlreadySent, Answering, Reopen, Unsend, UnsendAs, Review, Finalize,
         EditUnpublished, PersistWrite, Publish, PublishBy, Withdraw, EditSync, EditBy, AssignCommit

\* What a transaction writes is stamped with its own time, or with what a
\* publication has read of the expense.
LEMMA WriterTimes ==
  ASSUME ChainInv, StaleInv, NEW c \in Call, call[c].pc # "idle", Ends(c),
         expense'.at = call[c].at
           \/ (expense'.at = expense.at /\ expense'.amount = expense.amount),
         \A v \in 1..Len(input') :
            \/ \E u \in 1..Len(input) : input'[v].source = input[u].source
            \/ input'[v].source = call[c].at
            \/ call[c].pc = "publish" /\ input'[v].source = call[c].seen.at
  PROVE  OwnTimes' /\ NoFuture' /\ SeenTruly'
  <1>1. CallsTyped /\ clock \in Nat /\ call[c].at \in Nat
    BY Held DEF ChainInv, TypeOK, CallsTyped
  <1>2. /\ call'[c].pc = "idle" /\ clock' = clock /\ \A d \in Call \ {c} : call'[d] = call[d]
    BY <1>1, Ended
  <1>3. call[c].at <= clock /\ Unstamped(call[c].at)
        /\ \A d \in Call \ {c} : call[d].pc # "idle" => call[d].at # call[c].at
    BY DEF StaleInv, OwnTimes
  <1>4. ASSUME NEW t, t # call[c].at, Unstamped(t)
        PROVE  Unstamped(t)'
    BY <1>2, <1>4 DEF Unstamped
  <1>5. OwnTimes'
    <2> SUFFICES ASSUME NEW d \in Call, call'[d].pc # "idle"
                 PROVE  /\ call'[d].at <= clock' /\ Unstamped(call[d].at)'
                        /\ \A e \in Call : call'[e].pc # "idle" /\ call'[e].at = call'[d].at => d = e
      BY DEF OwnTimes
    <2>1. d # c /\ call'[d] = call[d]
      BY <1>2
    <2>2. /\ call[d].at <= clock /\ Unstamped(call[d].at)
          /\ \A e \in Call : call[e].pc # "idle" /\ call[e].at = call[d].at => d = e
      BY <2>1 DEF StaleInv, OwnTimes
    <2>3. Unstamped(call[d].at)'
      <3> DEFINE t == call[d].at
      <3>1. t # call[c].at /\ Unstamped(t)
        BY <1>3, <2>1, <2>2
      <3> HIDE DEF t
      <3>2. t' = t
        BY <2>1 DEF t
      <3>3. Unstamped(t)'
        BY <1>2, <3>1, <3>2 DEF Unstamped
      <3>4. QED
        BY <3>3 DEF t
    <2>4. QED
      BY <1>2, <2>1, <2>2, <2>3
  <1>6. NoFuture'
    <2> SUFFICES ASSUME NEW t \in Nat, t > clock
                 PROVE  Unstamped(t)'
      BY <1>2 DEF NoFuture
    <2>1. Unstamped(t) /\ t # call[c].at
      BY <1>1, <1>3 DEF StaleInv, NoFuture
    <2>2. QED
      BY <1>2, <2>1 DEF Unstamped
  <1>7. SeenTruly'
    <2> SUFFICES ASSUME NEW d \in Call, call'[d].pc = "publish", call'[d].seen.at = expense'.at
                 PROVE  call'[d].seen.amount = expense'.amount
      BY DEF SeenTruly
    <2>1. d # c /\ call'[d] = call[d]
      BY <1>2
    <2>2. call[d].seen.at # call[c].at
      BY <1>3, <2>1 DEF Unstamped
    <2>3. QED
      BY <2>1, <2>2 DEF StaleInv, SeenTruly
  <1>8. QED
    BY <1>5, <1>6, <1>7

\* Taking and leaving locks stamps nothing: a new transaction has a new time, and
\* what a publication reads of the expense is so when it reads it.
LEMMA QuietTimes ==
  ASSUME ChainInv, StaleInv, NEW c \in Call, Quietly(c)
  PROVE  OwnTimes' /\ NoFuture' /\ SeenTruly'
  <1> DEFINE Rest ==
        \/ call'[c].pc = "idle" /\ clock' = clock
        \/ /\ call[c].pc = "idle" /\ clock' = clock + 1 /\ call'[c].at = clock + 1
           /\ call'[c].pc # "publish"
        \/ /\ call[c].pc # "idle" /\ clock' = clock /\ call'[c].at = call[c].at
  <1>1. /\ UNCHANGED rows /\ \A d \in Call \ {c} : call'[d] = call[d]
        /\ call'[c].pc = "publish" => call'[c].seen = expense
        /\ Rest
    <2>1. "publish" \notin Procedure
      BY DEF Procedure
    <2>2. QED
      BY <2>1, QuietSteps DEF ChainInv
  <1>2. clock \in Nat /\ \A d \in Call : call[d].at \in Nat
    BY Held DEF ChainInv, TypeOK, CallsTyped
  <1>3. OwnTimes /\ NoFuture /\ SeenTruly
    BY DEF StaleInv
  <1>4. expense' = expense /\ input' = input
    BY <1>1 DEF rows
  <1>5. clock' \in Nat /\ clock' >= clock
    BY <1>1, <1>2
  <1> HIDE DEF Rest
  <1>6. ASSUME NEW d \in Call, call'[d].pc = "publish"
        PROVE  \/ call'[d].seen = expense
               \/ call[d].pc = "publish" /\ call'[d].seen = call[d].seen
    BY <1>1, <1>6
  <1>7. NoFuture'
    <2> SUFFICES ASSUME NEW t \in Nat, t > clock' PROVE Unstamped(t)'
      BY DEF NoFuture
    <2>1. Unstamped(t)
      BY <1>2, <1>3, <1>5 DEF NoFuture
    <2>2. QED
      BY <1>4, <1>6, <2>1 DEF Unstamped
  <1>8. SeenTruly'
    BY <1>3, <1>4, <1>6 DEF SeenTruly
  <1>9. ASSUME NEW d \in Call, call'[d].pc # "idle"
        PROVE  /\ call'[d].at <= clock' /\ call'[d].at \in Nat
               /\ Unstamped(call'[d].at)
               /\ \/ d = c /\ call'[d].at = clock + 1
                  \/ call[d].pc # "idle" /\ call'[d].at = call[d].at
    <2>1. CASE call[d].pc # "idle" /\ call'[d].at = call[d].at
      BY <1>2, <1>3, <1>5, <2>1 DEF OwnTimes
    <2>2. CASE d = c /\ call'[d].at = clock + 1 /\ clock' = clock + 1
      <3>1. clock + 1 \in Nat /\ clock + 1 > clock
        BY <1>2
      <3>2. Unstamped(clock + 1)
        BY <1>3, <3>1 DEF NoFuture
      <3>3. QED
        BY <2>2, <3>1, <3>2
    <2>3. QED
      BY <1>1, <1>9, <2>1, <2>2 DEF Rest
  <1>10. OwnTimes'
    <2> SUFFICES ASSUME NEW d \in Call, call'[d].pc # "idle"
                 PROVE  /\ call'[d].at <= clock' /\ Unstamped(call[d].at)'
                        /\ \A e \in Call : call'[e].pc # "idle" /\ call'[e].at = call'[d].at => d = e
      BY DEF OwnTimes
    <2>1. call'[d].at <= clock' /\ Unstamped(call'[d].at)
      BY <1>9
    <2>2. Unstamped(call[d].at)'
      <3> DEFINE t == call[d].at
      <3>1. Unstamped(t')
        BY <2>1
      <3>2. Unstamped(t)'
        BY <1>4, <1>6, <3>1 DEF Unstamped
      <3>3. QED
        BY <3>2
    <2>3. ASSUME NEW e \in Call, call'[e].pc # "idle", call'[e].at = call'[d].at
          PROVE  d = e
      <3>1. \/ d = c /\ call'[d].at = clock + 1
            \/ call[d].pc # "idle" /\ call'[d].at = call[d].at
        BY <1>9
      <3>2. \/ e = c /\ call'[e].at = clock + 1
            \/ call[e].pc # "idle" /\ call'[e].at = call[e].at
        BY <1>9, <2>3
      <3>3. \A f \in Call : call[f].pc # "idle" => call[f].at # clock + 1
        BY <1>2, <1>3 DEF OwnTimes
      <3>4. QED
        BY <1>3, <2>3, <3>1, <3>2, <3>3 DEF OwnTimes
    <2>4. QED
      BY <2>1, <2>2, <2>3
  <1>11. QED
    BY <1>7, <1>8, <1>10

\* After a step too.
LEMMA LiveNext ==
  ASSUME ChainInv'
  PROVE  /\ Len(input') \in Nat /\ Live' \in {0, Len(input')}
         /\ Live' # 0 => input'[Len(input')].status = "published"
  <1>1. input' \in Seq(Version) /\ Chained(input') /\ Live' = LiveOf(input')
    BY DEF ChainInv, TypeOK, OneChain, Chained, Live, LiveOf
  <1>2. QED
    BY <1>1, LastOfChain

LEMMA NextStale == ChainInv /\ StaleInv /\ [Next]_vars => StaleInv'
  <1> SUFFICES ASSUME ChainInv, StaleInv, [Next]_vars PROVE StaleInv'
    OBVIOUS
  <1>1. ChainInv' /\ TypeOK /\ OneChain /\ StaleSourceShows
    BY NextChain DEF ChainInv, StaleInv
  <1>2. /\ input \in Seq(Version) /\ expense \in Expense /\ expense.amount \in Nat
        /\ \A v \in 1..Len(input) : input[v] \in Version /\ input[v].amount \in Nat
    <2>1. Amount \subseteq Nat
      BY InputAssumption
    <2>2. input \in Seq(Version) /\ expense \in Expense /\ expense.amount \in Nat
      BY <1>1, <2>1 DEF TypeOK, Expense
    <2>3. \A v \in 1..Len(input) : input[v] \in Version
      BY <2>2, ElementOfSeq
    <2>4. \A v \in 1..Len(input) : input[v].amount \in Nat
      BY <2>1, <2>3 DEF Version
    <2>5. QED
      BY <2>2, <2>3, <2>4
  <1>3. /\ Len(input) \in Nat /\ Live \in {0, Len(input)}
        /\ Live # 0 => input[Len(input)].status = "published"
        /\ Live = 0 => \A v \in 1..Len(input) : input[v].status # "published"
    BY <1>1, <1>2, LiveIsLast
  <1>4. /\ Len(input') \in Nat /\ Live' \in {0, Len(input')}
        /\ Live' # 0 => input'[Len(input')].status = "published"
    BY <1>1, LiveNext
  <1>5. CASE UNCHANGED vars
    <2>1. Live' = Live
      BY <1>5, LiveStays DEF vars
    <2>2. OwnTimes' /\ NoFuture' /\ SeenTruly'
      BY <1>5 DEF StaleInv, OwnTimes, NoFuture, SeenTruly, Unstamped, vars
    <2>3. QED
      BY <1>1, <1>5, <2>1, <2>2 DEF StaleInv, StaleSourceShows, vars
  <1>6. ASSUME NEW c \in Call, CallNext(c) PROVE StaleInv'
    <2>1. CASE Quietly(c)
      <3>1. UNCHANGED rows
        BY <1>1, <2>1, QuietSteps
      <3>2. StaleSourceShows'
        BY <1>1, <3>1, LiveStays DEF rows, StaleSourceShows
      <3>3. QED
        BY <2>1, <3>2, QuietTimes DEF StaleInv
    <2>2. call[c].pc # "idle" => Unstamped(call[c].at)
      BY DEF StaleInv, OwnTimes
    <2>3. CASE Writes(c)
      <3>1. /\ Ends(c) /\ input' = input /\ call[c].pc # "idle"
            /\ \/ UNCHANGED expense
               \/ call[c].pc = "edit" /\ Live = 0 /\ expense'.at = call[c].at
               \/ call[c].pc = "overwrite" /\ expense'.amount = expense.amount
                    /\ expense'.at \in {expense.at, call[c].at}
        BY <1>1, <2>3, WriteSteps, BusyWriters
      <3>2. OwnTimes' /\ NoFuture' /\ SeenTruly'
        BY <3>1, WriterTimes
      <3>3. Live' = Live
        BY <3>1, LiveStays
      <3>4. Live # 0 => input[Live].source # call[c].at
        BY <1>3, <2>2, <3>1 DEF Unstamped
      <3>5. StaleSourceShows'
        BY <1>1, <3>1, <3>3, <3>4 DEF StaleSourceShows
      <3>6. QED
        BY <3>2, <3>5 DEF StaleInv
    <2>4. ASSUME NEW k \in Key, Publish(c, k) PROVE StaleInv'
      <3>1. /\ Ends(c) /\ UNCHANGED expense /\ call[c].pc = "publish" /\ Live = 0
            /\ Len(input') = Len(input) + 1
            /\ \A v \in 1..Len(input) : input'[v] = input[v]
            /\ input'[Len(input) + 1].source = call[c].seen.at
            /\ input'[Len(input) + 1].amount <= call[c].seen.amount
        BY <1>1, <2>4, PublishSteps
      <3>2. \A v \in 1..Len(input') :
              (\E u \in 1..Len(input) : input'[v].source = input[u].source)
                \/ input'[v].source = call[c].seen.at
        BY <1>3, <3>1
      <3>3. OwnTimes' /\ NoFuture' /\ SeenTruly'
        BY <3>1, <3>2, WriterTimes
      <3>4. call[c].seen.at = expense.at => call[c].seen.amount = expense.amount
        BY <3>1 DEF StaleInv, SeenTruly
      <3>5. StaleSourceShows'
        BY <1>4, <3>1, <3>4 DEF StaleSourceShows
      <3>6. QED
        BY <3>3, <3>5 DEF StaleInv
    <2>5. CASE Withdraw(c)
      <3>1. /\ Ends(c) /\ UNCHANGED expense /\ call[c].pc # "idle" /\ Live # 0
            /\ Len(input') = Len(input)
            /\ \A v \in 1..Len(input) :
                 /\ input'[v].source = input[v].source
                 /\ input'[v].status = IF v = Live THEN "withdrawn" ELSE input[v].status
        BY <1>1, <2>5, WithdrawSteps, BusyWriters
      <3>2. OwnTimes' /\ NoFuture' /\ SeenTruly'
        BY <3>1, WriterTimes
      <3>3. Live' = 0
        BY <1>3, <1>4, <3>1
      <3>4. QED
        BY <3>2, <3>3 DEF StaleInv, StaleSourceShows
    <2>6. CASE EditSync(c)
      <3>1. /\ Ends(c) /\ call[c].pc # "idle" /\ expense'.at = call[c].at
            /\ Len(input') = Len(input) + 1
            /\ \A v \in 1..Len(input) : input'[v].source = input[v].source
            /\ input'[Len(input) + 1].source = call[c].at
            /\ input'[Len(input) + 1].amount = expense'.amount
        BY <2>6, EditSteps, BusyWriters
      <3>2. \A v \in 1..Len(input') :
              (\E u \in 1..Len(input) : input'[v].source = input[u].source)
                \/ input'[v].source = call[c].at
        BY <1>3, <3>1
      <3>3. OwnTimes' /\ NoFuture' /\ SeenTruly'
        BY <3>1, <3>2, WriterTimes
      <3>4. expense'.amount \in Nat
        BY <1>1, InputAssumption DEF ChainInv, TypeOK, Expense
      <3>5. StaleSourceShows'
        BY <1>4, <3>1, <3>4 DEF StaleSourceShows
      <3>6. QED
        BY <3>3, <3>5 DEF StaleInv
    <2>7. CASE AssignCommit(c)
      <3>1. /\ Ends(c) /\ UNCHANGED expense /\ call[c].pc # "idle"
            /\ Len(input') = Len(input)
            /\ \A v \in 1..Len(input) :
                 /\ input'[v].status = input[v].status
                 /\ input'[v].source = input[v].source /\ input'[v].amount = input[v].amount
        BY <1>1, <2>7, CommitSteps, BusyWriters
      <3>2. OwnTimes' /\ NoFuture' /\ SeenTruly'
        BY <3>1, WriterTimes
      <3>3. Live' # 0 => Live' = Live
        BY <1>3, <1>4, <3>1
      <3>4. StaleSourceShows'
        BY <1>1, <1>3, <3>1, <3>3 DEF StaleSourceShows
      <3>5. QED
        BY <3>2, <3>4 DEF StaleInv
    <2>8. QED
      BY <1>6, <2>1, <2>3, <2>4, <2>5, <2>6, <2>7, Cases
  <1>7. QED
    BY <1>5, <1>6 DEF Next

LEMMA InitStale == Init => StaleInv
  <1> SUFFICES ASSUME Init PROVE StaleInv
    OBVIOUS
  <1>1. /\ input = <<>> /\ Len(input) = 0 /\ clock = 0 /\ expense.at = 0
        /\ \A c \in Call : call[c].pc = "idle"
    BY EmptySeq DEF Init, Idle
  <1>2. Live = 0
    BY <1>1 DEF Live
  <1>3. QED
    BY <1>1, <1>2 DEF StaleInv, OwnTimes, NoFuture, SeenTruly, StaleSourceShows, Unstamped

\* A published input that claims more than its expense can be told by its source
\* stamp, however the publication and the changes of the expense overlap.
THEOREM StaleShown == Spec => []StaleSourceShows
  <1>1. StaleInv => StaleSourceShows
    BY DEF StaleInv
  <1>2. QED
    BY <1>1, AlwaysChain, InitStale, NextStale, PTL DEF Spec

=============================================================================
