---------------------------- MODULE Reminders_proofs ----------------------------
(***************************************************************************)
(* Theorems about Reminders, for any obligations, recipients, runs, window  *)
(* and milestones: types, with a message taken at most once for each run    *)
(* that was started; that what is closed stays quiet; that a run with the   *)
(* time to itself repeats nothing that is recorded as sent; and that a run  *)
(* in which nothing goes wrong has told everybody when it ends.             *)
(***************************************************************************)
EXTENDS Reminders, FiniteSetTheorems, TLAPS

-----------------------------------------------------------------------------
(* Runs *)

Status == {"absent", "open", "overdue"} \cup Terminal

Typed ==
    /\ today \in 0..MaxDay /\ starts \in 0..MaxStarts
    /\ active \subseteq Obligation
    /\ occurrence \in [Obligation -> Status]
    /\ run \in [Run -> RunRecord]
    /\ notified \subseteq Obligation \X Milestone \X Recipient
    /\ delivery \in [Key -> {"absent", "sent", "failed", "skipped"}]
    /\ accepted \in [Key -> Nat]

\* What a step of a run does to another one: only its history changes.
Kept(k) ==
    /\ run'[k].pc = run[k].pc /\ run'[k].day = run[k].day
    /\ run'[k].rows = run[k].rows /\ run'[k].todo = run[k].todo
    /\ run'[k].about = run[k].about /\ run'[k].to = run[k].to
    /\ run'[k].left = run[k].left
    /\ run'[k].channel = run[k].channel
    /\ run'[k].seen = run[k].seen /\ run'[k].result = run[k].result
    /\ run[k].asked \subseteq run'[k].asked
    /\ run'[k].alone => run[k].alone
    /\ run'[k].clean => run[k].clean

\* Rows are never taken away, nor messages the provider has taken.
Grows ==
    /\ \A o \in Obligation : occurrence[o] # "absent" => occurrence'[o] # "absent"
    /\ notified \subseteq notified'
    /\ \A d \in Key : accepted[d] <= accepted'[d]

\* A step of run r that keeps its day and its history, except that it may end or
\* go wrong.
Goes(r) ==
    /\ Typed' /\ Grows
    /\ \A k \in Run \ {r} : Kept(k)
    /\ run[r] \in RunRecord /\ run'[r] \in RunRecord
    /\ run'[r].pc # "idle" =>
         /\ run'[r].day = run[r].day /\ run'[r].asked = run[r].asked
         /\ run'[r].alone = run[r].alone /\ (run'[r].clean => run[r].clean)

LEMMA GoesTo ==
  ASSUME Typed, NEW r \in Run, NEW new \in RunRecord, run' = [run EXCEPT ![r] = new],
         UNCHANGED rowVars, notified \subseteq notified',
         notified' \subseteq Obligation \X Milestone \X Recipient,
         delivery' \in [Key -> {"absent", "sent", "failed", "skipped"}],
         accepted' \in [Key -> Nat], \A d \in Key : accepted[d] <= accepted'[d],
         new.pc # "idle" =>
           /\ new.day = run[r].day /\ new.asked = run[r].asked
           /\ new.alone = run[r].alone /\ (new.clean => run[r].clean)
  PROVE  Goes(r) /\ run'[r] = new
  <1>1. /\ run' \in [Run -> RunRecord] /\ run'[r] = new
        /\ \A k \in Run \ {r} : run'[k] = run[k] /\ Kept(k)
    BY DEF Typed, Kept
  <1>2. Typed'
    BY <1>1 DEF Typed, rowVars
  <1>3. Grows
    BY DEF Grows, rowVars
  <1>4. run[r] \in RunRecord
    BY DEF Typed
  <1>5. QED
    BY <1>1, <1>2, <1>3, <1>4 DEF Goes

LEMMA GoesQuietly ==
  ASSUME Typed, NEW r \in Run, NEW new \in RunRecord, run' = [run EXCEPT ![r] = new],
         UNCHANGED <<rowVars, notified, delivery, accepted>>,
         new.pc # "idle" =>
           /\ new.day = run[r].day /\ new.asked = run[r].asked
           /\ new.alone = run[r].alone /\ (new.clean => run[r].clean)
  PROVE  Goes(r) /\ run'[r] = new
  <1>1. \A d \in Key : accepted[d] <= accepted'[d]
    BY DEF Typed
  <1>2. QED
    BY <1>1, GoesTo DEF Typed

LEMMA NoRunTyped == NoRun \in RunRecord /\ NoRun.pc = "idle" /\ NoRun.todo = {} /\ NoRun.channel = "email"
  BY DEF NoRun, RunRecord, Channel

LEMMA AbortedTyped ==
  ASSUME NEW w \in RunRecord
  PROVE  /\ Aborted(w) \in RunRecord /\ Aborted(w).pc = "choosing" /\ Aborted(w).todo = w.todo
         /\ Aborted(w).clean = FALSE /\ Aborted(w).channel = "email" /\ Aborted(w).day = w.day /\ Aborted(w).asked = w.asked
         /\ Aborted(w).alone = w.alone
  BY DEF RunRecord, Aborted, Channel

LEMMA OnwardsTyped ==
  ASSUME NEW w \in RunRecord
  PROVE  /\ Onwards(w) \in RunRecord
         /\ Onwards(w).day = w.day /\ Onwards(w).asked = w.asked
         /\ Onwards(w).alone = w.alone /\ Onwards(w).clean = w.clean
         /\ Onwards(w).todo = w.todo /\ Onwards(w).about = w.about
         /\ Onwards(w).left = w.left /\ Onwards(w).to = w.to
         /\ w.channel = "email" => Onwards(w).pc = "delivering" /\ Onwards(w).channel = "sms"
         /\ w.channel # "email" => Onwards(w).pc = "recipient" /\ Onwards(w).channel = "email"
  BY DEF RunRecord, Onwards, Channel, Dispatching

LEMMA LoadExistingStep ==
  ASSUME Typed, NEW r \in Run, LoadExisting(r)
  PROVE  /\ Goes(r) /\ UNCHANGED <<rowVars, notified, delivery, accepted>>
         /\ run[r].pc = "loading" /\ run'[r].pc = "saving"
         /\ run'[r].todo = run[r].todo /\ run'[r].channel = run[r].channel
         /\ run'[r].rows = {o \in run[r].rows : occurrence[o] \notin Terminal}
  <1> DEFINE new == [run[r] EXCEPT !.pc = "saving", !.rows = {o \in @ : occurrence[o] \notin Terminal}]
  <1>1. run[r] \in RunRecord
    BY DEF Typed
  <1>2. /\ new \in RunRecord /\ new.pc = "saving" /\ new.todo = run[r].todo
        /\ new.channel = run[r].channel
        /\ new.rows = {o \in run[r].rows : occurrence[o] \notin Terminal}
        /\ new.day = run[r].day /\ new.asked = run[r].asked
        /\ new.alone = run[r].alone /\ new.clean = run[r].clean
        /\ new.clean => run[r].clean
    BY <1>1 DEF RunRecord, Dispatching
  <1>3. run' = [run EXCEPT ![r] = new]
    BY <1>1 DEF Typed, LoadExisting
  <1>4. UNCHANGED <<rowVars, notified, delivery, accepted>> /\ run[r].pc = "loading"
    BY DEF LoadExisting, At
  <1> HIDE DEF new
  <1>5. QED
    BY <1>2, <1>3, <1>4, GoesQuietly

LEMMA DispatchStep ==
  ASSUME Typed, NEW r \in Run, Dispatch(r)
  PROVE  /\ Goes(r) /\ UNCHANGED <<rowVars, notified, delivery, accepted>>
         /\ run[r].pc = "choosing" /\ run'[r].pc = "recipient"
         /\ run'[r].channel = run[r].channel /\ run'[r].clean = run[r].clean
         /\ \E o \in run[r].todo :
              run'[r].todo = run[r].todo \ {o} /\ run'[r].about = {o} /\ run'[r].left = Recipient
  <1>1. PICK o \in run[r].todo :
         run' = [run EXCEPT ![r].pc = "recipient", ![r].todo = @ \ {o}, ![r].about = {o},
                            ![r].left = Recipient]
    BY DEF Dispatch
  <1> DEFINE new == [run[r] EXCEPT !.pc = "recipient", !.todo = @ \ {o}, !.about = {o},
                            !.left = Recipient]
  <1>2. run[r] \in RunRecord
    BY DEF Typed
  <1>3. /\ new \in RunRecord /\ new.pc = "recipient" /\ new.todo = run[r].todo \ {o}
        /\ new.about = {o} /\ new.left = Recipient /\ new.channel = run[r].channel
        /\ new.day = run[r].day /\ new.asked = run[r].asked
        /\ new.alone = run[r].alone /\ new.clean = run[r].clean
        /\ new.clean => run[r].clean
    BY <1>2 DEF RunRecord, Dispatching
  <1>4. run' = [run EXCEPT ![r] = new]
    BY <1>1, <1>2 DEF Typed
  <1>5. UNCHANGED <<rowVars, notified, delivery, accepted>> /\ run[r].pc = "choosing"
    BY DEF Dispatch, At
  <1> HIDE DEF new
  <1>6. Goes(r) /\ run'[r] = new
    BY <1>3, <1>4, <1>5, GoesQuietly
  <1>7. QED
    BY <1>3, <1>5, <1>6

\* A run ends, fails or is killed, or its dispatch goes on without it.
LEMMA EndSteps ==
  ASSUME Typed, NEW r \in Run, Finish(r) \/ GiveUp(r)
  PROVE  /\ Goes(r) /\ UNCHANGED <<rowVars, notified, delivery, accepted>>
         /\ run[r].pc # "idle" /\ run'[r].todo = {}
         /\ \/ run'[r] = NoRun
            \/ /\ run[r].pc \in Dispatching /\ run'[r].pc = run[r].pc /\ run'[r].clean = FALSE
               /\ run'[r].about = run[r].about /\ run'[r].left = run[r].left
               /\ run'[r].to = run[r].to /\ run'[r].channel = run[r].channel
               /\ run'[r].seen = run[r].seen /\ run'[r].result = run[r].result
  <1> DEFINE new == [run[r] EXCEPT !.todo = {}, !.clean = FALSE]
  <1>1. run[r] \in RunRecord
    BY DEF Typed
  <1>2. /\ new \in RunRecord /\ new.pc = run[r].pc /\ new.todo = {} /\ new.about = run[r].about
        /\ new.left = run[r].left /\ new.to = run[r].to /\ new.channel = run[r].channel
        /\ new.seen = run[r].seen /\ new.result = run[r].result
        /\ new.day = run[r].day /\ new.asked = run[r].asked
        /\ new.alone = run[r].alone /\ new.clean = FALSE
    BY <1>1 DEF RunRecord
  <1>3. UNCHANGED <<rowVars, notified, delivery, accepted>> /\ run[r].pc # "idle"
    BY DEF Finish, GiveUp, At
  <1>4. \/ run' = [run EXCEPT ![r] = NoRun]
        \/ run[r].pc \in Dispatching /\ run' = [run EXCEPT ![r] = new]
    BY <1>1 DEF Typed, Finish, GiveUp
  <1> HIDE DEF new
  <1>5. CASE run' = [run EXCEPT ![r] = NoRun]
    BY <1>3, <1>5, NoRunTyped, GoesQuietly
  <1>6. CASE run[r].pc \in Dispatching /\ run' = [run EXCEPT ![r] = new]
    <2>1. Goes(r) /\ run'[r] = new
      BY <1>2, <1>3, <1>6, GoesQuietly
    <2>2. QED
      BY <1>2, <1>3, <1>6, <2>1
  <1>7. QED
    BY <1>4, <1>5, <1>6

\* A dispatch that throws, is refused by a unique index, or loses an answer.
LEMMA AbortStep ==
  ASSUME Typed, NEW r \in Run, run' = [run EXCEPT ![r] = Aborted(@)],
         UNCHANGED <<rowVars, delivery>>, notified' = notified,
         accepted' \in [Key -> Nat], \A d \in Key : accepted[d] <= accepted'[d]
  PROVE  /\ Goes(r)
         /\ run'[r].pc = "choosing" /\ run'[r].todo = run[r].todo /\ run'[r].clean = FALSE
         /\ run'[r].channel = "email"
  <1>1. run[r] \in RunRecord
    BY DEF Typed
  <1>2. /\ Aborted(run[r]) \in RunRecord /\ Aborted(run[r]).pc = "choosing"
        /\ Aborted(run[r]).todo = run[r].todo
        /\ Aborted(run[r]).clean = FALSE /\ Aborted(run[r]).day = run[r].day
        /\ Aborted(run[r]).channel = "email"
        /\ Aborted(run[r]).asked = run[r].asked /\ Aborted(run[r]).alone = run[r].alone
    BY <1>1, AbortedTyped
  <1>3. notified \subseteq notified' /\ notified' \subseteq Obligation \X Milestone \X Recipient
        /\ delivery' \in [Key -> {"absent", "sent", "failed", "skipped"}]
    BY DEF Typed
  <1>4. Goes(r) /\ run'[r] = Aborted(run[r])
    BY <1>2, <1>3, GoesTo
  <1>5. QED
    BY <1>2, <1>4

LEMMA FailStep ==
  ASSUME Typed, NEW r \in Run, DispatchFails(r)
  PROVE  /\ Goes(r) /\ UNCHANGED <<rowVars, notified, delivery, accepted>>
         /\ run[r].pc \in Dispatching
         /\ run'[r].pc = "choosing" /\ run'[r].todo = run[r].todo /\ run'[r].clean = FALSE
         /\ run'[r].channel = "email"
  <1>1. run[r].pc \in Dispatching /\ UNCHANGED <<rowVars, notified, delivery, accepted>>
        /\ run' = [run EXCEPT ![r] = Aborted(@)]
    BY DEF DispatchFails
  <1>2. accepted' \in [Key -> Nat] /\ \A d \in Key : accepted[d] <= accepted'[d]
    BY <1>1 DEF Typed
  <1>3. QED
    BY <1>1, <1>2, AbortStep

LEMMA NextRecipientStep ==
  ASSUME Typed, NEW r \in Run, NextRecipient(r)
  PROVE  /\ Goes(r) /\ UNCHANGED <<rowVars, notified, delivery, accepted>>
         /\ run[r].pc = "recipient" /\ run'[r].todo = run[r].todo
         /\ run'[r].about = run[r].about /\ run'[r].channel = run[r].channel
         /\ run'[r].clean = run[r].clean
         /\ \E p \in run[r].left :
              /\ run'[r].left = run[r].left \ {p} /\ run'[r].to = {p}
              /\ run'[r].pc = IF <<About(r), DaysUntil(About(r), run[r].day), p>> \in notified
                              THEN "delivering" ELSE "inserting"
  <1>1. run[r] \in RunRecord
    BY DEF Typed
  <1>2. PICK p \in run[r].left :
         run' = [run EXCEPT ![r].left = @ \ {p}, ![r].to = {p},
                            ![r].pc = IF <<About(r), DaysUntil(About(r), run[r].day), p>> \in notified
                                      THEN "delivering" ELSE "inserting"]
    BY DEF NextRecipient
  <1> DEFINE pc == IF <<About(r), DaysUntil(About(r), run[r].day), p>> \in notified
                   THEN "delivering" ELSE "inserting"
             new == [run[r] EXCEPT !.left = @ \ {p}, !.to = {p}, !.pc = pc]
  <1>3. pc \in Dispatching
    BY DEF Dispatching
  <1>4. run' = [run EXCEPT ![r].left = @ \ {p}, ![r].to = {p}, ![r].pc = pc]
    BY <1>2
  <1> HIDE DEF pc
  <1>5. p \in Recipient
    BY <1>1 DEF RunRecord
  <1>6. /\ new \in RunRecord /\ new.pc = pc /\ new.todo = run[r].todo
        /\ new.about = run[r].about /\ new.left = run[r].left \ {p} /\ new.to = {p}
        /\ new.channel = run[r].channel
        /\ new.day = run[r].day /\ new.asked = run[r].asked
        /\ new.alone = run[r].alone /\ new.clean = run[r].clean /\ (new.clean => run[r].clean)
    BY <1>1, <1>3, <1>5 DEF RunRecord
  <1>7. run' = [run EXCEPT ![r] = new]
    BY <1>1, <1>4 DEF Typed
  <1>8. UNCHANGED <<rowVars, notified, delivery, accepted>> /\ run[r].pc = "recipient"
    BY DEF NextRecipient, At
  <1> HIDE DEF new
  <1>9. Goes(r) /\ run'[r] = new
    BY <1>6, <1>7, <1>8, GoesQuietly
  <1>10. QED
    BY <1>6, <1>8, <1>9 DEF pc

LEMMA EndDispatchStep ==
  ASSUME Typed, NEW r \in Run, EndDispatch(r)
  PROVE  /\ Goes(r) /\ UNCHANGED <<rowVars, notified, delivery, accepted>>
         /\ run[r].pc = "recipient" /\ run[r].left = {} /\ run'[r].pc = "choosing"
         /\ run'[r].todo = run[r].todo /\ run'[r].channel = run[r].channel
         /\ run'[r].clean = run[r].clean
  <1> DEFINE new == [run[r] EXCEPT !.pc = "choosing", !.about = {}, !.to = {}]
  <1>1. run[r] \in RunRecord
    BY DEF Typed
  <1>2. /\ new \in RunRecord /\ new.pc = "choosing" /\ new.todo = run[r].todo
        /\ new.channel = run[r].channel
        /\ new.day = run[r].day /\ new.asked = run[r].asked
        /\ new.alone = run[r].alone /\ new.clean = run[r].clean /\ (new.clean => run[r].clean)
    BY <1>1 DEF RunRecord, Dispatching
  <1>3. run' = [run EXCEPT ![r] = new]
    BY <1>1 DEF Typed, EndDispatch
  <1>4. UNCHANGED <<rowVars, notified, delivery, accepted>> /\ run[r].pc = "recipient"
        /\ run[r].left = {}
    BY DEF EndDispatch, At
  <1> HIDE DEF new
  <1>5. Goes(r) /\ run'[r] = new
    BY <1>2, <1>3, <1>4, GoesQuietly
  <1>6. QED
    BY <1>2, <1>4, <1>5

\* A run that goes on with the message it works on.
Works(r) ==
    /\ run'[r].todo = run[r].todo /\ run'[r].about = run[r].about
    /\ run'[r].left = run[r].left /\ run'[r].to = run[r].to

LEMMA InsertStep ==
  ASSUME Typed, NEW r \in Run, Insert(r), Note(r) \in Obligation \X Milestone \X Recipient
  PROVE  /\ Goes(r) /\ UNCHANGED <<rowVars, delivery, accepted>>
         /\ run[r].pc = "inserting" /\ notified' = notified \cup {Note(r)}
         /\ \/ /\ run'[r].pc = "choosing" /\ run'[r].todo = run[r].todo /\ run'[r].clean = FALSE
               /\ run'[r].channel = "email"
            \/ /\ Works(r) /\ run'[r].pc = "delivering" /\ run'[r].channel = run[r].channel
               /\ run'[r].clean = run[r].clean
  <1>1. /\ run[r].pc = "inserting" /\ notified' = notified \cup {Note(r)}
        /\ UNCHANGED <<rowVars, delivery, accepted>> /\ run[r] \in RunRecord
    BY DEF Insert, At, Typed
  <1>2. /\ notified \subseteq notified' /\ notified' \subseteq Obligation \X Milestone \X Recipient
        /\ delivery' \in [Key -> {"absent", "sent", "failed", "skipped"}]
        /\ accepted' \in [Key -> Nat] /\ \A d \in Key : accepted[d] <= accepted'[d]
    BY <1>1 DEF Typed
  <1> DEFINE new == [run[r] EXCEPT !.pc = "delivering"]
  <1>3. /\ new \in RunRecord /\ new.pc = "delivering" /\ new.todo = run[r].todo
        /\ new.about = run[r].about /\ new.left = run[r].left /\ new.to = run[r].to
        /\ new.channel = run[r].channel
        /\ new.day = run[r].day /\ new.asked = run[r].asked
        /\ new.alone = run[r].alone /\ new.clean = run[r].clean /\ (new.clean => run[r].clean)
    BY <1>1 DEF RunRecord, Dispatching
  <1>4. \/ run' = [run EXCEPT ![r] = Aborted(@)] /\ Note(r) \in notified
        \/ run' = [run EXCEPT ![r] = new]
    BY DEF Insert
  <1> HIDE DEF new
  <1>5. CASE run' = [run EXCEPT ![r] = Aborted(@)] /\ Note(r) \in notified
    <2>1. notified' = notified
      BY <1>1, <1>5
    <2>2. QED
      BY <1>1, <1>2, <1>5, <2>1, AbortStep
  <1>6. CASE run' = [run EXCEPT ![r] = new]
    <2>1. Goes(r) /\ run'[r] = new
      BY <1>1, <1>2, <1>3, <1>6, GoesTo
    <2>2. QED
      BY <1>1, <1>3, <2>1 DEF Works
  <1>7. QED
    BY <1>4, <1>5, <1>6

LEMMA LoadDeliveryStep ==
  ASSUME Typed, NEW r \in Run, LoadDelivery(r), Target(r) \in Key
  PROVE  /\ Goes(r) /\ UNCHANGED <<rowVars, notified, delivery, accepted>>
         /\ run[r].pc = "delivering" /\ Works(r) /\ run'[r].clean = run[r].clean
         /\ \/ /\ delivery[Target(r)] = "sent"
               /\ run[r].channel = "email" => run'[r].pc = "delivering" /\ run'[r].channel = "sms"
               /\ run[r].channel # "email" => run'[r].pc = "recipient" /\ run'[r].channel = "email"
            \/ /\ delivery[Target(r)] # "sent"
               /\ run'[r].pc = "sending" /\ run'[r].channel = run[r].channel
               /\ run'[r].seen = delivery[Target(r)]
  <1>1. /\ UNCHANGED <<rowVars, notified, delivery, accepted>>
        /\ run[r].pc = "delivering" /\ run[r] \in RunRecord
    BY DEF LoadDelivery, At, Typed
  <1>2. CASE delivery[Target(r)] = "sent"
    <2>1. run' = [run EXCEPT ![r] = Onwards(run[r])]
      BY <1>2 DEF LoadDelivery
    <2> DEFINE new == Onwards(run[r])
    <2>2. /\ new \in RunRecord
          /\ new.day = run[r].day /\ new.asked = run[r].asked
          /\ new.alone = run[r].alone /\ new.clean = run[r].clean /\ (new.clean => run[r].clean)
          /\ new.todo = run[r].todo /\ new.about = run[r].about
          /\ new.left = run[r].left /\ new.to = run[r].to
          /\ run[r].channel = "email" => new.pc = "delivering" /\ new.channel = "sms"
          /\ run[r].channel # "email" => new.pc = "recipient" /\ new.channel = "email"
      BY <1>1, OnwardsTyped
    <2>3. run' = [run EXCEPT ![r] = new]
      BY <2>1
    <2> HIDE DEF new
    <2>4. Goes(r) /\ run'[r] = new
      BY <1>1, <2>2, <2>3, GoesQuietly
    <2>5. QED
      BY <1>1, <1>2, <2>2, <2>4 DEF Works
  <1>3. CASE delivery[Target(r)] # "sent"
    <2> DEFINE new == [run[r] EXCEPT !.pc = "sending", !.seen = delivery[Target(r)]]
    <2>1. run' = [run EXCEPT ![r] = new]
      BY <1>3 DEF LoadDelivery
    <2>2. delivery[Target(r)] \in {"absent", "sent", "failed", "skipped"}
      BY DEF Typed
    <2>3. /\ new \in RunRecord /\ new.pc = "sending" /\ new.todo = run[r].todo
          /\ new.about = run[r].about /\ new.left = run[r].left /\ new.to = run[r].to
          /\ new.channel = run[r].channel /\ new.seen = delivery[Target(r)]
          /\ new.day = run[r].day /\ new.asked = run[r].asked
          /\ new.alone = run[r].alone /\ new.clean = run[r].clean /\ (new.clean => run[r].clean)
      BY <1>1, <2>2 DEF RunRecord, Dispatching
    <2> HIDE DEF new
    <2>4. Goes(r) /\ run'[r] = new
      BY <1>1, <2>1, <2>3, GoesQuietly
    <2>5. QED
      BY <1>1, <1>3, <2>3, <2>4 DEF Works
  <1>4. QED
    BY <1>2, <1>3
LEMMA SendStep ==
  ASSUME Typed, NEW r \in Run, Send(r), Target(r) \in Key
  PROVE  /\ Goes(r) /\ UNCHANGED <<rowVars, notified, delivery>>
         /\ run[r].pc = "sending" /\ run'[r].pc = "recording" /\ Works(r)
         /\ run'[r].channel = run[r].channel /\ run'[r].seen = run[r].seen
         /\ run'[r].result # "sent" => accepted' = accepted
         /\ run'[r].result = "sent" =>
              /\ accepted' = [accepted EXCEPT ![Target(r)] = @ + 1]
              /\ <<To(r), run[r].channel>> \in Reachable
         /\ run'[r].clean => run'[r].result = Best(r)
  <1>1. /\ UNCHANGED <<rowVars, notified, delivery>> /\ run[r].pc = "sending" /\ run[r] \in RunRecord
    BY DEF Send, At, Typed
  <1>2. PICK result \in {Best(r), "failed", "skipped"} :
         /\ run' = [run EXCEPT ![r].pc = "recording", ![r].result = result,
                               ![r].clean = @ /\ result = Best(r)]
         /\ accepted' = IF result = "sent" THEN [accepted EXCEPT ![Target(r)] = @ + 1] ELSE accepted
    BY DEF Send
  <1> DEFINE well == run[r].clean /\ result = Best(r)
             new == [run[r] EXCEPT !.pc = "recording", !.result = result, !.clean = well]
  <1>3. well \in BOOLEAN /\ (well => run[r].clean /\ result = Best(r))
    OBVIOUS
  <1>4. run' = [run EXCEPT ![r].pc = "recording", ![r].result = result, ![r].clean = well]
    BY <1>2
  <1>5. result \in {"sent", "failed", "skipped"}
    BY <1>2 DEF Best
  <1> HIDE DEF well
  <1>6. /\ new \in RunRecord /\ new.pc = "recording" /\ new.result = result
        /\ new.clean = well /\ new.todo = run[r].todo /\ new.about = run[r].about
        /\ new.left = run[r].left /\ new.to = run[r].to
        /\ new.channel = run[r].channel /\ new.seen = run[r].seen
        /\ new.day = run[r].day /\ new.asked = run[r].asked /\ new.alone = run[r].alone
    BY <1>1, <1>3, <1>5 DEF RunRecord, Dispatching
  <1>7. run' = [run EXCEPT ![r] = new]
    BY <1>1, <1>4 DEF Typed
  <1> HIDE DEF new
  <1>8. new.clean => run[r].clean /\ result = Best(r)
    BY <1>3, <1>6
  <1>9. accepted' \in [Key -> Nat] /\ \A d \in Key : accepted[d] <= accepted'[d]
    <2>1. accepted \in [Key -> Nat]
      BY DEF Typed
    <2>2. CASE accepted' = accepted
      BY <2>1, <2>2
    <2>3. CASE accepted' = [accepted EXCEPT ![Target(r)] = @ + 1]
      BY <2>1, <2>3
    <2>4. QED
      BY <1>2, <2>2, <2>3
  <1>10. notified \subseteq notified' /\ notified' \subseteq Obligation \X Milestone \X Recipient
         /\ delivery' \in [Key -> {"absent", "sent", "failed", "skipped"}]
    BY <1>1 DEF Typed
  <1>11. Goes(r) /\ run'[r] = new
    BY <1>1, <1>6, <1>7, <1>8, <1>9, <1>10, GoesTo
  <1>12. QED
    BY <1>1, <1>2, <1>6, <1>8, <1>11 DEF Works, Best

LEMMA LoseStep ==
  ASSUME Typed, NEW r \in Run, LoseAnswer(r), Target(r) \in Key
  PROVE  /\ Goes(r) /\ UNCHANGED <<rowVars, notified, delivery>>
         /\ run[r].pc = "sending"
         /\ run'[r].pc = "choosing" /\ run'[r].todo = run[r].todo /\ run'[r].clean = FALSE
         /\ run'[r].channel = "email"
         /\ accepted' = [accepted EXCEPT ![Target(r)] = @ + 1]
  <1>1. /\ UNCHANGED <<rowVars, notified, delivery>> /\ run[r].pc = "sending"
        /\ run' = [run EXCEPT ![r] = Aborted(@)]
        /\ accepted' = [accepted EXCEPT ![Target(r)] = @ + 1]
    BY DEF LoseAnswer, At
  <1>2. accepted' \in [Key -> Nat] /\ \A d \in Key : accepted[d] <= accepted'[d]
    BY <1>1 DEF Typed
  <1>3. QED
    BY <1>1, <1>2, AbortStep

LEMMA RecordStep ==
  ASSUME Typed, NEW r \in Run, Record(r), Target(r) \in Key
  PROVE  /\ Goes(r) /\ UNCHANGED <<rowVars, notified, accepted>>
         /\ run[r].pc = "recording"
         /\ \/ /\ run[r].seen # delivery[Target(r)] /\ delivery' = delivery
               /\ run'[r].pc = "choosing" /\ run'[r].todo = run[r].todo /\ run'[r].clean = FALSE
               /\ run'[r].channel = "email"
            \/ /\ delivery' = [delivery EXCEPT ![Target(r)] = run[r].result]
               /\ Works(r) /\ run'[r].clean = run[r].clean
               /\ run[r].channel = "email" => run'[r].pc = "delivering" /\ run'[r].channel = "sms"
               /\ run[r].channel # "email" => run'[r].pc = "recipient" /\ run'[r].channel = "email"
  <1>1. /\ UNCHANGED <<rowVars, notified, accepted>>
        /\ run[r].pc = "recording" /\ run[r] \in RunRecord
    BY DEF Record, At, Typed
  <1>2. /\ accepted' \in [Key -> Nat] /\ \A d \in Key : accepted[d] <= accepted'[d]
        /\ notified \subseteq notified' /\ notified' \subseteq Obligation \X Milestone \X Recipient
    BY <1>1 DEF Typed
  <1>3. CASE run[r].seen = "absent" /\ delivery[Target(r)] # "absent"
    <2>1. delivery' = delivery /\ run' = [run EXCEPT ![r] = Aborted(@)]
      BY <1>3 DEF Record
    <2>2. QED
      BY <1>1, <1>2, <1>3, <2>1, AbortStep
  <1>4. CASE ~(run[r].seen = "absent" /\ delivery[Target(r)] # "absent")
    <2>1. /\ delivery' = [delivery EXCEPT ![Target(r)] = run[r].result]
          /\ run' = [run EXCEPT ![r] = Onwards(run[r])]
      BY <1>4 DEF Record
    <2>2. delivery' \in [Key -> {"absent", "sent", "failed", "skipped"}]
      <3>1. run[r].result \in {"sent", "failed", "skipped"}
        BY <1>1 DEF RunRecord
      <3>2. QED
        BY <2>1, <3>1 DEF Typed
    <2> DEFINE new == Onwards(run[r])
    <2>3. /\ new \in RunRecord
          /\ new.day = run[r].day /\ new.asked = run[r].asked
          /\ new.alone = run[r].alone /\ new.clean = run[r].clean /\ (new.clean => run[r].clean)
          /\ new.todo = run[r].todo /\ new.about = run[r].about
          /\ new.left = run[r].left /\ new.to = run[r].to
          /\ run[r].channel = "email" => new.pc = "delivering" /\ new.channel = "sms"
          /\ run[r].channel # "email" => new.pc = "recipient" /\ new.channel = "email"
      BY <1>1, OnwardsTyped
    <2>4. run' = [run EXCEPT ![r] = new]
      BY <2>1
    <2> HIDE DEF new
    <2>5. Goes(r) /\ run'[r] = new
      BY <1>1, <1>2, <2>2, <2>3, <2>4, GoesTo
    <2>6. QED
      BY <1>1, <2>1, <2>3, <2>5 DEF Works
  <1>5. QED
    BY <1>3, <1>4

\* The others learn that they are not alone.
LEMMA StartStep ==
  ASSUME RemindersAssumption, Typed, NEW r \in Run, Start(r)
  PROVE  /\ Typed' /\ Grows /\ UNCHANGED <<today, active, occurrence, notified, delivery, accepted>>
         /\ starts < MaxStarts /\ starts' = starts + 1
         /\ \A k \in Run \ {r} : Kept(k) /\ (run[k].pc # "idle" => ~run'[k].alone /\ ~run'[k].clean)
         /\ run[r].pc = "idle" /\ run'[r].pc = "loading" /\ run'[r].day = today
         /\ run'[r].rows = {o \in active : Falls(o, today)} /\ run'[r].todo = {}
         /\ run'[r].channel = "email"
         /\ run'[r].asked = {o \in active : occurrence[o] \notin Terminal}
         /\ run'[r].alone \/ run'[r].clean => \A k \in Run \ {r} : run[k].pc = "idle"
         /\ run'[r].clean => run'[r].alone
  <1> DEFINE quiet == \A k \in Run : At(k, "idle")
             mine == [NoRun EXCEPT !.pc = "loading", !.day = today,
                        !.rows = {o \in active : Falls(o, today)},
                        !.asked = {o \in active : occurrence[o] \notin Terminal},
                        !.alone = quiet, !.clean = quiet]
  <1>1. /\ starts < MaxStarts /\ starts' = starts + 1 /\ run[r].pc = "idle"
        /\ UNCHANGED <<today, active, occurrence, notified, delivery, accepted>>
    BY DEF Start, At
  <1>2. run' = [k \in Run |-> IF k = r THEN mine
                               ELSE IF At(k, "idle") THEN run[k]
                               ELSE [run[k] EXCEPT !.alone = FALSE, !.clean = FALSE]]
    BY DEF Start
  <1>3. quiet \in BOOLEAN /\ (quiet => \A k \in Run : run[k].pc = "idle")
    BY DEF At
  <1> HIDE DEF quiet, mine
  <1>4. today \in Nat /\ starts' \in 0..MaxStarts
    <2>1. MaxDay \in Nat /\ MaxStarts \in Nat
      BY DEF RemindersAssumption
    <2>2. today \in 0..MaxDay /\ starts \in 0..MaxStarts
      BY DEF Typed
    <2>3. QED
      BY <1>1, <2>1, <2>2
  <1>5. /\ mine \in RunRecord /\ mine.pc = "loading" /\ mine.day = today
        /\ mine.rows = {o \in active : Falls(o, today)} /\ mine.todo = {} /\ mine.channel = "email"
        /\ mine.asked = {o \in active : occurrence[o] \notin Terminal}
        /\ mine.alone = quiet /\ mine.clean = quiet
    BY <1>3, <1>4 DEF mine, NoRun, RunRecord, Typed, Channel
  <1>6. run'[r] = mine
    BY <1>2
  <1>7. ASSUME NEW k \in Run \ {r}
        PROVE  /\ run'[k] \in RunRecord /\ Kept(k)
               /\ run[k].pc # "idle" => ~run'[k].alone /\ ~run'[k].clean
    <2>1. run[k] \in RunRecord
      BY DEF Typed
    <2>2. run'[k] \in {run[k], [run[k] EXCEPT !.alone = FALSE, !.clean = FALSE]}
          /\ (run[k].pc # "idle" => run'[k] = [run[k] EXCEPT !.alone = FALSE, !.clean = FALSE])
      BY <1>2 DEF At
    <2> DEFINE new == [run[k] EXCEPT !.alone = FALSE, !.clean = FALSE]
    <2>3. /\ new \in RunRecord /\ new.alone = FALSE /\ new.clean = FALSE
          /\ new.pc = run[k].pc /\ new.day = run[k].day /\ new.rows = run[k].rows
          /\ new.todo = run[k].todo /\ new.about = run[k].about /\ new.to = run[k].to
          /\ new.left = run[k].left /\ new.channel = run[k].channel
          /\ new.seen = run[k].seen /\ new.result = run[k].result /\ new.asked = run[k].asked
      BY <2>1 DEF RunRecord
    <2>4. CASE run[k].pc = "idle"
      <3>1. run'[k] = run[k]
        BY <1>2, <2>4 DEF At
      <3>2. QED
        BY <2>1, <2>4, <3>1 DEF Kept
    <2>5. CASE run[k].pc # "idle"
      <3>1. run'[k] = new
        BY <2>2, <2>5
      <3> HIDE DEF new
      <3>2. QED
        BY <2>3, <3>1 DEF Kept
    <2>6. QED
      BY <2>4, <2>5
  <1>8. Typed'
    <2>1. run' \in [Run -> RunRecord]
      BY <1>5, <1>6, <1>7, <1>2
    <2>2. QED
      BY <1>1, <1>4, <2>1 DEF Typed
  <1>9. Grows
    <2>1. \A d \in Key : accepted[d] \in Nat
      BY DEF Typed
    <2>2. QED
      BY <1>1, <2>1 DEF Grows
  <1>10. QED
    BY <1>1, <1>3, <1>5, <1>6, <1>7, <1>8, <1>9

LEMMA SaveStep ==
  ASSUME Typed, NEW r \in Run, Save(r)
  PROVE  /\ Typed' /\ Grows /\ UNCHANGED <<today, active, starts, notified, delivery, accepted>>
         /\ \A o \in Obligation :
              /\ o \notin run[r].rows => occurrence'[o] = occurrence[o]
              /\ o \in run[r].rows => occurrence'[o] \notin Terminal /\ occurrence'[o] # "absent"
         /\ \A k \in Run \ {r} : Kept(k) /\ (run[k].pc # "idle" => run[r].rows \subseteq run'[k].asked)
         /\ run[r].pc = "saving" /\ run'[r].pc = "choosing" /\ run[r] \in RunRecord
         /\ run'[r].todo = {o \in run[r].rows : DaysUntil(o, run[r].day) \in Milestone}
         /\ run'[r].channel = run[r].channel
         /\ run'[r].day = run[r].day /\ run'[r].asked = run[r].asked
         /\ run'[r].alone = run[r].alone /\ run'[r].clean = run[r].clean
  <1> DEFINE day == run[r].day
             mine == [run[r] EXCEPT !.pc = "choosing", !.rows = {},
                        !.todo = {o \in run[r].rows : DaysUntil(o, day) \in Milestone}]
  <1>1. /\ run[r].pc = "saving" /\ UNCHANGED <<today, active, starts, notified, delivery, accepted>>
        /\ occurrence' = [o \in Obligation |->
             IF o \notin run[r].rows THEN occurrence[o] ELSE IF Due[o] < day THEN "overdue" ELSE "open"]
        /\ run' = [k \in Run |->
             IF k = r THEN mine
             ELSE IF At(k, "idle") THEN run[k] ELSE [run[k] EXCEPT !.asked = @ \cup run[r].rows]]
    BY DEF Save, At
  <1>2. run[r] \in RunRecord /\ run[r].rows \subseteq Obligation
    BY DEF Typed, RunRecord
  <1>3. /\ mine \in RunRecord /\ mine.pc = "choosing" /\ mine.channel = run[r].channel
        /\ mine.todo = {o \in run[r].rows : DaysUntil(o, day) \in Milestone}
        /\ mine.day = run[r].day /\ mine.asked = run[r].asked
        /\ mine.alone = run[r].alone /\ mine.clean = run[r].clean
    BY <1>2 DEF RunRecord
  <1> HIDE DEF mine
  <1>4. run'[r] = mine
    BY <1>1
  <1>5. ASSUME NEW k \in Run \ {r}
        PROVE  /\ run'[k] \in RunRecord /\ Kept(k)
               /\ run[k].pc # "idle" => run[r].rows \subseteq run'[k].asked
    <2>1. run[k] \in RunRecord
      BY DEF Typed
    <2> DEFINE new == [run[k] EXCEPT !.asked = @ \cup run[r].rows]
    <2>2. run'[k] \in {run[k], new} /\ (run[k].pc # "idle" => run'[k] = new)
      BY <1>1 DEF At
    <2>3. /\ new \in RunRecord /\ new.alone = run[k].alone /\ new.clean = run[k].clean
          /\ new.pc = run[k].pc /\ new.day = run[k].day /\ new.rows = run[k].rows
          /\ new.todo = run[k].todo /\ new.about = run[k].about /\ new.to = run[k].to
          /\ new.left = run[k].left /\ new.channel = run[k].channel
          /\ new.seen = run[k].seen /\ new.result = run[k].result
          /\ new.asked = run[k].asked \cup run[r].rows
      BY <1>2, <2>1 DEF RunRecord
    <2> HIDE DEF new
    <2>4. CASE run'[k] = run[k]
      BY <2>1, <2>2, <2>3, <2>4 DEF Kept
    <2>5. CASE run'[k] = new
      BY <2>3, <2>5 DEF Kept
    <2>6. QED
      BY <2>2, <2>4, <2>5
  <1>6. /\ occurrence' \in [Obligation -> Status]
        /\ \A o \in Obligation :
             /\ o \notin run[r].rows => occurrence'[o] = occurrence[o]
             /\ o \in run[r].rows => occurrence'[o] \notin Terminal /\ occurrence'[o] # "absent"
    BY <1>1 DEF Typed, Status, Terminal
  <1>7. run' \in [Run -> RunRecord]
    BY <1>1, <1>3, <1>4, <1>5
  <1>8. Typed'
    BY <1>1, <1>6, <1>7 DEF Typed
  <1>9. Grows
    BY <1>1, <1>6 DEF Grows, Typed
  <1>10. QED
    BY <1>1, <1>2, <1>3, <1>4, <1>5, <1>6, <1>8, <1>9

-----------------------------------------------------------------------------
(* What a run works on *)

Addressing == Dispatching \ {"recipient"}

\* A dispatch is about a saved occurrence on one of its milestones, which is not
\* on the list any more, and takes up one recipient, whose notification is there
\* before a delivery of it is looked up; what was recorded as sent is not sent.
AimsOf(r) ==
    /\ \A o \in run[r].todo :
         occurrence[o] # "absent" /\ DaysUntil(o, run[r].day) \in Milestone
    /\ run[r].pc \in Dispatching =>
         /\ About(r) \in Obligation /\ run[r].about = {About(r)} /\ About(r) \notin run[r].todo
         /\ occurrence[About(r)] # "absent" /\ DaysUntil(About(r), run[r].day) \in Milestone
    /\ run[r].pc \in Addressing =>
         To(r) \in Recipient /\ run[r].to = {To(r)} /\ To(r) \notin run[r].left
    /\ run[r].pc \notin {"delivering", "sending", "recording"} => run[r].channel = "email"
    /\ run[r].pc \in {"delivering", "sending", "recording"} => Note(r) \in notified
    /\ run[r].pc \in {"sending", "recording"} => run[r].seen # "sent"
    /\ run[r].pc = "recording" /\ run[r].result = "sent" =>
         accepted[Target(r)] > 0 /\ <<To(r), run[r].channel>> \in Reachable

\* Deliveries belong to notifications, and these to saved occurrences; what is
\* recorded as sent was taken by the provider, at an address.
RowsKept ==
    /\ \A n \in notified : occurrence[n[1]] # "absent"
    /\ \A d \in Key : delivery[d] # "absent" => <<d[1], d[2], d[3]>> \in notified
    /\ \A d \in Key : delivery[d] = "sent" => accepted[d] > 0 /\ <<d[3], d[4]>> \in Reachable

WorkInv == Typed /\ RowsKept /\ \A r \in Run : AimsOf(r)

The(S, A) == CHOOSE x \in S : x \in A

LEMMA TheOnly ==
  ASSUME NEW S, NEW x \in S
  PROVE  The(S, {x}) = x
  BY DEF The

LEMMA AboutIs ==
  ASSUME NEW r
  PROVE  /\ About(r) = The(Obligation, run[r].about) /\ To(r) = The(Recipient, run[r].to)
         /\ About(r)' = The(Obligation, run'[r].about) /\ To(r)' = The(Recipient, run'[r].to)
  BY DEF About, To, The

\* Where a run works on the same message before and after a step.
LEMMA SameAim ==
  ASSUME NEW r
  PROVE  /\ run'[r].about = run[r].about => About(r)' = About(r)
         /\ run'[r].to = run[r].to => To(r)' = To(r)
         /\ run'[r].about = run[r].about /\ run'[r].to = run[r].to /\ run'[r].day = run[r].day =>
              /\ Note(r)' = Note(r)
              /\ run'[r].channel = run[r].channel => Target(r)' = Target(r)
  <1>1. run'[r].about = run[r].about => About(r)' = About(r)
    BY AboutIs
  <1>2. run'[r].to = run[r].to => To(r)' = To(r)
    BY AboutIs
  <1>3. QED
    BY <1>1, <1>2 DEF Note, Target, DaysUntil

\* The notification and the delivery are rows that there may be.
LEMMA AimsTyped ==
  ASSUME Typed, NEW r \in Run, AimsOf(r), run[r].pc \in Addressing
  PROVE  /\ Note(r) \in Obligation \X Milestone \X Recipient /\ Target(r) \in Key
         /\ Target(r)[1] = About(r) /\ Target(r)[2] = DaysUntil(About(r), run[r].day)
         /\ Target(r)[3] = To(r) /\ Target(r)[4] = run[r].channel
         /\ <<Target(r)[1], Target(r)[2], Target(r)[3]>> = Note(r)
  <1>1. /\ About(r) \in Obligation /\ DaysUntil(About(r), run[r].day) \in Milestone
        /\ To(r) \in Recipient
    BY DEF AimsOf, Addressing
  <1>2. run[r].channel \in Channel
    BY DEF Typed, RunRecord
  <1>3. QED
    BY <1>1, <1>2 DEF Note, Target, Key

\* What a step of one run leaves another one.
LEMMA OthersAim ==
  ASSUME Typed, Typed', Grows, NEW k \in Run, Kept(k), AimsOf(k)
  PROVE  AimsOf(k)'
  <1>1. /\ About(k)' = About(k) /\ To(k)' = To(k) /\ Note(k)' = Note(k) /\ Target(k)' = Target(k)
    BY SameAim DEF Kept
  <1>2. /\ run'[k].pc = run[k].pc /\ run'[k].todo = run[k].todo /\ run'[k].day = run[k].day
        /\ run'[k].about = run[k].about /\ run'[k].to = run[k].to /\ run'[k].left = run[k].left
        /\ run'[k].channel = run[k].channel /\ run'[k].seen = run[k].seen
        /\ run'[k].result = run[k].result
    BY DEF Kept
  <1>3. run[k].todo \subseteq Obligation
    BY DEF Typed, RunRecord
  <1>4. \A o \in run'[k].todo :
           occurrence'[o] # "absent" /\ DaysUntil(o, run'[k].day) \in Milestone
    BY <1>2, <1>3 DEF AimsOf, Grows
  <1>5. run'[k].pc \in Dispatching =>
         /\ About(k)' \in Obligation /\ run'[k].about = {About(k)'} /\ About(k)' \notin run'[k].todo
         /\ occurrence'[About(k)'] # "absent" /\ DaysUntil(About(k)', run'[k].day) \in Milestone
    BY <1>1, <1>2 DEF AimsOf, Grows
  <1>6. run'[k].pc = "recording" /\ run'[k].result = "sent" =>
         accepted'[Target(k)'] > 0 /\ <<To(k)', run'[k].channel>> \in Reachable
    <2>1. SUFFICES ASSUME run[k].pc = "recording", run[k].result = "sent"
                   PROVE  accepted'[Target(k)] > 0 /\ <<To(k), run[k].channel>> \in Reachable
      BY <1>1, <1>2
    <2>2. Target(k) \in Key
      BY <2>1, AimsTyped DEF Addressing, Dispatching
    <2>3. accepted[Target(k)] > 0 /\ <<To(k), run[k].channel>> \in Reachable
      BY <2>1 DEF AimsOf
    <2>4. /\ accepted[Target(k)] <= accepted'[Target(k)]
          /\ accepted[Target(k)] \in Nat /\ accepted'[Target(k)] \in Nat
      BY <2>2 DEF Grows, Typed
    <2>5. QED
      BY <2>3, <2>4
  <1>7. /\ run'[k].pc \in Addressing =>
             To(k)' \in Recipient /\ run'[k].to = {To(k)'} /\ To(k)' \notin run'[k].left
        /\ run'[k].pc \notin {"delivering", "sending", "recording"} => run'[k].channel = "email"
        /\ run'[k].pc \in {"delivering", "sending", "recording"} => Note(k)' \in notified'
        /\ run'[k].pc \in {"sending", "recording"} => run'[k].seen # "sent"
    BY <1>1, <1>2 DEF AimsOf, Grows
  <1>8. QED
    BY <1>4, <1>5, <1>6, <1>7 DEF AimsOf, DaysUntil

\* A run that is not dispatching has nothing in hand but its list.
LEMMA RestsAim ==
  ASSUME Typed, Grows, NEW r \in Run, AimsOf(r), run'[r].pc \notin Dispatching,
         run'[r].channel = "email",
         \A o \in run'[r].todo : o \in run[r].todo /\ run'[r].day = run[r].day
  PROVE  AimsOf(r)'
  <1>1. run'[r].pc \notin Addressing \cup {"delivering", "sending", "recording"}
    BY DEF Addressing, Dispatching
  <1>2. \A o \in run'[r].todo :
           occurrence'[o] # "absent" /\ DaysUntil(o, run'[r].day) \in Milestone
    BY DEF AimsOf, Grows, DaysUntil, Typed, RunRecord
  <1>3. QED
    BY <1>1, <1>2 DEF AimsOf, DaysUntil

\* A run that goes on with its message, or to the next recipient of it.
LEMMA WorksAim ==
  ASSUME Typed, Typed', Grows, NEW r \in Run, AimsOf(r), Works(r), run[r].pc \in Addressing,
         run'[r].day = run[r].day,
         run'[r].pc \in Dispatching,
         run'[r].pc \notin {"delivering", "sending", "recording"} => run'[r].channel = "email",
         run'[r].pc \in {"delivering", "sending", "recording"} => Note(r) \in notified',
         run'[r].pc \in {"sending", "recording"} => run'[r].seen # "sent",
         run'[r].pc = "recording" /\ run'[r].result = "sent" =>
           /\ run'[r].channel = run[r].channel
           /\ accepted'[Target(r)] > 0 /\ <<To(r), run[r].channel>> \in Reachable
  PROVE  AimsOf(r)'
  <1>1. /\ run'[r].todo = run[r].todo /\ run'[r].about = run[r].about
        /\ run'[r].left = run[r].left /\ run'[r].to = run[r].to
    BY DEF Works
  <1>2. /\ About(r)' = About(r) /\ To(r)' = To(r) /\ Note(r)' = Note(r)
        /\ run'[r].channel = run[r].channel => Target(r)' = Target(r)
    BY <1>1, SameAim
  <1>3. /\ About(r) \in Obligation /\ run[r].about = {About(r)} /\ About(r) \notin run[r].todo
        /\ occurrence[About(r)] # "absent" /\ DaysUntil(About(r), run[r].day) \in Milestone
        /\ To(r) \in Recipient /\ run[r].to = {To(r)} /\ To(r) \notin run[r].left
    BY DEF AimsOf, Addressing
  <1>4. \A o \in run'[r].todo :
           occurrence'[o] # "absent" /\ DaysUntil(o, run'[r].day) \in Milestone
    BY <1>1 DEF AimsOf, Grows, DaysUntil, Typed, RunRecord
  <1>5. occurrence'[About(r)] # "absent"
    BY <1>3 DEF Grows
  <1>6. QED
    BY <1>1, <1>2, <1>3, <1>4, <1>5 DEF AimsOf, DaysUntil

LEMMA GrowingRows ==
  ASSUME Typed, Typed', Grows, RowsKept, notified' = notified, delivery' = delivery
  PROVE  RowsKept'
  <1>1. \A n \in notified' : occurrence'[n[1]] # "absent"
    BY DEF RowsKept, Grows, Typed
  <1>2. \A d \in Key : accepted[d] \in Nat /\ accepted'[d] \in Nat /\ accepted[d] <= accepted'[d]
    BY DEF Typed, Grows
  <1>3. \A d \in Key : delivery'[d] = "sent" => accepted'[d] > 0 /\ <<d[3], d[4]>> \in Reachable
    <2> SUFFICES ASSUME NEW d \in Key, delivery'[d] = "sent"
                 PROVE  accepted'[d] > 0 /\ <<d[3], d[4]>> \in Reachable
      OBVIOUS
    <2>1. accepted[d] > 0 /\ <<d[3], d[4]>> \in Reachable
      BY DEF RowsKept
    <2>2. QED
      BY <1>2, <2>1
  <1>4. QED
    BY <1>1, <1>3 DEF RowsKept

LEMMA InsertedRows ==
  ASSUME Typed, Typed', RowsKept, NEW r \in Run, AimsOf(r), run[r].pc = "inserting",
         notified' = notified \cup {Note(r)}, UNCHANGED <<rowVars, delivery, accepted>>
  PROVE  RowsKept'
  <1>1. occurrence[About(r)] # "absent" /\ Note(r)[1] = About(r)
    BY DEF AimsOf, Dispatching, Note
  <1>2. \A n \in notified' : occurrence'[n[1]] # "absent"
    BY <1>1 DEF RowsKept, rowVars
  <1>3. QED
    BY <1>2 DEF RowsKept, rowVars

LEMMA RecordedRows ==
  ASSUME Typed, Typed', RowsKept, NEW r \in Run, AimsOf(r), run[r].pc = "recording",
         delivery' = [delivery EXCEPT ![Target(r)] = run[r].result],
         UNCHANGED <<rowVars, notified, accepted>>
  PROVE  RowsKept'
  <1>1. run[r].pc \in Addressing
    BY DEF Addressing, Dispatching
  <1>2. /\ Target(r) \in Key /\ Target(r)[3] = To(r) /\ Target(r)[4] = run[r].channel
        /\ <<Target(r)[1], Target(r)[2], Target(r)[3]>> = Note(r)
    BY <1>1, AimsTyped
  <1>3. /\ Note(r) \in notified
        /\ run[r].result = "sent" => accepted[Target(r)] > 0 /\ <<To(r), run[r].channel>> \in Reachable
    BY DEF AimsOf
  <1>4. \A d \in Key : delivery'[d] = IF d = Target(r) THEN run[r].result ELSE delivery[d]
    BY DEF Typed
  <1>5. UNCHANGED <<occurrence, notified, accepted>>
    BY DEF rowVars
  <1>6. \A d \in Key : delivery'[d] # "absent" => <<d[1], d[2], d[3]>> \in notified'
    <2> TAKE d \in Key
    <2>1. CASE d = Target(r)
      BY <1>2, <1>3, <1>5, <2>1
    <2>2. CASE d # Target(r)
      BY <1>4, <1>5, <2>2 DEF RowsKept
    <2>3. QED
      BY <2>1, <2>2
  <1>7. \A d \in Key : delivery'[d] = "sent" => accepted'[d] > 0 /\ <<d[3], d[4]>> \in Reachable
    <2> TAKE d \in Key
    <2>1. CASE d = Target(r)
      BY <1>2, <1>3, <1>4, <1>5, <2>1
    <2>2. CASE d # Target(r)
      BY <1>4, <1>5, <2>2 DEF RowsKept
    <2>3. QED
      BY <2>1, <2>2
  <1>8. QED
    BY <1>5, <1>6, <1>7 DEF RowsKept

\* The steps of a run between its start and the end of its last dispatch, without
\* the upsert.
Proceeds(r) ==
    \/ LoadExisting(r) \/ Dispatch(r) \/ Finish(r) \/ GiveUp(r)
    \/ DispatchFails(r) \/ NextRecipient(r) \/ EndDispatch(r) \/ Insert(r)
    \/ LoadDelivery(r) \/ Send(r) \/ LoseAnswer(r) \/ Record(r)

LEMMA ProceedsWork ==
  ASSUME Typed, RowsKept, NEW r \in Run, AimsOf(r), Proceeds(r)
  PROVE  Goes(r) /\ AimsOf(r)' /\ RowsKept'
  <1>1. run[r].pc \in Addressing =>
          /\ Note(r) \in Obligation \X Milestone \X Recipient /\ Target(r) \in Key
          /\ Target(r)[3] = To(r) /\ Target(r)[4] = run[r].channel
    BY AimsTyped
  <1>2. /\ {"inserting", "delivering", "sending", "recording"} \subseteq Addressing
        /\ Addressing \subseteq Dispatching
    BY DEF Addressing, Dispatching
  <1>3. "choosing" \notin Dispatching /\ "idle" \notin Dispatching /\ "saving" \notin Dispatching
        /\ "loading" \notin Dispatching
    BY DEF Dispatching
  <1>4. run[r].pc \notin {"delivering", "sending", "recording"} => run[r].channel = "email"
    BY DEF AimsOf
  <1>5. run[r].pc = "choosing" \/ run[r].pc = "loading" => run[r].channel = "email"
    BY <1>4
  <1>6. CASE LoadExisting(r)
    <2>1. /\ Goes(r) /\ UNCHANGED <<rowVars, notified, delivery, accepted>>
          /\ run[r].pc = "loading" /\ run'[r].pc = "saving"
          /\ run'[r].todo = run[r].todo /\ run'[r].channel = run[r].channel
      BY <1>6, LoadExistingStep
    <2>2. Typed' /\ Grows /\ run'[r].day = run[r].day
      BY <2>1 DEF Goes
    <2>3. AimsOf(r)'
      BY <1>3, <1>5, <2>1, <2>2, RestsAim
    <2>4. QED
      BY <2>1, <2>2, <2>3, GrowingRows
  <1>7. CASE Dispatch(r)
    <2>1. /\ Goes(r) /\ UNCHANGED <<rowVars, notified, delivery, accepted>>
          /\ run[r].pc = "choosing" /\ run'[r].pc = "recipient" /\ run'[r].channel = run[r].channel
      BY <1>7, DispatchStep
    <2>2. PICK o \in run[r].todo : run'[r].todo = run[r].todo \ {o} /\ run'[r].about = {o}
      BY <1>7, DispatchStep
    <2>3. Typed' /\ Grows /\ run'[r].day = run[r].day /\ run[r].todo \subseteq Obligation
      BY <2>1 DEF Goes, Typed, RunRecord
    <2>4. About(r)' = o
      BY <2>2, <2>3, AboutIs, TheOnly
    <2>5. \A u \in run[r].todo :
            occurrence'[u] # "absent" /\ DaysUntil(u, run'[r].day) \in Milestone
      BY <2>3 DEF AimsOf, Grows, DaysUntil
    <2>6. run'[r].pc \notin Addressing \cup {"delivering", "sending", "recording"}
      BY <2>1 DEF Addressing
    <2>7. AimsOf(r)'
      BY <1>5, <2>1, <2>2, <2>3, <2>4, <2>5, <2>6 DEF AimsOf, DaysUntil
    <2>8. QED
      BY <2>1, <2>3, <2>7, GrowingRows
  <1>8. CASE Finish(r) \/ GiveUp(r)
    <2>1. /\ Goes(r) /\ UNCHANGED <<rowVars, notified, delivery, accepted>> /\ run'[r].todo = {}
          /\ \/ run'[r] = NoRun
             \/ /\ run[r].pc \in Dispatching /\ run'[r].pc = run[r].pc
                /\ run'[r].about = run[r].about /\ run'[r].left = run[r].left
                /\ run'[r].to = run[r].to /\ run'[r].channel = run[r].channel
                /\ run'[r].seen = run[r].seen /\ run'[r].result = run[r].result
      BY <1>8, EndSteps
    <2>2. Typed' /\ Grows /\ RowsKept'
      BY <2>1, GrowingRows DEF Goes
    <2>3. CASE run'[r] = NoRun
      <3>1. run'[r].pc = "idle" /\ run'[r].channel = "email" /\ run'[r].todo = {}
        BY <2>3, NoRunTyped
      <3>2. AimsOf(r)'
        BY <1>3, <2>2, <3>1, RestsAim
      <3>3. QED
        BY <2>1, <2>2, <3>2
    <2>4. CASE run'[r] # NoRun
      <3>1. /\ run[r].pc \in Dispatching /\ run'[r].pc = run[r].pc
            /\ run'[r].about = run[r].about /\ run'[r].left = run[r].left
            /\ run'[r].to = run[r].to /\ run'[r].channel = run[r].channel
            /\ run'[r].seen = run[r].seen /\ run'[r].result = run[r].result
            /\ run'[r].day = run[r].day /\ run'[r].todo = {}
        BY <1>3, <2>1, <2>4 DEF Goes
      <3>2. /\ About(r)' = About(r) /\ To(r)' = To(r) /\ Note(r)' = Note(r) /\ Target(r)' = Target(r)
        BY <3>1, SameAim
      <3>3. UNCHANGED <<occurrence, notified, accepted>>
        BY <2>1 DEF rowVars
      <3>4. AimsOf(r)'
        BY <3>1, <3>2, <3>3 DEF AimsOf, DaysUntil
      <3>5. QED
        BY <2>1, <2>2, <3>4
    <2>5. QED
      BY <2>3, <2>4
  <1>9. CASE DispatchFails(r)
    <2>1. /\ Goes(r) /\ UNCHANGED <<rowVars, notified, delivery, accepted>>
          /\ run'[r].pc = "choosing" /\ run'[r].todo = run[r].todo /\ run'[r].channel = "email"
      BY <1>9, FailStep
    <2>2. Typed' /\ Grows /\ run'[r].day = run[r].day
      BY <2>1 DEF Goes
    <2>3. AimsOf(r)'
      BY <1>3, <2>1, <2>2, RestsAim
    <2>4. QED
      BY <2>1, <2>2, <2>3, GrowingRows
  <1>10. CASE EndDispatch(r)
    <2>1. /\ Goes(r) /\ UNCHANGED <<rowVars, notified, delivery, accepted>>
          /\ run[r].pc = "recipient" /\ run'[r].pc = "choosing" /\ run'[r].todo = run[r].todo
          /\ run'[r].channel = run[r].channel
      BY <1>10, EndDispatchStep
    <2>2. Typed' /\ Grows /\ run'[r].day = run[r].day /\ run'[r].channel = "email"
      BY <1>4, <2>1 DEF Goes
    <2>3. AimsOf(r)'
      BY <1>3, <2>1, <2>2, RestsAim
    <2>4. QED
      BY <2>1, <2>2, <2>3, GrowingRows
  <1>11. CASE NextRecipient(r)
    <2>1. /\ Goes(r) /\ UNCHANGED <<rowVars, notified, delivery, accepted>>
          /\ run[r].pc = "recipient" /\ run'[r].todo = run[r].todo
          /\ run'[r].about = run[r].about /\ run'[r].channel = run[r].channel
      BY <1>11, NextRecipientStep
    <2>2. PICK p \in run[r].left :
              /\ run'[r].left = run[r].left \ {p} /\ run'[r].to = {p}
              /\ run'[r].pc = IF <<About(r), DaysUntil(About(r), run[r].day), p>> \in notified
                              THEN "delivering" ELSE "inserting"
      BY <1>11, NextRecipientStep
    <2>3. /\ Typed' /\ Grows /\ run'[r].day = run[r].day /\ p \in Recipient
          /\ run'[r].channel = "email"
      BY <1>4, <2>1, <2>2 DEF Goes, Typed, RunRecord
    <2>4. About(r)' = About(r) /\ To(r)' = p
      BY <2>1, <2>2, <2>3, AboutIs, TheOnly
    <2>5. Note(r)' = <<About(r), DaysUntil(About(r), run[r].day), p>>
      BY <2>3, <2>4 DEF Note, DaysUntil
    <2>6. UNCHANGED <<occurrence, notified>>
      BY <2>1 DEF rowVars
    <2>7. run[r].pc \in Dispatching
      BY <2>1 DEF Dispatching
    <2>8. AimsOf(r)'
      BY <2>1, <2>2, <2>3, <2>4, <2>5, <2>6, <2>7 DEF AimsOf, DaysUntil
    <2>9. QED
      BY <2>1, <2>3, <2>8, GrowingRows
  <1>12. CASE Insert(r)
    <2>1. run[r].pc = "inserting" /\ Note(r) \in Obligation \X Milestone \X Recipient
      BY <1>1, <1>2, <1>12 DEF Insert, At
    <2>2. /\ Goes(r) /\ UNCHANGED <<rowVars, delivery, accepted>>
          /\ notified' = notified \cup {Note(r)}
          /\ \/ run'[r].pc = "choosing" /\ run'[r].todo = run[r].todo /\ run'[r].channel = "email"
             \/ Works(r) /\ run'[r].pc = "delivering" /\ run'[r].channel = run[r].channel
      BY <1>12, <2>1, InsertStep
    <2>3. Typed' /\ Grows /\ RowsKept'
      BY <2>1, <2>2, InsertedRows DEF Goes
    <2>4. run'[r].pc = "choosing" \/ run'[r].pc = "delivering" => run'[r].day = run[r].day
      BY <2>2 DEF Goes
    <2>5. CASE run'[r].pc = "choosing" /\ run'[r].todo = run[r].todo /\ run'[r].channel = "email"
      <3>1. AimsOf(r)'
        BY <1>3, <2>3, <2>4, <2>5, RestsAim
      <3>2. QED
        BY <2>2, <2>3, <3>1
    <2>6. CASE Works(r) /\ run'[r].pc = "delivering" /\ run'[r].channel = run[r].channel
      <3>1. run[r].pc \in Addressing /\ run'[r].pc \in Dispatching /\ Note(r) \in notified'
        BY <1>2, <2>1, <2>2, <2>6
      <3>2. AimsOf(r)'
        BY <2>3, <2>4, <2>6, <3>1, WorksAim
      <3>3. QED
        BY <2>2, <2>3, <3>2
    <2>7. QED
      BY <2>2, <2>5, <2>6
  <1>13. CASE LoadDelivery(r)
    <2>1. run[r].pc = "delivering" /\ Target(r) \in Key /\ run[r].pc \in Addressing
      BY <1>1, <1>2, <1>13 DEF LoadDelivery, At
    <2>2. /\ Goes(r) /\ UNCHANGED <<rowVars, notified, delivery, accepted>> /\ Works(r)
          /\ \/ /\ run[r].channel = "email" => run'[r].pc = "delivering" /\ run'[r].channel = "sms"
                /\ run[r].channel # "email" => run'[r].pc = "recipient" /\ run'[r].channel = "email"
             \/ /\ delivery[Target(r)] # "sent"
                /\ run'[r].pc = "sending" /\ run'[r].seen = delivery[Target(r)]
      BY <1>13, <2>1, LoadDeliveryStep
    <2>3. Note(r) \in notified
      BY <2>1 DEF AimsOf
    <2>4. /\ Typed' /\ Grows /\ run'[r].pc \in {"delivering", "recipient", "sending"}
          /\ run'[r].pc \in {"delivering", "recipient", "sending"} => run'[r].day = run[r].day
      BY <2>2 DEF Goes
    <2>5. run'[r].pc \in Dispatching
      BY <2>4 DEF Dispatching
    <2>6. AimsOf(r)'
      BY <2>1, <2>2, <2>3, <2>4, <2>5, WorksAim
    <2>7. QED
      BY <2>2, <2>4, <2>6, GrowingRows
  <1>14. CASE Send(r)
    <2>1. run[r].pc = "sending" /\ Target(r) \in Key /\ run[r].pc \in Addressing
      BY <1>1, <1>2, <1>14 DEF Send, At
    <2>2. /\ Goes(r) /\ UNCHANGED <<rowVars, notified, delivery>> /\ Works(r)
          /\ run'[r].pc = "recording"
          /\ run'[r].channel = run[r].channel /\ run'[r].seen = run[r].seen
          /\ run'[r].result = "sent" =>
              /\ accepted' = [accepted EXCEPT ![Target(r)] = @ + 1]
              /\ <<To(r), run[r].channel>> \in Reachable
      BY <1>14, <2>1, SendStep
    <2>3. Note(r) \in notified /\ run[r].seen # "sent"
      BY <2>1 DEF AimsOf
    <2>4. Typed' /\ Grows /\ run'[r].day = run[r].day /\ run'[r].pc \in Dispatching
      BY <2>2 DEF Goes, Dispatching
    <2>5. run'[r].result = "sent" => accepted'[Target(r)] > 0
      BY <2>1, <2>2 DEF Typed
    <2>6. AimsOf(r)'
      BY <2>1, <2>2, <2>3, <2>4, <2>5, WorksAim
    <2>7. QED
      BY <2>2, <2>4, <2>6, GrowingRows
  <1>15. CASE LoseAnswer(r)
    <2>1. Target(r) \in Key
      BY <1>1, <1>2, <1>15 DEF LoseAnswer, At
    <2>2. /\ Goes(r) /\ UNCHANGED <<rowVars, notified, delivery>>
          /\ run'[r].pc = "choosing" /\ run'[r].todo = run[r].todo /\ run'[r].channel = "email"
      BY <1>15, <2>1, LoseStep
    <2>3. Typed' /\ Grows /\ run'[r].day = run[r].day
      BY <2>2 DEF Goes
    <2>4. AimsOf(r)'
      BY <1>3, <2>2, <2>3, RestsAim
    <2>5. QED
      BY <2>2, <2>3, <2>4, GrowingRows
  <1>16. CASE Record(r)
    <2>1. run[r].pc = "recording" /\ Target(r) \in Key /\ run[r].pc \in Addressing
      BY <1>1, <1>2, <1>16 DEF Record, At
    <2>2. /\ Goes(r) /\ UNCHANGED <<rowVars, notified, accepted>>
          /\ \/ /\ delivery' = delivery
                /\ run'[r].pc = "choosing" /\ run'[r].todo = run[r].todo /\ run'[r].channel = "email"
             \/ /\ delivery' = [delivery EXCEPT ![Target(r)] = run[r].result]
                /\ Works(r)
                /\ run[r].channel = "email" => run'[r].pc = "delivering" /\ run'[r].channel = "sms"
                /\ run[r].channel # "email" => run'[r].pc = "recipient" /\ run'[r].channel = "email"
      BY <1>16, <2>1, RecordStep
    <2>3. Typed' /\ Grows
      BY <2>2 DEF Goes
    <2>4. run'[r].pc # "idle" => run'[r].day = run[r].day
      BY <2>2 DEF Goes
    <2>5. CASE /\ delivery' = delivery
               /\ run'[r].pc = "choosing" /\ run'[r].todo = run[r].todo /\ run'[r].channel = "email"
      <3>1. AimsOf(r)'
        BY <1>3, <2>3, <2>4, <2>5, RestsAim
      <3>2. QED
        BY <2>2, <2>3, <2>5, <3>1, GrowingRows
    <2>6. CASE /\ delivery' = [delivery EXCEPT ![Target(r)] = run[r].result]
               /\ Works(r)
               /\ run[r].channel = "email" => run'[r].pc = "delivering" /\ run'[r].channel = "sms"
               /\ run[r].channel # "email" => run'[r].pc = "recipient" /\ run'[r].channel = "email"
      <3>1. Note(r) \in notified /\ run'[r].pc \in {"delivering", "recipient"}
        BY <2>1, <2>6 DEF AimsOf
      <3>2. run'[r].pc \in Dispatching
        BY <3>1 DEF Dispatching
      <3>3. AimsOf(r)'
        BY <2>1, <2>2, <2>3, <2>4, <2>6, <3>1, <3>2, WorksAim
      <3>4. RowsKept'
        BY <2>1, <2>2, <2>3, <2>6, RecordedRows
      <3>5. QED
        BY <2>2, <3>3, <3>4
    <2>7. QED
      BY <2>2, <2>5, <2>6
  <1>17. QED
    BY <1>6, <1>7, <1>8, <1>9, <1>10, <1>11, <1>12, <1>13, <1>14, <1>15, <1>16 DEF Proceeds

\* The calendar and the users leave the runs alone.
Around ==
    NextDay \/ \E o \in Obligation : Approve(o) \/ \E status \in Terminal : Close(o, status)

LEMMA AroundStep ==
  ASSUME RemindersAssumption, Typed, Around
  PROVE  /\ Typed' /\ Grows /\ UNCHANGED <<notified, delivery, accepted, run, starts>>
         /\ \A o \in Obligation : occurrence[o] \in Terminal => occurrence'[o] \in Terminal
         /\ \A k \in Run : Kept(k)
  <1>1. UNCHANGED <<notified, delivery, accepted, run, starts>>
    BY DEF Around, NextDay, Approve, Close
  <1>2. /\ today' \in 0..MaxDay /\ active' \subseteq Obligation
    <2>1. MaxDay \in Nat
      BY DEF RemindersAssumption
    <2>2. CASE NextDay
      BY <2>1, <2>2 DEF NextDay, Typed
    <2>3. ASSUME NEW o \in Obligation, Approve(o) \/ \E status \in Terminal : Close(o, status)
          PROVE  today' \in 0..MaxDay /\ active' \subseteq Obligation
      BY <2>3 DEF Approve, Close, Typed
    <2>4. QED
      BY <2>2, <2>3 DEF Around
  <1>3. /\ occurrence' \in [Obligation -> Status]
        /\ \A o \in Obligation :
             /\ occurrence[o] # "absent" => occurrence'[o] # "absent"
             /\ occurrence[o] \in Terminal => occurrence'[o] \in Terminal
    <2>1. ASSUME NEW u \in Obligation, NEW status \in Terminal, Close(u, status)
          PROVE  /\ occurrence' \in [Obligation -> Status]
                 /\ \A o \in Obligation :
                      /\ occurrence[o] # "absent" => occurrence'[o] # "absent"
                      /\ occurrence[o] \in Terminal => occurrence'[o] \in Terminal
      BY <2>1 DEF Close, Typed, Status, Terminal
    <2>2. CASE occurrence' = occurrence
      BY <2>2 DEF Typed
    <2>3. QED
      BY <2>1, <2>2 DEF Around, NextDay, Approve
  <1>4. Typed'
    BY <1>1, <1>2, <1>3 DEF Typed
  <1>5. Grows
    <2>1. \A d \in Key : accepted[d] \in Nat
      BY DEF Typed
    <2>2. QED
      BY <1>1, <1>3, <2>1 DEF Grows
  <1>6. \A k \in Run : Kept(k)
    BY <1>1 DEF Kept
  <1>7. QED
    BY <1>1, <1>3, <1>4, <1>5, <1>6

LEMMA Cases ==
  ASSUME Next
  PROVE  Around \/ \E r \in Run : Start(r) \/ Save(r) \/ Proceeds(r)
  BY DEF Next, Around, Proceeds

LEMMA NextWork == RemindersAssumption /\ WorkInv /\ [Next]_vars => WorkInv'
  <1> SUFFICES ASSUME RemindersAssumption, WorkInv, [Next]_vars PROVE WorkInv'
    OBVIOUS
  <1>1. Typed /\ RowsKept /\ \A k \in Run : AimsOf(k)
    BY DEF WorkInv
  <1>2. CASE UNCHANGED vars
    <2>1. Typed' /\ RowsKept'
      BY <1>1, <1>2 DEF vars, Typed, RowsKept
    <2>2. Grows /\ \A k \in Run : Kept(k)
      <3>1. \A d \in Key : accepted[d] \in Nat
        BY <1>1 DEF Typed
      <3>2. QED
        BY <1>2, <3>1 DEF vars, Grows, Kept
    <2>3. QED
      BY <1>1, <2>1, <2>2, OthersAim DEF WorkInv
  <1>3. CASE Around
    <2>1. /\ Typed' /\ Grows /\ notified' = notified /\ delivery' = delivery
          /\ \A k \in Run : Kept(k)
      BY <1>1, <1>3, AroundStep
    <2>2. QED
      BY <1>1, <2>1, OthersAim, GrowingRows DEF WorkInv
  <1>4. ASSUME NEW r \in Run, Start(r) PROVE WorkInv'
    <2>1. /\ Typed' /\ Grows /\ notified' = notified /\ delivery' = delivery
          /\ \A k \in Run \ {r} : Kept(k)
          /\ run'[r].pc = "loading" /\ run'[r].todo = {} /\ run'[r].channel = "email"
      BY <1>1, <1>4, StartStep
    <2>2. AimsOf(r)'
      BY <1>1, <2>1, RestsAim DEF Dispatching
    <2>3. \A k \in Run : AimsOf(k)'
      BY <1>1, <2>1, <2>2, OthersAim
    <2>4. QED
      BY <1>1, <2>1, <2>3, GrowingRows DEF WorkInv
  <1>5. ASSUME NEW r \in Run, Save(r) PROVE WorkInv'
    <2>1. /\ Typed' /\ Grows /\ notified' = notified /\ delivery' = delivery
          /\ \A k \in Run \ {r} : Kept(k)
          /\ \A o \in Obligation : o \in run[r].rows => occurrence'[o] # "absent"
          /\ run[r].pc = "saving" /\ run'[r].pc = "choosing" /\ run[r] \in RunRecord
          /\ run'[r].todo = {o \in run[r].rows : DaysUntil(o, run[r].day) \in Milestone}
          /\ run'[r].channel = run[r].channel /\ run'[r].day = run[r].day
      BY <1>1, <1>5, SaveStep
    <2>2. run'[r].channel = "email"
      BY <1>1, <2>1 DEF AimsOf
    <2>3. \A o \in run'[r].todo :
            occurrence'[o] # "absent" /\ DaysUntil(o, run'[r].day) \in Milestone
      <3>1. run[r].rows \subseteq Obligation
        BY <2>1 DEF RunRecord
      <3>2. QED
        BY <2>1, <3>1 DEF DaysUntil
    <2>4. run'[r].pc \notin Dispatching \cup Addressing \cup {"delivering", "sending", "recording"}
      BY <2>1 DEF Dispatching, Addressing
    <2>5. AimsOf(r)'
      BY <2>2, <2>3, <2>4 DEF AimsOf, DaysUntil
    <2>6. \A k \in Run : AimsOf(k)'
      BY <1>1, <2>1, <2>5, OthersAim
    <2>7. QED
      BY <1>1, <2>1, <2>6, GrowingRows DEF WorkInv
  <1>6. ASSUME NEW r \in Run, Proceeds(r) PROVE WorkInv'
    <2>1. Goes(r) /\ AimsOf(r)' /\ RowsKept'
      BY <1>1, <1>6, ProceedsWork
    <2>2. Typed' /\ Grows /\ \A k \in Run \ {r} : Kept(k)
      BY <2>1 DEF Goes
    <2>3. \A k \in Run : AimsOf(k)'
      BY <1>1, <2>1, <2>2, OthersAim
    <2>4. QED
      BY <2>1, <2>2, <2>3 DEF WorkInv
  <1>7. QED
    BY <1>2, <1>3, <1>4, <1>5, <1>6, Cases

LEMMA InitWork == RemindersAssumption /\ Init => WorkInv
  <1> SUFFICES ASSUME RemindersAssumption, Init PROVE WorkInv
    OBVIOUS
  <1>1. /\ MaxDay \in Nat /\ MaxStarts \in Nat
    BY DEF RemindersAssumption
  <1>2. run \in [Run -> RunRecord] /\ \A r \in Run : run[r] = NoRun
    BY NoRunTyped DEF Init
  <1>3. Typed
    BY <1>1, <1>2 DEF Init, Typed, Status
  <1>4. RowsKept
    BY DEF Init, RowsKept
  <1>5. \A r \in Run : AimsOf(r)
    <2> TAKE r \in Run
    <2>1. run[r].pc = "idle" /\ run[r].todo = {} /\ run[r].channel = "email"
      BY <1>2, NoRunTyped
    <2>2. "idle" \notin Dispatching \cup Addressing
      BY DEF Dispatching, Addressing
    <2>3. QED
      BY <2>1, <2>2 DEF AimsOf
  <1>6. QED
    BY <1>3, <1>4, <1>5 DEF WorkInv

LEMMA AlwaysWork == Spec => []WorkInv
  BY RemindersAssumption, InitWork, NextWork, PTL DEF Spec

-----------------------------------------------------------------------------
(* How often a message is sent *)

\* The channels that a run has not sent to yet, of those of the recipient in hand.
Before(r, channel) ==
    IF run[r].pc = "recording" THEN run[r].channel = "email" /\ channel # "email"
                               ELSE run[r].channel = "email" \/ run[r].channel = channel

\* A run that may still send a message, of one obligation to one recipient.
MaySend(r, d) ==
    \/ run[r].pc \in {"loading", "saving"}
    \/ d[1] \in run[r].todo
    \/ /\ run[r].pc \in Dispatching /\ About(r) = d[1]
       /\ \/ d[3] \in run[r].left
          \/ run[r].pc \in Addressing /\ To(r) = d[3] /\ Before(r, d[4])

Senders(d) == {r \in Run : MaySend(r, d)}

\* No run sends a message twice: every start pays for one at most.
SentByStarts ==
    \A d \in Key : IsFiniteSet(Senders(d)) /\ accepted[d] + Cardinality(Senders(d)) <= starts

LEMMA OthersSend ==
  ASSUME NEW k \in Run, Kept(k), NEW d, MaySend(k, d)'
  PROVE  MaySend(k, d)
  <1>1. About(k)' = About(k) /\ To(k)' = To(k)
    BY SameAim DEF Kept
  <1>2. /\ run'[k].pc = run[k].pc /\ run'[k].todo = run[k].todo /\ run'[k].left = run[k].left
        /\ run'[k].channel = run[k].channel
    BY DEF Kept
  <1>3. QED
    BY <1>1, <1>2 DEF MaySend, Before

\* A run that goes on has less to send, and what it sends it does not send again.
LEMMA ProceedsSend ==
  ASSUME Typed, RowsKept, NEW r \in Run, AimsOf(r), Proceeds(r), NEW d \in Key
  PROVE  /\ MaySend(r, d)' => MaySend(r, d)
         /\ \/ accepted'[d] = accepted[d]
            \/ accepted'[d] = accepted[d] + 1 /\ MaySend(r, d) /\ ~MaySend(r, d)'
               /\ run[r].pc = "sending" /\ d = Target(r)
  <1>1. run[r].pc \in Addressing =>
          /\ Note(r) \in Obligation \X Milestone \X Recipient /\ Target(r) \in Key
          /\ Target(r)[1] = About(r) /\ Target(r)[3] = To(r) /\ Target(r)[4] = run[r].channel
    BY AimsTyped
  <1>2. /\ {"inserting", "delivering", "sending", "recording"} \subseteq Addressing
        /\ Addressing \subseteq Dispatching /\ "recipient" \notin Addressing
    BY DEF Addressing, Dispatching
  <1>3. "choosing" \notin Dispatching /\ "idle" \notin Dispatching
    BY DEF Dispatching
  <1>4. d[1] \in Obligation /\ d[3] \in Recipient /\ d[4] \in Channel
    BY DEF Key
  <1>5. run[r].channel \in Channel
    BY DEF Typed, RunRecord
  <1>6. ASSUME run'[r].pc \in {"choosing", "idle"}, run'[r].todo \subseteq run[r].todo
        PROVE  MaySend(r, d)' => MaySend(r, d)
    BY <1>3, <1>6 DEF MaySend
  <1>7. CASE LoadExisting(r)
    <2>1. run[r].pc = "loading" /\ accepted' = accepted
      BY <1>7, LoadExistingStep
    <2>2. QED
      BY <2>1 DEF MaySend
  <1>8. CASE Dispatch(r)
    <2>1. /\ Goes(r) /\ accepted' = accepted
          /\ run'[r].pc = "recipient"
      BY <1>8, DispatchStep
    <2>2. PICK o \in run[r].todo : run'[r].todo = run[r].todo \ {o} /\ run'[r].about = {o}
      BY <1>8, DispatchStep
    <2>3. o \in Obligation
      BY <2>2 DEF Typed, RunRecord
    <2>4. About(r)' = o
      BY <2>2, <2>3, AboutIs, TheOnly
    <2>5. MaySend(r, d)' => d[1] \in run[r].todo
      BY <1>2, <2>1, <2>2, <2>4 DEF MaySend
    <2>6. QED
      BY <2>1, <2>5 DEF MaySend
  <1>9. CASE Finish(r) \/ GiveUp(r)
    <2>1. /\ accepted' = accepted /\ run'[r].todo = {}
          /\ \/ run'[r] = NoRun
             \/ /\ run[r].pc \in Dispatching /\ run'[r].pc = run[r].pc
                /\ run'[r].about = run[r].about /\ run'[r].left = run[r].left
                /\ run'[r].to = run[r].to /\ run'[r].channel = run[r].channel
      BY <1>9, EndSteps
    <2>2. CASE run'[r] = NoRun
      BY <1>6, <2>1, <2>2, NoRunTyped
    <2>3. CASE run'[r] # NoRun
      <3>1. About(r)' = About(r) /\ To(r)' = To(r)
        BY <2>1, <2>3, SameAim
      <3>2. QED
        BY <2>1, <2>3, <3>1 DEF MaySend, Before
    <2>4. QED
      BY <2>2, <2>3
  <1>10. CASE DispatchFails(r)
    BY <1>6, <1>10, FailStep
  <1>11. CASE EndDispatch(r)
    BY <1>6, <1>11, EndDispatchStep
  <1>12. CASE NextRecipient(r)
    <2>1. /\ accepted' = accepted /\ run[r].pc = "recipient" /\ run'[r].todo = run[r].todo
          /\ run'[r].about = run[r].about
      BY <1>12, NextRecipientStep
    <2>2. PICK p \in run[r].left :
              /\ run'[r].left = run[r].left \ {p} /\ run'[r].to = {p}
              /\ run'[r].pc = IF <<About(r), DaysUntil(About(r), run[r].day), p>> \in notified
                              THEN "delivering" ELSE "inserting"
      BY <1>12, NextRecipientStep
    <2>3. p \in Recipient
      BY <2>2 DEF Typed, RunRecord
    <2>4. About(r)' = About(r) /\ To(r)' = p
      BY <2>1, <2>2, <2>3, AboutIs, TheOnly
    <2>5. run[r].pc \in Dispatching
      BY <2>1 DEF Dispatching
    <2>6. MaySend(r, d)' => MaySend(r, d)
      BY <2>1, <2>2, <2>4, <2>5 DEF MaySend
    <2>7. QED
      BY <2>1, <2>6
  <1>13. ASSUME Works(r), run[r].pc \in Addressing, run'[r].pc \in Dispatching,
                run'[r].pc \in Addressing /\ Before(r, d[4])' => Before(r, d[4])
         PROVE  MaySend(r, d)' => MaySend(r, d)
    <2>1. /\ run'[r].todo = run[r].todo /\ run'[r].left = run[r].left
          /\ About(r)' = About(r) /\ To(r)' = To(r)
      BY <1>13, SameAim DEF Works
    <2>2. run'[r].pc \notin {"loading", "saving"}
      BY <1>13 DEF Dispatching
    <2>3. QED
      BY <1>2, <1>13, <2>1, <2>2 DEF MaySend
  <1>14. CASE Insert(r)
    <2>1. run[r].pc = "inserting" /\ run[r].pc \in Addressing
          /\ Note(r) \in Obligation \X Milestone \X Recipient
      BY <1>1, <1>2, <1>14 DEF Insert, At
    <2>2. /\ accepted' = accepted
          /\ \/ run'[r].pc = "choosing" /\ run'[r].todo = run[r].todo
             \/ Works(r) /\ run'[r].pc = "delivering" /\ run'[r].channel = run[r].channel
      BY <1>14, <2>1, InsertStep
    <2>3. CASE Works(r) /\ run'[r].pc = "delivering" /\ run'[r].channel = run[r].channel
      <3>1. run'[r].pc \in Dispatching /\ (Before(r, d[4])' => Before(r, d[4]))
        BY <1>2, <2>1, <2>3 DEF Before
      <3>2. QED
        BY <1>13, <2>1, <2>2, <2>3, <3>1
    <2>4. QED
      BY <1>6, <2>2, <2>3
  <1>15. CASE LoadDelivery(r)
    <2>1. run[r].pc = "delivering" /\ run[r].pc \in Addressing /\ Target(r) \in Key
      BY <1>1, <1>2, <1>15 DEF LoadDelivery, At
    <2>2. /\ accepted' = accepted /\ Works(r)
          /\ \/ /\ run[r].channel = "email" => run'[r].pc = "delivering" /\ run'[r].channel = "sms"
                /\ run[r].channel # "email" => run'[r].pc = "recipient" /\ run'[r].channel = "email"
             \/ run'[r].pc = "sending" /\ run'[r].channel = run[r].channel
      BY <1>15, <2>1, LoadDeliveryStep
    <2>3. run'[r].pc \in {"delivering", "recipient", "sending"}
      BY <2>2
    <2>4. run'[r].pc \in Dispatching
      BY <2>3 DEF Dispatching
    <2>5. run'[r].pc \in Addressing /\ Before(r, d[4])' => Before(r, d[4])
      BY <1>2, <1>4, <1>5, <2>1, <2>2 DEF Before, Channel
    <2>6. QED
      BY <1>13, <2>1, <2>2, <2>4, <2>5
  <1>16. CASE Send(r)
    <2>1. run[r].pc = "sending" /\ run[r].pc \in Addressing /\ Target(r) \in Key
      BY <1>1, <1>2, <1>16 DEF Send, At
    <2>2. /\ Works(r) /\ run'[r].pc = "recording" /\ run'[r].channel = run[r].channel
          /\ accepted' \in {accepted, [accepted EXCEPT ![Target(r)] = @ + 1]}
      BY <1>16, <2>1, SendStep
    <2>3. run'[r].pc \in Dispatching
      BY <2>2 DEF Dispatching
    <2>4. Before(r, d[4])' => Before(r, d[4])
      BY <1>4, <1>5, <2>1, <2>2 DEF Before, Channel
    <2>5. MaySend(r, d)' => MaySend(r, d)
      BY <1>13, <2>1, <2>2, <2>3, <2>4
    <2>6. CASE d # Target(r)
      BY <2>1, <2>2, <2>5, <2>6 DEF Typed
    <2>7. CASE d = Target(r)
      <3>1. /\ d[1] = About(r) /\ d[3] = To(r) /\ d[4] = run[r].channel
            /\ About(r) \notin run[r].todo /\ To(r) \notin run[r].left
        BY <1>1, <1>2, <2>1, <2>7 DEF AimsOf
      <3>2. MaySend(r, d)
        BY <1>2, <2>1, <3>1 DEF MaySend, Before
      <3>3. About(r)' = About(r) /\ To(r)' = To(r) /\ run'[r].todo = run[r].todo
            /\ run'[r].left = run[r].left
        BY <2>2, SameAim DEF Works
      <3>4. ~Before(r, d[4])'
        BY <2>2, <3>1 DEF Before
      <3>5. ~MaySend(r, d)'
        BY <2>2, <3>1, <3>3, <3>4 DEF MaySend
      <3>6. accepted'[d] = accepted[d] \/ accepted'[d] = accepted[d] + 1
        BY <2>1, <2>2, <2>7 DEF Typed
      <3>7. QED
        BY <2>1, <2>5, <2>7, <3>2, <3>5, <3>6
    <2>8. QED
      BY <2>6, <2>7
  <1>17. CASE LoseAnswer(r)
    <2>1. run[r].pc = "sending" /\ run[r].pc \in Addressing /\ Target(r) \in Key
      BY <1>1, <1>2, <1>17 DEF LoseAnswer, At
    <2>2. /\ run'[r].pc = "choosing" /\ run'[r].todo = run[r].todo
          /\ accepted' = [accepted EXCEPT ![Target(r)] = @ + 1]
      BY <1>17, <2>1, LoseStep
    <2>3. MaySend(r, d)' => MaySend(r, d)
      BY <1>6, <2>2
    <2>4. CASE d # Target(r)
      BY <2>1, <2>2, <2>3, <2>4 DEF Typed
    <2>5. CASE d = Target(r)
      <3>1. /\ d[1] = About(r) /\ d[3] = To(r) /\ d[4] = run[r].channel
            /\ About(r) \notin run[r].todo
        BY <1>1, <1>2, <2>1, <2>5 DEF AimsOf
      <3>2. MaySend(r, d)
        BY <1>2, <2>1, <3>1 DEF MaySend, Before
      <3>3. ~MaySend(r, d)'
        BY <1>3, <2>2, <3>1 DEF MaySend
      <3>4. accepted'[d] = accepted[d] + 1
        BY <2>1, <2>2, <2>5 DEF Typed
      <3>5. QED
        BY <2>1, <2>5, <3>2, <3>3, <3>4
    <2>6. QED
      BY <2>4, <2>5
  <1>18. CASE Record(r)
    <2>1. run[r].pc = "recording" /\ run[r].pc \in Addressing /\ Target(r) \in Key
      BY <1>1, <1>2, <1>18 DEF Record, At
    <2>2. /\ accepted' = accepted
          /\ \/ run'[r].pc = "choosing" /\ run'[r].todo = run[r].todo
             \/ /\ Works(r)
                /\ run[r].channel = "email" => run'[r].pc = "delivering" /\ run'[r].channel = "sms"
                /\ run[r].channel # "email" => run'[r].pc = "recipient" /\ run'[r].channel = "email"
      BY <1>18, <2>1, RecordStep
    <2>3. CASE /\ Works(r)
               /\ run[r].channel = "email" => run'[r].pc = "delivering" /\ run'[r].channel = "sms"
               /\ run[r].channel # "email" => run'[r].pc = "recipient" /\ run'[r].channel = "email"
      <3>1. run'[r].pc \in {"delivering", "recipient"}
        BY <2>3
      <3>2. run'[r].pc \in Dispatching
        BY <3>1 DEF Dispatching
      <3>3. run'[r].pc \in Addressing /\ Before(r, d[4])' => Before(r, d[4])
        BY <1>2, <1>4, <1>5, <2>1, <2>3 DEF Before, Channel
      <3>4. QED
        BY <1>13, <2>1, <2>2, <2>3, <3>2, <3>3
    <2>4. QED
      BY <1>6, <2>2, <2>3
  <1>19. QED
    BY <1>7, <1>8, <1>9, <1>10, <1>11, <1>12, <1>14, <1>15, <1>16, <1>17, <1>18 DEF Proceeds

\* A start pays for a message.
LEMMA Paid ==
  ASSUME NEW before, NEW after, IsFiniteSet(before), NEW n \in Nat, NEW s \in Nat,
         n + Cardinality(before) <= s
  PROVE  /\ after \subseteq before =>
              IsFiniteSet(after) /\ n + Cardinality(after) <= s
         /\ \A r \in before : after \subseteq before \ {r} =>
              IsFiniteSet(after) /\ n + 1 + Cardinality(after) <= s
         /\ \A r : after \subseteq before \cup {r} =>
              IsFiniteSet(after) /\ n + Cardinality(after) <= s + 1
  <1>1. Cardinality(before) \in Nat
    BY FS_CardinalityType
  <1>2. ASSUME after \subseteq before
        PROVE  IsFiniteSet(after) /\ n + Cardinality(after) <= s
    <2>1. IsFiniteSet(after) /\ Cardinality(after) <= Cardinality(before)
      BY <1>2, FS_Subset
    <2>2. Cardinality(after) \in Nat
      BY <2>1, FS_CardinalityType
    <2>3. QED
      BY <1>1, <2>1, <2>2
  <1>3. ASSUME NEW r \in before, after \subseteq before \ {r}
        PROVE  IsFiniteSet(after) /\ n + 1 + Cardinality(after) <= s
    <2>1. IsFiniteSet(before \ {r}) /\ Cardinality(before \ {r}) = Cardinality(before) - 1
      BY FS_RemoveElement
    <2>2. IsFiniteSet(after) /\ Cardinality(after) <= Cardinality(before \ {r})
      BY <1>3, <2>1, FS_Subset
    <2>3. Cardinality(after) \in Nat
      BY <2>2, FS_CardinalityType
    <2>4. QED
      BY <1>1, <2>1, <2>2, <2>3
  <1>4. ASSUME NEW r, after \subseteq before \cup {r}
        PROVE  IsFiniteSet(after) /\ n + Cardinality(after) <= s + 1
    <2>1. IsFiniteSet(before \cup {r})
          /\ Cardinality(before \cup {r}) \in {Cardinality(before), Cardinality(before) + 1}
      BY FS_AddElement
    <2>2. IsFiniteSet(after) /\ Cardinality(after) <= Cardinality(before \cup {r})
      BY <1>4, <2>1, FS_Subset
    <2>3. Cardinality(after) \in Nat
      BY <2>2, FS_CardinalityType
    <2>4. QED
      BY <1>1, <2>1, <2>2, <2>3
  <1>5. QED
    BY <1>2, <1>3, <1>4

LEMMA NextSent == RemindersAssumption /\ WorkInv /\ SentByStarts /\ [Next]_vars => SentByStarts'
  <1> SUFFICES ASSUME RemindersAssumption, WorkInv, SentByStarts, [Next]_vars, NEW d \in Key
               PROVE  /\ IsFiniteSet(Senders(d)')
                      /\ accepted'[d] + Cardinality(Senders(d)') <= starts'
    BY DEF SentByStarts, Senders
  <1> DEFINE after == {k \in Run : MaySend(k, d)'}
  <1>1. Typed /\ RowsKept /\ \A k \in Run : AimsOf(k)
    BY DEF WorkInv
  <1>2. /\ IsFiniteSet(Senders(d)) /\ accepted[d] + Cardinality(Senders(d)) <= starts
        /\ accepted[d] \in Nat /\ starts \in Nat
    BY <1>1 DEF SentByStarts, Typed
  <1>3. Senders(d)' = after
    BY DEF Senders
  <1> HIDE DEF after
  <1>4. ASSUME after \subseteq Senders(d), accepted'[d] = accepted[d], starts' = starts
        PROVE  IsFiniteSet(after) /\ accepted'[d] + Cardinality(after) <= starts'
    BY <1>2, <1>4, Paid
  <1>5. CASE UNCHANGED vars
    <2>1. \A k \in Run : Kept(k)
      BY <1>5 DEF vars, Kept
    <2>2. after \subseteq Senders(d)
      BY <2>1, OthersSend DEF after, Senders
    <2>3. QED
      BY <1>3, <1>4, <1>5, <2>2 DEF vars
  <1>6. CASE Around
    <2>1. UNCHANGED <<accepted, starts>> /\ \A k \in Run : Kept(k)
      BY <1>1, <1>6, AroundStep
    <2>2. after \subseteq Senders(d)
      BY <2>1, OthersSend DEF after, Senders
    <2>3. QED
      BY <1>3, <1>4, <2>1, <2>2
  <1>7. ASSUME NEW r \in Run, Start(r)
        PROVE  IsFiniteSet(after) /\ accepted'[d] + Cardinality(after) <= starts'
    <2>1. accepted' = accepted /\ starts' = starts + 1 /\ \A k \in Run \ {r} : Kept(k)
      BY <1>1, <1>7, StartStep
    <2>2. after \subseteq Senders(d) \cup {r}
      BY <2>1, OthersSend DEF after, Senders
    <2>3. QED
      BY <1>2, <2>1, <2>2, Paid
  <1>8. ASSUME NEW r \in Run, Save(r)
        PROVE  IsFiniteSet(after) /\ accepted'[d] + Cardinality(after) <= starts'
    <2>1. /\ accepted' = accepted /\ starts' = starts /\ \A k \in Run \ {r} : Kept(k)
          /\ run[r].pc = "saving"
      BY <1>1, <1>8, SaveStep
    <2>2. MaySend(r, d)
      BY <2>1 DEF MaySend
    <2>3. after \subseteq Senders(d)
      BY <2>1, <2>2, OthersSend DEF after, Senders
    <2>4. QED
      BY <1>4, <2>1, <2>3
  <1>9. ASSUME NEW r \in Run, Proceeds(r)
        PROVE  IsFiniteSet(after) /\ accepted'[d] + Cardinality(after) <= starts'
    <2>1. /\ MaySend(r, d)' => MaySend(r, d)
          /\ \/ accepted'[d] = accepted[d]
             \/ accepted'[d] = accepted[d] + 1 /\ MaySend(r, d) /\ ~MaySend(r, d)'
      BY <1>1, <1>9, ProceedsSend
    <2>2. starts' = starts /\ \A k \in Run \ {r} : Kept(k)
      <3>1. starts' = starts
        BY <1>9 DEF Proceeds, LoadExisting, Dispatch, Finish, GiveUp, DispatchFails, NextRecipient,
                    EndDispatch, Insert, LoadDelivery, Send, LoseAnswer, Record, rowVars
      <3>2. QED
        BY <1>1, <1>9, <3>1, ProceedsWork DEF Goes
    <2>3. after \subseteq Senders(d)
      BY <2>1, <2>2, OthersSend DEF after, Senders
    <2>4. CASE accepted'[d] = accepted[d]
      BY <1>4, <2>2, <2>3, <2>4
    <2>5. CASE accepted'[d] = accepted[d] + 1 /\ MaySend(r, d) /\ ~MaySend(r, d)'
      <3>1. r \in Senders(d) /\ after \subseteq Senders(d) \ {r}
        BY <2>3, <2>5 DEF after, Senders
      <3>2. IsFiniteSet(after) /\ accepted[d] + 1 + Cardinality(after) <= starts
        BY <1>2, <3>1, Paid
      <3>3. QED
        BY <2>2, <2>5, <3>2
    <2>6. QED
      BY <2>1, <2>4, <2>5
  <1>10. QED
    BY <1>3, <1>5, <1>6, <1>7, <1>8, <1>9, Cases

LEMMA InitSent == RemindersAssumption /\ Init => SentByStarts
  <1> SUFFICES ASSUME RemindersAssumption, Init, NEW d \in Key
               PROVE  IsFiniteSet(Senders(d)) /\ accepted[d] + Cardinality(Senders(d)) <= starts
    BY DEF SentByStarts
  <1>1. \A r \in Run : run[r].pc = "idle" /\ run[r].todo = {}
    BY NoRunTyped DEF Init
  <1>2. Senders(d) = {}
    BY <1>1 DEF Senders, MaySend, Dispatching
  <1>3. accepted[d] = 0 /\ starts = 0
    BY DEF Init
  <1>4. QED
    BY <1>2, <1>3, FS_EmptySet

\* Rows and runs have the shape the code gives them, what a delivery says was
\* sent was taken by the provider, and no invocation has it taken twice.
THEOREM TypeCorrect == Spec => []TypeOK
  <1>1. RemindersAssumption /\ WorkInv /\ SentByStarts => TypeOK
    <2> SUFFICES ASSUME RemindersAssumption, WorkInv, SentByStarts PROVE TypeOK
      OBVIOUS
    <2>1. Typed /\ RowsKept
      BY DEF WorkInv
    <2>2. accepted \in [Key -> 0..MaxStarts]
      <3>1. MaxStarts \in Nat
        BY DEF RemindersAssumption
      <3>2. ASSUME NEW d \in Key PROVE accepted[d] \in 0..MaxStarts
        <4>1. IsFiniteSet(Senders(d)) /\ accepted[d] + Cardinality(Senders(d)) <= starts
          BY DEF SentByStarts
        <4>2. Cardinality(Senders(d)) \in Nat
          BY <4>1, FS_CardinalityType
        <4>3. accepted[d] \in Nat /\ starts \in 0..MaxStarts
          BY <2>1 DEF Typed
        <4>4. QED
          BY <3>1, <4>1, <4>2, <4>3
      <3>3. QED
        BY <2>1, <3>2 DEF Typed
    <2>3. QED
      BY <2>1, <2>2 DEF TypeOK, Typed, RowsKept, Status
  <1>2. QED
    BY <1>1, AlwaysWork, InitSent, NextSent, RemindersAssumption, PTL DEF Spec

-----------------------------------------------------------------------------
(* What a run has asked for, and whether it is alone *)

\* What a run works on was not closed when it began, or was opened again since.
AskedFor(r) ==
    /\ run[r].pc = "loading" =>
         \A o \in run[r].rows : occurrence[o] \notin Terminal => o \in run[r].asked
    /\ run[r].pc = "saving" => run[r].rows \subseteq run[r].asked
    /\ run[r].todo \subseteq run[r].asked
    /\ run[r].pc \in Dispatching => About(r) \in run[r].asked

\* What a run that is alone has read of a delivery is still so.
SeesAlone(r) ==
    run[r].alone /\ run[r].pc \in {"sending", "recording"} => delivery[Target(r)] = run[r].seen

Solo ==
    \A r, k \in Run : r # k /\ run[r].pc # "idle" /\ run[k].pc # "idle" => ~run[r].alone

HistoryInv == Solo /\ \A r \in Run : AskedFor(r) /\ SeesAlone(r)

LEMMA OthersAsked ==
  ASSUME NEW k \in Run, Kept(k), AskedFor(k), Typed,
         \A o \in Obligation : occurrence[o] \in Terminal /\ occurrence'[o] \notin Terminal =>
           (run[k].pc # "idle" => o \in run'[k].asked)
  PROVE  AskedFor(k)'
  <1>1. About(k)' = About(k)
    BY SameAim DEF Kept
  <1>2. /\ run'[k].pc = run[k].pc /\ run'[k].rows = run[k].rows /\ run'[k].todo = run[k].todo
        /\ run[k].asked \subseteq run'[k].asked /\ run[k].rows \subseteq Obligation
    BY DEF Kept, Typed, RunRecord
  <1>3. QED
    BY <1>1, <1>2 DEF AskedFor

LEMMA Awake ==
  ASSUME NEW r \in Run, Save(r) \/ Proceeds(r)
  PROVE  run[r].pc # "idle"
  BY DEF Save, Proceeds, LoadExisting, Dispatch, Finish, GiveUp, DispatchFails, NextRecipient,
         EndDispatch, Insert, LoadDelivery, Send, LoseAnswer, Record, At, Dispatching

\* A run that is alone stays so while others do not begin.
LEMMA StaysSolo ==
  ASSUME Solo, NEW r \in Run, run[r].pc # "idle", run'[r].pc # "idle" => run'[r].alone = run[r].alone,
         \A k \in Run \ {r} : Kept(k)
  PROVE  Solo'
  <1>1. \A k \in Run : run'[k].pc # "idle" => run[k].pc # "idle" /\ (run'[k].alone => run[k].alone)
    BY DEF Kept
  <1>2. QED
    BY <1>1 DEF Solo

\* While one run goes on, another is not alone.
LEMMA OthersSee ==
  ASSUME Solo, NEW r \in Run, run[r].pc # "idle", NEW k \in Run \ {r}, Kept(k)
  PROVE  SeesAlone(k)'
  BY DEF SeesAlone, Solo, Kept

LEMMA ProceedsAsked ==
  ASSUME Typed, RowsKept, NEW r \in Run, AimsOf(r), AskedFor(r), SeesAlone(r), Proceeds(r)
  PROVE  AskedFor(r)' /\ SeesAlone(r)'
  <1>1. /\ Goes(r)
        /\ run'[r].pc # "idle" => run'[r].asked = run[r].asked /\ run'[r].alone = run[r].alone
    BY ProceedsWork DEF Goes
  <1>2. run[r].pc \in Addressing => Target(r) \in Key
    BY AimsTyped
  <1>3. /\ {"inserting", "delivering", "sending", "recording"} \subseteq Addressing
        /\ Addressing \subseteq Dispatching
    BY DEF Addressing, Dispatching
  <1>4. ASSUME run'[r].pc \in {"choosing", "idle"}, run'[r].todo \subseteq run[r].todo,
               run'[r].pc = "idle" => run'[r].todo = {}
        PROVE  AskedFor(r)' /\ SeesAlone(r)'
    BY <1>1, <1>4 DEF AskedFor, SeesAlone, Dispatching
  <1>5. ASSUME run'[r].todo = run[r].todo, run'[r].about = run[r].about,
               run[r].pc \in Dispatching, run'[r].pc \in Dispatching \ {"sending", "recording"}
        PROVE  AskedFor(r)' /\ SeesAlone(r)'
    <2>1. About(r)' = About(r)
      BY <1>5, SameAim
    <2>2. run'[r].pc \notin {"idle", "loading", "saving"}
      BY <1>5 DEF Dispatching
    <2>3. QED
      BY <1>1, <1>5, <2>1, <2>2 DEF AskedFor, SeesAlone
  <1>6. CASE LoadExisting(r)
    <2>1. /\ run[r].pc = "loading" /\ run'[r].pc = "saving" /\ run'[r].todo = run[r].todo
          /\ run'[r].rows = {o \in run[r].rows : occurrence[o] \notin Terminal}
      BY <1>6, LoadExistingStep
    <2>2. QED
      BY <1>1, <2>1 DEF AskedFor, SeesAlone, Dispatching
  <1>7. CASE Dispatch(r)
    <2>1. run'[r].pc = "recipient" /\ run[r].todo \subseteq Obligation
      BY <1>7, DispatchStep DEF Typed, RunRecord
    <2>2. PICK o \in run[r].todo : run'[r].todo = run[r].todo \ {o} /\ run'[r].about = {o}
      BY <1>7, DispatchStep
    <2>3. About(r)' = o
      BY <2>1, <2>2, AboutIs, TheOnly
    <2>4. QED
      BY <1>1, <2>1, <2>2, <2>3 DEF AskedFor, SeesAlone
  <1>8. CASE Finish(r) \/ GiveUp(r)
    <2>1. /\ UNCHANGED <<rowVars, notified, delivery, accepted>> /\ run'[r].todo = {}
          /\ \/ run'[r] = NoRun
             \/ /\ run[r].pc \in Dispatching /\ run'[r].pc = run[r].pc
                /\ run'[r].about = run[r].about /\ run'[r].to = run[r].to
                /\ run'[r].channel = run[r].channel /\ run'[r].seen = run[r].seen
      BY <1>8, EndSteps
    <2>2. CASE run'[r] = NoRun
      BY <1>4, <2>1, <2>2, NoRunTyped
    <2>3. CASE run'[r] # NoRun
      <3>1. run'[r].day = run[r].day /\ run'[r].pc \notin {"idle", "loading", "saving"}
        BY <1>1, <2>1, <2>3 DEF Goes, Dispatching
      <3>2. About(r)' = About(r) /\ Target(r)' = Target(r)
        BY <2>1, <2>3, <3>1, SameAim
      <3>3. QED
        BY <1>1, <2>1, <2>3, <3>1, <3>2 DEF AskedFor, SeesAlone
    <2>4. QED
      BY <2>2, <2>3
  <1>9. CASE DispatchFails(r)
    BY <1>4, <1>9, FailStep
  <1>10. CASE EndDispatch(r)
    BY <1>4, <1>10, EndDispatchStep
  <1>11. CASE NextRecipient(r)
    <2>1. /\ run[r].pc = "recipient" /\ run'[r].todo = run[r].todo /\ run'[r].about = run[r].about
          /\ run'[r].pc \in {"delivering", "inserting"}
      BY <1>11, NextRecipientStep
    <2>2. QED
      BY <1>5, <2>1 DEF Dispatching
  <1>12. CASE Insert(r)
    <2>1. run[r].pc = "inserting" /\ Note(r) \in Obligation \X Milestone \X Recipient
      BY <1>3, <1>12, AimsTyped DEF Insert, At
    <2>2. \/ run'[r].pc = "choosing" /\ run'[r].todo = run[r].todo
          \/ Works(r) /\ run'[r].pc = "delivering"
      BY <1>12, <2>1, InsertStep
    <2>3. QED
      BY <1>4, <1>5, <2>1, <2>2 DEF Dispatching, Works
  <1>13. CASE LoadDelivery(r)
    <2>1. run[r].pc = "delivering" /\ Target(r) \in Key
      BY <1>2, <1>3, <1>13 DEF LoadDelivery, At
    <2>2. /\ Works(r) /\ UNCHANGED <<rowVars, notified, delivery, accepted>>
          /\ \/ run'[r].pc \in {"delivering", "recipient"}
             \/ /\ run'[r].pc = "sending" /\ run'[r].channel = run[r].channel
                /\ run'[r].seen = delivery[Target(r)]
      BY <1>13, <2>1, LoadDeliveryStep
    <2>3. CASE run'[r].pc = "sending" /\ run'[r].channel = run[r].channel
                /\ run'[r].seen = delivery[Target(r)]
      <3>1. /\ run'[r].about = run[r].about /\ run'[r].to = run[r].to /\ run'[r].day = run[r].day
            /\ run'[r].todo = run[r].todo /\ run[r].pc \in Dispatching
        BY <1>1, <2>1, <2>2, <2>3 DEF Works, Goes, Dispatching
      <3>2. About(r)' = About(r) /\ Target(r)' = Target(r)
        BY <2>3, <3>1, SameAim
      <3>3. QED
        BY <1>1, <2>2, <2>3, <3>1, <3>2 DEF AskedFor, SeesAlone
    <2>4. CASE run'[r].pc \in {"delivering", "recipient"}
      BY <1>5, <2>1, <2>2, <2>4 DEF Works, Dispatching
    <2>5. QED
      BY <2>2, <2>3, <2>4
  <1>14. CASE Send(r)
    <2>1. run[r].pc = "sending" /\ Target(r) \in Key
      BY <1>2, <1>3, <1>14 DEF Send, At
    <2>2. /\ Works(r) /\ delivery' = delivery /\ run'[r].pc = "recording"
          /\ run'[r].channel = run[r].channel /\ run'[r].seen = run[r].seen
      BY <1>14, <2>1, SendStep
    <2>3. /\ run'[r].about = run[r].about /\ run'[r].to = run[r].to /\ run'[r].day = run[r].day
          /\ run'[r].todo = run[r].todo /\ run[r].pc \in Dispatching
      BY <1>1, <2>1, <2>2 DEF Works, Goes, Dispatching
    <2>4. About(r)' = About(r) /\ Target(r)' = Target(r)
      BY <2>2, <2>3, SameAim
    <2>5. QED
      BY <1>1, <2>1, <2>2, <2>3, <2>4 DEF AskedFor, SeesAlone
  <1>15. CASE LoseAnswer(r)
    <2>1. Target(r) \in Key
      BY <1>2, <1>3, <1>15 DEF LoseAnswer, At
    <2>2. QED
      BY <1>4, <1>15, <2>1, LoseStep
  <1>16. CASE Record(r)
    <2>1. run[r].pc = "recording" /\ Target(r) \in Key
      BY <1>2, <1>3, <1>16 DEF Record, At
    <2>2. \/ run'[r].pc = "choosing" /\ run'[r].todo = run[r].todo
          \/ Works(r) /\ run'[r].pc \in {"delivering", "recipient"}
      BY <1>16, <2>1, RecordStep
    <2>3. QED
      BY <1>4, <1>5, <2>1, <2>2 DEF Works, Dispatching
  <1>17. QED
    BY <1>6, <1>7, <1>8, <1>9, <1>10, <1>11, <1>12, <1>13, <1>14, <1>15, <1>16 DEF Proceeds

LEMMA ProceedsRows ==
  ASSUME NEW r \in Run, Proceeds(r)
  PROVE  occurrence' = occurrence
  BY DEF Proceeds, LoadExisting, Dispatch, Finish, GiveUp, DispatchFails, NextRecipient,
         EndDispatch, Insert, LoadDelivery, Send, LoseAnswer, Record, rowVars

LEMMA NextHistory ==
  RemindersAssumption /\ WorkInv /\ HistoryInv /\ [Next]_vars => HistoryInv'
  <1> SUFFICES ASSUME RemindersAssumption, WorkInv, HistoryInv, [Next]_vars PROVE HistoryInv'
    OBVIOUS
  <1>1. /\ Typed /\ RowsKept /\ Solo
        /\ \A k \in Run : AimsOf(k) /\ AskedFor(k) /\ SeesAlone(k)
    BY DEF WorkInv, HistoryInv
  <1>2. CASE UNCHANGED vars \/ Around
    <2>1. UNCHANGED <<delivery, run>>
      BY <1>2 DEF vars, Around, NextDay, Approve, Close
    <2>2. \A o \in Obligation : occurrence[o] \in Terminal => occurrence'[o] \in Terminal
      BY <1>1, <1>2, AroundStep DEF vars
    <2>3. \A k \in Run : Kept(k) /\ Target(k)' = Target(k)
      BY <2>1, SameAim DEF Kept
    <2>4. \A k \in Run : AskedFor(k)' /\ SeesAlone(k)'
      BY <1>1, <2>1, <2>2, <2>3, OthersAsked DEF SeesAlone
    <2>5. QED
      BY <1>1, <2>1, <2>4 DEF HistoryInv, Solo
  <1>3. ASSUME NEW r \in Run, Start(r) PROVE HistoryInv'
    <2>1. /\ UNCHANGED <<active, occurrence>>
          /\ \A k \in Run \ {r} : Kept(k) /\ (run[k].pc # "idle" => ~run'[k].alone)
          /\ run[r].pc = "idle" /\ run'[r].pc = "loading" /\ run'[r].todo = {}
          /\ run'[r].rows = {o \in active : Falls(o, today)}
          /\ run'[r].asked = {o \in active : occurrence[o] \notin Terminal}
          /\ run'[r].alone \/ run'[r].clean => \A k \in Run \ {r} : run[k].pc = "idle"
      BY <1>1, <1>3, StartStep
    <2>2. \A k \in Run \ {r} : run'[k].pc = run[k].pc
      BY <2>1 DEF Kept
    <2>3. Solo'
      BY <2>1, <2>2 DEF Solo
    <2>4. AskedFor(r)' /\ SeesAlone(r)'
      BY <2>1 DEF AskedFor, SeesAlone, Dispatching
    <2>5. \A k \in Run \ {r} : AskedFor(k)'
      BY <1>1, <2>1, OthersAsked
    <2>6. \A k \in Run \ {r} : SeesAlone(k)'
      BY <2>1, <2>2 DEF SeesAlone
    <2>7. QED
      BY <2>3, <2>4, <2>5, <2>6 DEF HistoryInv
  <1>4. ASSUME NEW r \in Run, Save(r) PROVE HistoryInv'
    <2>1. /\ \A o \in Obligation : o \notin run[r].rows => occurrence'[o] = occurrence[o]
          /\ \A k \in Run \ {r} : Kept(k) /\ (run[k].pc # "idle" => run[r].rows \subseteq run'[k].asked)
          /\ run[r].pc = "saving" /\ run'[r].pc = "choosing"
          /\ run'[r].todo = {o \in run[r].rows : DaysUntil(o, run[r].day) \in Milestone}
          /\ run'[r].asked = run[r].asked /\ run'[r].alone = run[r].alone
      BY <1>1, <1>4, SaveStep
    <2>2. Solo' /\ \A k \in Run \ {r} : SeesAlone(k)'
      BY <1>1, <2>1, StaysSolo, OthersSee
    <2>3. \A k \in Run \ {r} : AskedFor(k)'
      <3> TAKE k \in Run \ {r}
      <3>1. \A o \in Obligation : occurrence[o] \in Terminal /\ occurrence'[o] \notin Terminal =>
              (run[k].pc # "idle" => o \in run'[k].asked)
        BY <2>1
      <3>2. QED
        BY <1>1, <2>1, <3>1, OthersAsked
    <2>4. AskedFor(r)' /\ SeesAlone(r)'
      <3>1. run[r].rows \subseteq run[r].asked
        BY <1>1, <2>1 DEF AskedFor
      <3>2. QED
        BY <2>1, <3>1 DEF AskedFor, SeesAlone, Dispatching
    <2>5. QED
      BY <2>2, <2>3, <2>4 DEF HistoryInv
  <1>5. ASSUME NEW r \in Run, Proceeds(r) PROVE HistoryInv'
    <2>1. /\ \A k \in Run \ {r} : Kept(k)
          /\ run[r].pc # "idle" /\ (run'[r].pc # "idle" => run'[r].alone = run[r].alone)
      BY <1>1, <1>5, ProceedsWork, Awake DEF Goes
    <2>2. Solo' /\ \A k \in Run \ {r} : SeesAlone(k)'
      BY <1>1, <2>1, StaysSolo, OthersSee
    <2>3. \A k \in Run \ {r} : AskedFor(k)'
      <3>1. occurrence' = occurrence
        BY <1>5, ProceedsRows
      <3>2. QED
        BY <1>1, <2>1, <3>1, OthersAsked
    <2>4. AskedFor(r)' /\ SeesAlone(r)'
      BY <1>1, <1>5, ProceedsAsked
    <2>5. QED
      BY <2>2, <2>3, <2>4 DEF HistoryInv
  <1>6. QED
    BY <1>2, <1>3, <1>4, <1>5, Cases

LEMMA InitHistory == Init => HistoryInv
  <1> SUFFICES ASSUME Init PROVE HistoryInv
    OBVIOUS
  <1>1. \A r \in Run : run[r].pc = "idle" /\ run[r].todo = {}
    BY NoRunTyped DEF Init
  <1>2. QED
    BY <1>1 DEF HistoryInv, Solo, AskedFor, SeesAlone, Dispatching

LEMMA AlwaysHistory == Spec => [](WorkInv /\ HistoryInv)
  BY RemindersAssumption, AlwaysWork, InitHistory, NextHistory, PTL DEF Spec

\* Who sends in a step, and who changes a delivery.
LEMMA WhoSends ==
  ASSUME RemindersAssumption, WorkInv, Next, NEW d \in Key,
         accepted'[d] # accepted[d] \/ delivery'[d] # delivery[d]
  PROVE  \E r \in Run : run[r].pc \in {"sending", "recording"} /\ Target(r) = d
                        /\ (accepted'[d] # accepted[d] => run[r].pc = "sending")
  <1>1. Typed /\ RowsKept /\ \A k \in Run : AimsOf(k)
    BY DEF WorkInv
  <1>2. \/ ~Around /\ \A r \in Run : ~Start(r) /\ ~Save(r)
        \/ UNCHANGED <<accepted, delivery>>
    BY <1>1, AroundStep, StartStep, SaveStep
  <1>3. PICK r \in Run : Proceeds(r)
    BY <1>2, Cases
  <1>4. CASE accepted'[d] # accepted[d]
    <2>1. run[r].pc = "sending" /\ d = Target(r)
      BY <1>1, <1>3, <1>4, ProceedsSend
    <2>2. QED
      BY <2>1
  <1>5. CASE accepted'[d] = accepted[d]
    <2>1. Record(r)
      BY <1>3, <1>5 DEF Proceeds, LoadExisting, Dispatch, Finish, GiveUp, DispatchFails,
         NextRecipient, EndDispatch, Insert, LoadDelivery, Send, LoseAnswer
    <2>2. run[r].pc = "recording" /\ run[r].pc \in Addressing
      BY <2>1 DEF Record, At, Addressing, Dispatching
    <2>3. delivery' \in {delivery, [delivery EXCEPT ![Target(r)] = run[r].result]}
      BY <2>1 DEF Record
    <2>4. d = Target(r)
      BY <1>1, <1>5, <2>3 DEF Typed
    <2>5. QED
      BY <1>5, <2>2, <2>4
  <1>6. QED
    BY <1>4, <1>5

\* No run reminds of what has been closed since before it began, or opens it
\* again, whatever the others do meanwhile.
THEOREM ClosedStaysQuiet == Spec => ClosedIsQuiet
  <1>1. RemindersAssumption /\ WorkInv /\ HistoryInv /\ [Next]_vars =>
         [\A o \in Obligation :
            /\ (\E d \in Key : d[1] = o /\ accepted'[d] # accepted[d]) =>
                 \E r \in Run : run[r].about = {o} /\ o \in run[r].asked
            /\ occurrence[o] \in Terminal /\ occurrence'[o] \notin Terminal =>
                 \E r \in Run : At(r, "saving") /\ o \in run[r].asked]_vars
    <2> SUFFICES ASSUME RemindersAssumption, WorkInv, HistoryInv, Next, NEW o \in Obligation
                 PROVE  /\ (\E d \in Key : d[1] = o /\ accepted'[d] # accepted[d]) =>
                             \E r \in Run : run[r].about = {o} /\ o \in run[r].asked
                        /\ occurrence[o] \in Terminal /\ occurrence'[o] \notin Terminal =>
                             \E r \in Run : At(r, "saving") /\ o \in run[r].asked
      OBVIOUS
    <2>1. /\ Typed /\ \A k \in Run : AimsOf(k) /\ AskedFor(k)
      BY DEF WorkInv, HistoryInv
    <2>2. ASSUME NEW d \in Key, d[1] = o, accepted'[d] # accepted[d]
          PROVE  \E r \in Run : run[r].about = {o} /\ o \in run[r].asked
      <3>1. PICK r \in Run : run[r].pc = "sending" /\ Target(r) = d
        BY <2>2, WhoSends
      <3>2. run[r].pc \in Dispatching
        BY <3>1 DEF Dispatching
      <3>3. d[1] = About(r)
        BY <3>1 DEF Target
      <3>4. QED
        BY <2>1, <2>2, <3>2, <3>3 DEF AimsOf, AskedFor
    <2>3. ASSUME occurrence[o] \in Terminal, occurrence'[o] \notin Terminal
          PROVE  \E r \in Run : At(r, "saving") /\ o \in run[r].asked
      <3>1. PICK r \in Run : Start(r) \/ Save(r) \/ Proceeds(r)
        BY <2>1, <2>3, AroundStep, Cases
      <3>2. Save(r)
        BY <2>1, <2>3, <3>1, StartStep, ProceedsRows
      <3>3. run[r].pc = "saving" /\ o \in run[r].rows
        BY <2>1, <2>3, <3>2, SaveStep
      <3>4. QED
        BY <2>1, <3>3 DEF AskedFor, At
    <2>4. QED
      BY <2>2, <2>3
  <1>2. QED
    BY <1>1, AlwaysHistory, RemindersAssumption, PTL DEF Spec, ClosedIsQuiet

\* A run that has the time to itself neither sends again what is recorded as sent
\* nor takes the record back.
THEOREM RecordsHold == Spec => RecordedOnce
  <1>1. RemindersAssumption /\ WorkInv /\ HistoryInv /\ [Next]_vars =>
         [\A d \in Key :
            delivery[d] = "sent" /\ (delivery'[d] # "sent" \/ accepted'[d] # accepted[d]) =>
              \E r \in Run : run[r].pc \in {"sending", "recording"} /\ Target(r) = d /\ ~run[r].alone]_vars
    <2> SUFFICES ASSUME RemindersAssumption, WorkInv, HistoryInv, Next, NEW d \in Key,
                        delivery[d] = "sent", delivery'[d] # "sent" \/ accepted'[d] # accepted[d]
                 PROVE  \E r \in Run : /\ run[r].pc \in {"sending", "recording"} /\ Target(r) = d
                                       /\ ~run[r].alone
      OBVIOUS
    <2>1. PICK r \in Run : run[r].pc \in {"sending", "recording"} /\ Target(r) = d
      BY WhoSends
    <2>2. run[r].seen # "sent" /\ SeesAlone(r)
      BY <2>1 DEF WorkInv, AimsOf, HistoryInv
    <2>3. QED
      BY <2>1, <2>2 DEF SeesAlone
  <1>2. QED
    BY <1>1, AlwaysHistory, RemindersAssumption, PTL DEF Spec, RecordedOnce

-----------------------------------------------------------------------------
(* What a run in which nothing goes wrong has achieved *)

Answer(p, channel) == IF <<p, channel>> \in Reachable THEN "sent" ELSE "skipped"

\* A recipient has the notification, and was written to where there is an address.
Told(o, days, p) ==
    <<o, days, p>> \in notified
    /\ \A channel \in Channel : delivery[<<o, days, p, channel>>] = Answer(p, channel)

\* What a run has to see to: it falls due soon and is not closed.
Duty(r, o) ==
    /\ o \in run[r].asked /\ occurrence[o] \notin Terminal
    /\ DaysUntil(o, run[r].day) \in 0..Window

\* It is among the rows until these are saved, and is then on the list, in hand
\* or done.
SeenTo(r) ==
    /\ run[r].pc \in {"loading", "saving"} =>
         \A o \in Obligation : Duty(r, o) => o \in run[r].rows
    /\ run[r].pc \in Dispatching \cup {"choosing"} =>
         \A o \in Obligation : Duty(r, o) /\ DaysUntil(o, run[r].day) \in Milestone =>
           \/ o \in run[r].todo
           \/ run[r].pc \in Dispatching /\ About(r) = o
           \/ \A p \in Recipient : Told(o, DaysUntil(o, run[r].day), p)

\* Of the recipients, one is in hand, some are left and the others are done; of
\* the channels of the one in hand, email comes first.
ToldInTurn(r) ==
    /\ run[r].pc \in Dispatching =>
         \A p \in Recipient :
           \/ p \in run[r].left
           \/ run[r].pc \in Addressing /\ To(r) = p
           \/ Told(About(r), DaysUntil(About(r), run[r].day), p)
    /\ run[r].pc \in {"delivering", "sending", "recording"} /\ run[r].channel = "sms" =>
         delivery[<<About(r), DaysUntil(About(r), run[r].day), To(r), "email">>] = Answer(To(r), "email")
    /\ run[r].pc = "recording" => run[r].result = Answer(To(r), run[r].channel)

CleanOf(r) ==
    run[r].clean /\ run[r].pc # "idle" => run[r].alone /\ SeenTo(r) /\ ToldInTurn(r)

CleanInv == \A r \in Run : CleanOf(r)

LEMMA ToldStays ==
  ASSUME NEW o, NEW days, NEW p, Told(o, days, p), notified \subseteq notified',
         \A channel \in Channel :
            delivery'[<<o, days, p, channel>>] = delivery[<<o, days, p, channel>>]
  PROVE  Told(o, days, p)'
  BY DEF Told, Answer

\* A run that does not touch its message: what it had to see to it still has in
\* hand, or has done.
LEMMA SameDuty ==
  ASSUME NEW r \in Run, occurrence' = occurrence, run'[r].day = run[r].day,
         run'[r].asked = run[r].asked
  PROVE  \A o \in Obligation :
           /\ Duty(r, o)' <=> Duty(r, o)
           /\ DaysUntil(o, run'[r].day) = DaysUntil(o, run[r].day)
           /\ DaysUntil(o, run[r].day)' = DaysUntil(o, run[r].day)
  BY DEF Duty, DaysUntil

LEMMA ProceedsClean ==
  ASSUME Typed, RowsKept, NEW r \in Run, AimsOf(r), CleanOf(r), Proceeds(r)
  PROVE  CleanOf(r)'
  <1> SUFFICES ASSUME run'[r].clean, run'[r].pc # "idle"
               PROVE  run'[r].alone /\ SeenTo(r)' /\ ToldInTurn(r)'
    BY DEF CleanOf
  <1>1. /\ Goes(r) /\ Typed' /\ Grows
        /\ run'[r].day = run[r].day /\ run'[r].asked = run[r].asked
        /\ run'[r].alone = run[r].alone /\ run[r].clean /\ run[r].pc # "idle"
        /\ occurrence' = occurrence /\ notified \subseteq notified'
    BY ProceedsWork, ProceedsRows, Awake DEF Goes, Grows
  <1>2. run[r].alone /\ SeenTo(r) /\ ToldInTurn(r)
    BY <1>1 DEF CleanOf
  <1>3. \A o \in Obligation :
          /\ Duty(r, o)' <=> Duty(r, o)
          /\ DaysUntil(o, run'[r].day) = DaysUntil(o, run[r].day)
          /\ DaysUntil(o, run[r].day)' = DaysUntil(o, run[r].day)
    BY <1>1, SameDuty
  <1>4. run[r].pc \in Addressing =>
          /\ Note(r) \in Obligation \X Milestone \X Recipient /\ Target(r) \in Key
    BY AimsTyped
  <1>5. /\ {"inserting", "delivering", "sending", "recording"} \subseteq Addressing
        /\ Addressing \subseteq Dispatching /\ "recipient" \notin Addressing
        /\ "recipient" \in Dispatching /\ "choosing" \notin Dispatching
        /\ "loading" \notin Dispatching /\ "saving" \notin Dispatching
    BY DEF Addressing, Dispatching
  <1>6. ASSUME delivery' = delivery
        PROVE  \A o, days, p : Told(o, days, p) => Told(o, days, p)'
    BY <1>1, <1>6, ToldStays
  <1>7. /\ About(r)' = The(Obligation, run'[r].about) /\ To(r)' = The(Recipient, run'[r].to)
        /\ run'[r].about = run[r].about => About(r)' = About(r)
        /\ run'[r].to = run[r].to => To(r)' = To(r)
    BY AboutIs, SameAim
  \* What was done stays done.
  <1>8. ASSUME NEW o \in Obligation, NEW p \in Recipient,
               DaysUntil(o, run[r].day) \in Milestone,
               Told(o, DaysUntil(o, run[r].day), p),
               \A days \in Milestone : Told(o, days, p) => Told(o, days, p)'
        PROVE  Told(o, DaysUntil(o, run[r].day), p)'
    <2> DEFINE days == DaysUntil(o, run[r].day)
    <2>1. days' = days
      BY <1>3
    <2>2. Told(o, days, p) /\ days \in Milestone
      BY <1>8
    <2> HIDE DEF days
    <2>3. /\ <<o, days, p>> \in notified'
          /\ \A channel \in Channel : delivery'[<<o, days, p, channel>>] = Answer(p, channel)
      BY <1>8, <2>2 DEF Told, Answer
    <2>4. Told(o, days, p)'
      BY <2>1, <2>3 DEF Told, Answer
    <2>5. QED
      BY <2>4 DEF days
  \* What is on the list or in hand after a step that does not change its message.
  <1>9. ASSUME run[r].pc \in Dispatching, run'[r].pc \in Dispatching,
               run'[r].todo = run[r].todo, run'[r].about = run[r].about,
               \A o \in Obligation, days \in Milestone, p \in Recipient :
                 o # About(r) /\ Told(o, days, p) => Told(o, days, p)'
        PROVE  SeenTo(r)'
    <2>1. About(r)' = About(r)
      BY <1>7, <1>9
    <2>2. run'[r].pc \notin {"loading", "saving"}
      BY <1>5, <1>9
    <2>3. ASSUME NEW o \in Obligation, Duty(r, o)', DaysUntil(o, run'[r].day) \in Milestone
          PROVE  \/ o \in run'[r].todo
                 \/ run'[r].pc \in Dispatching /\ About(r)' = o
                 \/ \A p \in Recipient : Told(o, DaysUntil(o, run[r].day), p)'
      <3>1. \/ o \in run[r].todo
            \/ About(r) = o
            \/ o # About(r) /\ \A p \in Recipient : Told(o, DaysUntil(o, run[r].day), p)
        BY <1>2, <1>3, <1>9, <2>3 DEF SeenTo
      <3>2. DaysUntil(o, run[r].day) \in Milestone
        BY <1>3, <2>3
      <3>3. QED
        BY <1>8, <1>9, <2>1, <3>1, <3>2
    <2>4. QED
      BY <2>2, <2>3 DEF SeenTo
  \* The recipients after a step with one in hand.
  <1>10. ASSUME run[r].pc \in Addressing, run'[r].pc \in Dispatching, Works(r),
                \A o \in Obligation, days \in Milestone, p \in Recipient :
                  p # To(r) /\ Told(o, days, p) => Told(o, days, p)',
                run'[r].pc \in Addressing \/ Told(About(r), DaysUntil(About(r), run[r].day), To(r))'
         PROVE  \A p \in Recipient :
                  \/ p \in run'[r].left
                  \/ run'[r].pc \in Addressing /\ To(r)' = p
                  \/ Told(About(r), DaysUntil(About(r), run[r].day), p)'
    <2>1. About(r)' = About(r) /\ To(r)' = To(r) /\ run'[r].left = run[r].left
      BY <1>7, <1>10 DEF Works
    <2>2. /\ About(r) \in Obligation /\ run[r].pc \in Dispatching
          /\ DaysUntil(About(r), run[r].day) \in Milestone
      BY <1>5, <1>10 DEF AimsOf
    <2>3. ASSUME NEW p \in Recipient, p # To(r), Told(About(r), DaysUntil(About(r), run[r].day), p)
          PROVE  Told(About(r), DaysUntil(About(r), run[r].day), p)'
      <3> DEFINE o == About(r)
      <3>1. o \in Obligation /\ o' = o /\ DaysUntil(o, run[r].day) \in Milestone
        BY <2>1, <2>2
      <3>2. Told(o, DaysUntil(o, run[r].day), p)
        BY <2>3
      <3> HIDE DEF o
      <3>3. Told(o, DaysUntil(o, run[r].day), p)'
        BY <1>8, <1>10, <2>3, <3>1, <3>2
      <3>4. QED
        BY <3>3 DEF o
    <2>4. \A p \in Recipient :
           \/ p \in run[r].left
           \/ To(r) = p
           \/ Told(About(r), DaysUntil(About(r), run[r].day), p)
      BY <1>2, <2>2 DEF ToldInTurn
    <2>5. QED
      BY <1>10, <2>1, <2>3, <2>4
  <1>11. run[r].pc \in Dispatching =>
           /\ About(r) \in Obligation /\ DaysUntil(About(r), run[r].day) \in Milestone
           /\ run[r].pc \in Addressing => To(r) \in Recipient
    BY DEF AimsOf
  <1>12. CASE LoadExisting(r)
    <2>1. /\ run[r].pc = "loading" /\ run'[r].pc = "saving"
          /\ run'[r].rows = {o \in run[r].rows : occurrence[o] \notin Terminal}
      BY <1>12, LoadExistingStep
    <2>2. \A o \in Obligation : Duty(r, o)' => o \in run'[r].rows
      BY <1>2, <1>3, <2>1 DEF SeenTo, Duty
    <2>3. run'[r].pc \notin Dispatching \cup {"choosing", "delivering", "sending", "recording"}
      BY <1>5, <2>1
    <2>4. QED
      BY <1>1, <1>2, <2>1, <2>2, <2>3 DEF SeenTo, ToldInTurn
  <1>13. CASE Dispatch(r)
    <2>1. /\ UNCHANGED <<rowVars, notified, delivery, accepted>>
          /\ run[r].pc = "choosing" /\ run'[r].pc = "recipient"
      BY <1>13, DispatchStep
    <2>2. PICK o \in run[r].todo :
            run'[r].todo = run[r].todo \ {o} /\ run'[r].about = {o} /\ run'[r].left = Recipient
      BY <1>13, DispatchStep
    <2>3. About(r)' = o
      BY <1>7, <2>2, TheOnly DEF Typed, RunRecord
    <2>4. SeenTo(r)'
      <3>1. ASSUME NEW u \in Obligation, Duty(r, u)', DaysUntil(u, run'[r].day) \in Milestone
            PROVE  \/ u \in run'[r].todo
                   \/ About(r)' = u
                   \/ \A p \in Recipient : Told(u, DaysUntil(u, run[r].day), p)'
        <4>1. u \in run[r].todo \/ \A p \in Recipient : Told(u, DaysUntil(u, run[r].day), p)
          BY <1>2, <1>3, <1>5, <2>1, <3>1 DEF SeenTo
        <4>2. DaysUntil(u, run[r].day) \in Milestone
          BY <1>3, <3>1
        <4>3. QED
          BY <1>6, <1>8, <2>1, <2>2, <2>3, <4>1, <4>2
      <3>2. QED
        BY <2>1, <1>5, <3>1 DEF SeenTo
    <2>5. ToldInTurn(r)'
      BY <1>5, <2>1, <2>2 DEF ToldInTurn
    <2>6. QED
      BY <1>1, <1>2, <2>4, <2>5
  <1>14. CASE Finish(r) \/ GiveUp(r)
    BY <1>14, EndSteps, NoRunTyped
  <1>15. CASE DispatchFails(r)
    BY <1>15, FailStep
  <1>16. CASE EndDispatch(r)
    <2>1. /\ UNCHANGED <<rowVars, notified, delivery, accepted>>
          /\ run[r].pc = "recipient" /\ run[r].left = {} /\ run'[r].pc = "choosing"
          /\ run'[r].todo = run[r].todo
      BY <1>16, EndDispatchStep
    <2>2. \A p \in Recipient : Told(About(r), DaysUntil(About(r), run[r].day), p)
      BY <1>2, <1>5, <2>1 DEF ToldInTurn
    <2>3. ASSUME NEW o \in Obligation, Duty(r, o)', DaysUntil(o, run'[r].day) \in Milestone
          PROVE  \/ o \in run'[r].todo
                 \/ \A p \in Recipient : Told(o, DaysUntil(o, run[r].day), p)'
      <3>1. \/ o \in run[r].todo
            \/ \A p \in Recipient : Told(o, DaysUntil(o, run[r].day), p)
        BY <1>2, <1>3, <1>5, <2>1, <2>2, <2>3 DEF SeenTo
      <3>2. DaysUntil(o, run[r].day) \in Milestone
        BY <1>3, <2>3
      <3>3. QED
        BY <1>6, <1>8, <2>1, <3>1, <3>2
    <2>4. SeenTo(r)' /\ ToldInTurn(r)'
      BY <1>5, <2>1, <2>3 DEF SeenTo, ToldInTurn
    <2>5. QED
      BY <1>1, <1>2, <2>4
  <1>17. CASE NextRecipient(r)
    <2>1. /\ UNCHANGED <<rowVars, notified, delivery, accepted>>
          /\ run[r].pc = "recipient" /\ run'[r].todo = run[r].todo
          /\ run'[r].about = run[r].about /\ run'[r].channel = run[r].channel
          /\ run'[r].pc \in {"delivering", "inserting"}
      BY <1>17, NextRecipientStep
    <2>2. PICK q \in run[r].left : run'[r].left = run[r].left \ {q} /\ run'[r].to = {q}
      BY <1>17, NextRecipientStep
    <2>3. To(r)' = q /\ About(r)' = About(r)
      BY <1>7, <2>1, <2>2, TheOnly DEF Typed, RunRecord
    <2>4. run'[r].pc \in Addressing /\ run'[r].pc \in Dispatching /\ run[r].pc \in Dispatching
      BY <1>5, <2>1
    <2>5. SeenTo(r)'
      BY <1>6, <1>9, <2>1, <2>4
    <2>6. ASSUME NEW p \in Recipient
          PROVE  \/ p \in run'[r].left
                 \/ To(r)' = p
                 \/ Told(About(r), DaysUntil(About(r), run[r].day), p)'
      <3>1. \/ p \in run[r].left
            \/ Told(About(r), DaysUntil(About(r), run[r].day), p)
        BY <1>2, <1>5, <2>1 DEF ToldInTurn
      <3> DEFINE o == About(r)
      <3>2. o \in Obligation /\ o' = o /\ DaysUntil(o, run[r].day) \in Milestone
        BY <1>11, <2>3, <2>4
      <3>3. \A days \in Milestone : Told(o, days, p) => Told(o, days, p)'
        <4> HIDE DEF o
        <4>1. \A days \in Milestone : Told(o, days, p) => Told(o, days, p)'
          BY <1>6, <2>1, <3>2
        <4>2. QED
          BY <4>1
      <3>4. CASE Told(About(r), DaysUntil(About(r), run[r].day), p)
        <4>1. Told(o, DaysUntil(o, run[r].day), p)
          BY <3>4
        <4> HIDE DEF o
        <4>2. Told(o, DaysUntil(o, run[r].day), p)'
          BY <1>8, <3>2, <3>3, <4>1
        <4>3. QED
          BY <4>2 DEF o
      <3>5. QED
        BY <2>2, <2>3, <3>1, <3>4
    <2>7. run'[r].channel # "sms"
      BY <2>1 DEF AimsOf
    <2>8. ToldInTurn(r)'
      BY <2>1, <2>4, <2>6, <2>7 DEF ToldInTurn
    <2>9. QED
      BY <1>1, <1>2, <2>5, <2>8
  <1>18. CASE Insert(r)
    <2>1. run[r].pc = "inserting" /\ Note(r) \in Obligation \X Milestone \X Recipient
      BY <1>4, <1>5, <1>18 DEF Insert, At
    <2>2. /\ delivery' = delivery
          /\ Works(r) /\ run'[r].pc = "delivering" /\ run'[r].channel = run[r].channel
      BY <1>18, <2>1, InsertStep
    <2>3. /\ run[r].pc \in Addressing /\ run'[r].pc \in Addressing
          /\ run[r].pc \in Dispatching /\ run'[r].pc \in Dispatching
      BY <1>5, <2>1, <2>2
    <2>4. SeenTo(r)'
      BY <1>6, <1>9, <2>2, <2>3 DEF Works
    <2>5. run'[r].channel # "sms"
      BY <2>1, <2>2 DEF AimsOf
    <2>6. ToldInTurn(r)'
      BY <1>6, <1>10, <2>2, <2>3, <2>5 DEF ToldInTurn
    <2>7. QED
      BY <1>1, <1>2, <2>4, <2>6
  <1>19. run[r].channel \in Channel
    BY DEF Typed, RunRecord
  \* The delivery in hand, by its parts.
  <1>20. Target(r) = <<About(r), DaysUntil(About(r), run[r].day), To(r), run[r].channel>>
         /\ Note(r) = <<About(r), DaysUntil(About(r), run[r].day), To(r)>>
    BY DEF Target, Note
  \* The recipient in hand, once both channels are done.
  <1>21. ASSUME run[r].pc \in Addressing, Works(r), Note(r) \in notified',
                run[r].channel = "sms",
                \A channel \in Channel :
                   delivery'[<<About(r), DaysUntil(About(r), run[r].day), To(r), channel>>]
                     = Answer(To(r), channel)
         PROVE  Told(About(r), DaysUntil(About(r), run[r].day), To(r))'
    <2>1. About(r)' = About(r) /\ To(r)' = To(r) /\ About(r) \in Obligation
      BY <1>5, <1>7, <1>11, <1>21 DEF Works
    <2>2. DaysUntil(About(r), run[r].day)' = DaysUntil(About(r), run[r].day)
      BY <1>1, <2>1 DEF DaysUntil
    <2>3. QED
      BY <1>20, <1>21, <2>1, <2>2 DEF Told, Answer
  \* What is said of the email of the recipient in hand, after a step that works on.
  <1>22. ASSUME run[r].pc \in Addressing, Works(r), run'[r].pc # "recording",
                run'[r].pc \in Dispatching,
                \A p \in Recipient :
                  \/ p \in run'[r].left
                  \/ run'[r].pc \in Addressing /\ To(r)' = p
                  \/ Told(About(r), DaysUntil(About(r), run[r].day), p)',
                run'[r].pc \in {"delivering", "sending"} /\ run'[r].channel = "sms" =>
                  delivery'[<<About(r), DaysUntil(About(r), run[r].day), To(r), "email">>]
                    = Answer(To(r), "email")
         PROVE  ToldInTurn(r)'
    <2>1. About(r)' = About(r) /\ To(r)' = To(r)
      BY <1>7, <1>22 DEF Works
    <2>2. DaysUntil(About(r), run[r].day)' = DaysUntil(About(r), run[r].day)
      BY <1>1, <2>1 DEF DaysUntil
    <2>3. run'[r].pc \in {"delivering", "sending", "recording"} /\ run'[r].channel = "sms" =>
            delivery'[<<About(r)', DaysUntil(About(r), run[r].day)', To(r)', "email">>]
              = Answer(To(r)', "email")
      BY <1>22, <2>1, <2>2
    <2>4. QED
      BY <1>22, <2>3 DEF ToldInTurn, Answer
  <1>23. CASE LoadDelivery(r)
    <2>1. run[r].pc = "delivering" /\ run[r].pc \in Addressing /\ Target(r) \in Key
      BY <1>4, <1>5, <1>23 DEF LoadDelivery, At
    <2>2. /\ delivery' = delivery /\ notified' = notified /\ Works(r)
          /\ \/ /\ delivery[Target(r)] = "sent"
                /\ run[r].channel = "email" => run'[r].pc = "delivering" /\ run'[r].channel = "sms"
                /\ run[r].channel # "email" => run'[r].pc = "recipient" /\ run'[r].channel = "email"
             \/ run'[r].pc = "sending" /\ run'[r].channel = run[r].channel
      BY <1>23, <2>1, LoadDeliveryStep
    <2>3. /\ run'[r].pc \in {"delivering", "recipient", "sending"} /\ run'[r].pc \in Dispatching
          /\ run[r].pc \in Dispatching
      BY <1>5, <2>1, <2>2
    <2>4. Note(r) \in notified /\ To(r) \in Recipient
      BY <1>11, <2>1, <2>3 DEF AimsOf
    <2>5. run[r].channel = "sms" =>
            delivery[<<About(r), DaysUntil(About(r), run[r].day), To(r), "email">>] = Answer(To(r), "email")
      BY <1>2, <2>1 DEF ToldInTurn
    <2>6. delivery[Target(r)] = "sent" => Answer(To(r), run[r].channel) = "sent"
      BY <1>20, <2>1 DEF RowsKept, Answer
    <2>7. SeenTo(r)'
      BY <1>6, <1>9, <2>2, <2>3 DEF Works
    <2>8. run'[r].pc \in Addressing \/ Told(About(r), DaysUntil(About(r), run[r].day), To(r))'
      <3>1. CASE run'[r].pc = "recipient"
        <4>1. run[r].channel = "sms" /\ delivery[Target(r)] = "sent"
          BY <1>19, <2>2, <3>1 DEF Channel
        <4>2. \A channel \in Channel :
                delivery'[<<About(r), DaysUntil(About(r), run[r].day), To(r), channel>>]
                  = Answer(To(r), channel)
          BY <1>20, <2>2, <2>5, <2>6, <4>1 DEF Channel
        <4>3. QED
          BY <1>21, <2>1, <2>2, <2>4, <4>1, <4>2
      <3>2. QED
        BY <1>5, <2>3, <3>1
    <2>9. run'[r].pc \in {"delivering", "sending"} /\ run'[r].channel = "sms" =>
            delivery'[<<About(r), DaysUntil(About(r), run[r].day), To(r), "email">>]
              = Answer(To(r), "email")
      <3>1. CASE run[r].channel = "sms"
        BY <2>2, <2>5, <3>1
      <3>2. CASE run[r].channel = "email"
        BY <1>20, <2>2, <2>6, <3>2
      <3>3. QED
        BY <1>19, <3>1, <3>2 DEF Channel
    <2>10. \A p \in Recipient :
             \/ p \in run'[r].left
             \/ run'[r].pc \in Addressing /\ To(r)' = p
             \/ Told(About(r), DaysUntil(About(r), run[r].day), p)'
      BY <1>6, <1>10, <2>1, <2>2, <2>3, <2>8
    <2>11. ToldInTurn(r)'
      BY <1>22, <2>1, <2>2, <2>3, <2>9, <2>10
    <2>12. QED
      BY <1>1, <1>2, <2>7, <2>11
  <1>24. CASE Send(r)
    <2>1. run[r].pc = "sending" /\ run[r].pc \in Addressing /\ Target(r) \in Key
      BY <1>4, <1>5, <1>24 DEF Send, At
    <2>2. /\ delivery' = delivery /\ Works(r) /\ run'[r].pc = "recording"
          /\ run'[r].channel = run[r].channel
          /\ run'[r].result = Answer(To(r), run[r].channel)
      BY <1>24, <2>1, SendStep DEF Answer, Best
    <2>3. /\ run'[r].pc \in Addressing /\ run'[r].pc \in Dispatching /\ run[r].pc \in Dispatching
      BY <1>5, <2>1, <2>2
    <2>4. SeenTo(r)'
      BY <1>6, <1>9, <2>2, <2>3 DEF Works
    <2>5. About(r)' = About(r) /\ To(r)' = To(r)
      BY <1>7, <2>2 DEF Works
    <2>6. DaysUntil(About(r), run[r].day)' = DaysUntil(About(r), run[r].day)
      BY <1>1, <2>5 DEF DaysUntil
    <2>7. run'[r].channel = "sms" =>
            delivery'[<<About(r)', DaysUntil(About(r), run[r].day)', To(r)', "email">>]
              = Answer(To(r)', "email")
      BY <1>2, <2>1, <2>2, <2>5, <2>6 DEF ToldInTurn
    <2>8. \A p \in Recipient :
            \/ p \in run'[r].left
            \/ run'[r].pc \in Addressing /\ To(r)' = p
            \/ Told(About(r), DaysUntil(About(r), run[r].day), p)'
      BY <1>6, <1>10, <2>1, <2>2, <2>3
    <2>9. ToldInTurn(r)'
      BY <2>2, <2>5, <2>7, <2>8 DEF ToldInTurn, Answer
    <2>10. QED
      BY <1>1, <1>2, <2>4, <2>9
  <1>25. CASE LoseAnswer(r)
    BY <1>4, <1>5, <1>25, LoseStep DEF LoseAnswer, At
  <1>26. CASE Record(r)
    <2>1. run[r].pc = "recording" /\ run[r].pc \in Addressing /\ Target(r) \in Key
      BY <1>4, <1>5, <1>26 DEF Record, At
    <2>2. /\ notified' = notified
          /\ delivery' = [delivery EXCEPT ![Target(r)] = run[r].result]
          /\ Works(r)
          /\ run[r].channel = "email" => run'[r].pc = "delivering" /\ run'[r].channel = "sms"
          /\ run[r].channel # "email" => run'[r].pc = "recipient" /\ run'[r].channel = "email"
      BY <1>26, <2>1, RecordStep
    <2>3. /\ run'[r].pc \in {"delivering", "recipient"} /\ run'[r].pc \in Dispatching
          /\ run[r].pc \in Dispatching
      BY <1>5, <2>1, <2>2
    <2>4. /\ Note(r) \in notified /\ To(r) \in Recipient /\ About(r) \in Obligation
          /\ DaysUntil(About(r), run[r].day) \in Milestone
      BY <1>11, <2>1, <2>3 DEF AimsOf
    <2>5. /\ run[r].result = Answer(To(r), run[r].channel)
          /\ run[r].channel = "sms" =>
               delivery[<<About(r), DaysUntil(About(r), run[r].day), To(r), "email">>]
                 = Answer(To(r), "email")
      BY <1>2, <2>1 DEF ToldInTurn
    <2>6. delivery \in [Key -> {"absent", "sent", "failed", "skipped"}]
      BY DEF Typed
    <2>7. /\ delivery'[Target(r)] = Answer(To(r), run[r].channel)
          /\ \A d \in Key : d # Target(r) => delivery'[d] = delivery[d]
      BY <2>1, <2>2, <2>5, <2>6
    <2>8. \A o \in Obligation, days \in Milestone, p \in Recipient :
            (o # About(r) \/ p # To(r)) /\ Told(o, days, p) => Told(o, days, p)'
      <3> SUFFICES ASSUME NEW o \in Obligation, NEW days \in Milestone, NEW p \in Recipient,
                          o # About(r) \/ p # To(r), Told(o, days, p)
                   PROVE  Told(o, days, p)'
        OBVIOUS
      <3>1. \A channel \in Channel :
              <<o, days, p, channel>> \in Key /\ <<o, days, p, channel>> # Target(r)
        BY <1>20 DEF Key
      <3>2. \A channel \in Channel :
              delivery'[<<o, days, p, channel>>] = delivery[<<o, days, p, channel>>]
        BY <2>7, <3>1
      <3>3. QED
        BY <1>1, <3>2, ToldStays
    <2>9. SeenTo(r)'
      BY <1>9, <2>2, <2>3, <2>8 DEF Works
    <2>10. run[r].channel = "sms" =>
             delivery'[<<About(r), DaysUntil(About(r), run[r].day), To(r), "email">>]
               = Answer(To(r), "email")
      <3>1. ASSUME run[r].channel = "sms"
            PROVE  /\ <<About(r), DaysUntil(About(r), run[r].day), To(r), "email">> \in Key
                   /\ <<About(r), DaysUntil(About(r), run[r].day), To(r), "email">> # Target(r)
        BY <1>20, <2>4, <3>1 DEF Key, Channel
      <3>2. QED
        BY <2>5, <2>7, <3>1
    <2>11. run'[r].pc \in Addressing \/ Told(About(r), DaysUntil(About(r), run[r].day), To(r))'
      <3>1. CASE run'[r].pc = "recipient"
        <4>1. run[r].channel = "sms"
          BY <1>19, <2>2, <3>1 DEF Channel
        <4>2. \A channel \in Channel :
                delivery'[<<About(r), DaysUntil(About(r), run[r].day), To(r), channel>>]
                  = Answer(To(r), channel)
          BY <1>20, <2>7, <2>10, <4>1 DEF Channel
        <4>3. QED
          BY <1>21, <2>1, <2>2, <2>4, <4>1, <4>2
      <3>2. QED
        BY <1>5, <2>3, <3>1
    <2>12. run'[r].pc \in {"delivering", "sending"} /\ run'[r].channel = "sms" =>
             delivery'[<<About(r), DaysUntil(About(r), run[r].day), To(r), "email">>]
               = Answer(To(r), "email")
      <3>1. CASE run[r].channel = "sms"
        BY <2>10, <3>1
      <3>2. CASE run[r].channel = "email"
        BY <1>20, <2>7, <3>2
      <3>3. QED
        BY <1>19, <3>1, <3>2 DEF Channel
    <2>13. \A p \in Recipient :
             \/ p \in run'[r].left
             \/ run'[r].pc \in Addressing /\ To(r)' = p
             \/ Told(About(r), DaysUntil(About(r), run[r].day), p)'
      BY <1>10, <2>1, <2>2, <2>3, <2>8, <2>11
    <2>14. ToldInTurn(r)'
      BY <1>22, <2>1, <2>2, <2>3, <2>12, <2>13
    <2>15. QED
      BY <1>1, <1>2, <2>9, <2>14
  <1>27. QED
    BY <1>12, <1>13, <1>14, <1>15, <1>16, <1>17, <1>18, <1>23, <1>24, <1>25, <1>26 DEF Proceeds


LEMMA NextClean ==
  RemindersAssumption /\ WorkInv /\ HistoryInv /\ CleanInv /\ [Next]_vars => CleanInv'
  <1> SUFFICES ASSUME RemindersAssumption, WorkInv, HistoryInv, CleanInv, [Next]_vars
               PROVE  CleanInv'
    OBVIOUS
  <1>1. /\ Typed /\ RowsKept /\ Solo
        /\ \A k \in Run : AimsOf(k) /\ CleanOf(k)
    BY DEF WorkInv, HistoryInv, CleanInv
  \* While one run goes on, another is not clean.
  <1>2. ASSUME NEW r \in Run, run[r].pc # "idle", NEW k \in Run \ {r}, Kept(k)
        PROVE  CleanOf(k)'
    BY <1>1, <1>2 DEF CleanOf, Solo, Kept
  <1>3. CASE UNCHANGED vars \/ Around
    <2> SUFFICES ASSUME NEW k \in Run, run[k].clean, run[k].pc # "idle"
                 PROVE  run'[k].alone /\ SeenTo(k)' /\ ToldInTurn(k)'
      BY <1>1, <1>3, AroundStep DEF CleanInv, CleanOf, vars
    <2>1. UNCHANGED <<delivery, notified, run>>
      BY <1>3 DEF vars, Around, NextDay, Approve, Close
    <2>2. \A o \in Obligation : occurrence[o] \in Terminal => occurrence'[o] \in Terminal
      BY <1>1, <1>3, AroundStep DEF vars
    <2>3. run[k].alone /\ SeenTo(k) /\ ToldInTurn(k)
      BY <1>1 DEF CleanOf
    <2>4. \A o \in Obligation : Duty(k, o)' => Duty(k, o)
      BY <2>1, <2>2 DEF Duty, DaysUntil
    <2>5. About(k)' = About(k) /\ To(k)' = To(k)
      BY <2>1 DEF About, To
    <2>6. \A o, p : Told(o, DaysUntil(o, run[k].day), p)' <=> Told(o, DaysUntil(o, run[k].day), p)
      BY <2>1 DEF Told, Answer, DaysUntil
    <2>7. SeenTo(k)'
      BY <2>1, <2>3, <2>4, <2>5, <2>6 DEF SeenTo, DaysUntil
    <2>8. ToldInTurn(k)'
      BY <2>1, <2>3 DEF ToldInTurn, Told, Answer, DaysUntil, About, To
    <2>9. QED
      BY <2>1, <2>3, <2>7, <2>8
  <1>4. ASSUME NEW r \in Run, Start(r) PROVE CleanInv'
    <2>1. /\ \A k \in Run \ {r} : Kept(k) /\ (run[k].pc # "idle" => ~run'[k].clean)
          /\ run'[r].pc = "loading" /\ run'[r].day = today /\ UNCHANGED <<active, occurrence>>
          /\ run'[r].rows = {o \in active : Falls(o, today)}
          /\ run'[r].asked = {o \in active : occurrence[o] \notin Terminal}
          /\ run'[r].clean => run'[r].alone
      BY <1>1, <1>4, StartStep
    <2>2. \A k \in Run \ {r} : CleanOf(k)'
      BY <2>1 DEF CleanOf, Kept
    <2>3. ASSUME NEW o \in Obligation, Duty(r, o)' PROVE o \in run'[r].rows
      <3>1. o \in active /\ Due[o] - today \in 0..Window
        BY <2>1, <2>3 DEF Duty, DaysUntil
      <3>2. Due[o] \in Nat /\ today \in Nat /\ Window \in Nat
        BY <1>1 DEF Typed, RemindersAssumption
      <3>3. today <= Due[o] /\ Due[o] <= today + Window
        BY <3>1, <3>2
      <3>4. QED
        BY <2>1, <3>1, <3>3 DEF Falls
    <2>4. CleanOf(r)'
      BY <2>1, <2>3 DEF CleanOf, SeenTo, ToldInTurn, Dispatching
    <2>5. QED
      BY <2>2, <2>4 DEF CleanInv
  <1>5. ASSUME NEW r \in Run, Save(r) PROVE CleanInv'
    <2>1. /\ \A o \in Obligation : o \notin run[r].rows => occurrence'[o] = occurrence[o]
          /\ \A k \in Run \ {r} : Kept(k)
          /\ run[r].pc = "saving" /\ run'[r].pc = "choosing"
          /\ run'[r].todo = {o \in run[r].rows : DaysUntil(o, run[r].day) \in Milestone}
          /\ run'[r].day = run[r].day /\ run'[r].asked = run[r].asked
          /\ run'[r].alone = run[r].alone /\ run'[r].clean = run[r].clean
      BY <1>1, <1>5, SaveStep
    <2>2. \A k \in Run \ {r} : CleanOf(k)'
      BY <1>2, <2>1
    <2>3. ASSUME run[r].alone, SeenTo(r), NEW o \in Obligation, Duty(r, o)',
                 DaysUntil(o, run'[r].day) \in Milestone
          PROVE  o \in run'[r].todo
      <3>1. o \notin run[r].rows => Duty(r, o)
        BY <2>1, <2>3 DEF Duty, DaysUntil
      <3>2. o \in run[r].rows
        BY <2>1, <2>3, <3>1 DEF SeenTo
      <3>3. QED
        BY <2>1, <2>3, <3>2
    <2>4. CleanOf(r)'
      <3> SUFFICES ASSUME run'[r].clean PROVE run'[r].alone /\ SeenTo(r)' /\ ToldInTurn(r)'
        BY DEF CleanOf
      <3>1. run[r].alone /\ SeenTo(r)
        BY <1>1, <2>1 DEF CleanOf
      <3>2. \A o \in Obligation : Duty(r, o)' /\ DaysUntil(o, run'[r].day) \in Milestone =>
              o \in run'[r].todo
        BY <2>3, <3>1
      <3>3. QED
        BY <2>1, <3>1, <3>2 DEF SeenTo, ToldInTurn, Dispatching, DaysUntil
    <2>5. QED
      BY <2>2, <2>4 DEF CleanInv
  <1>6. ASSUME NEW r \in Run, Proceeds(r) PROVE CleanInv'
    <2>1. \A k \in Run \ {r} : Kept(k)
      BY <1>1, <1>6, ProceedsWork DEF Goes
    <2>2. \A k \in Run \ {r} : CleanOf(k)'
      BY <1>2, <1>6, <2>1, Awake
    <2>3. CleanOf(r)'
      BY <1>1, <1>6, ProceedsClean
    <2>4. QED
      BY <2>2, <2>3 DEF CleanInv
  <1>7. QED
    BY <1>3, <1>4, <1>5, <1>6, Cases

\* A run in which nothing goes wrong repairs what the others of the day left.
THEOREM CleanRunWorks == Spec => CleanRunRepairs
  <1>1. Init => CleanInv
    BY NoRunTyped DEF Init, CleanInv, CleanOf
  <1>2. Typed /\ CleanInv /\ [Next]_vars =>
         [\A r \in Run : ~At(r, "idle") /\ run'[r].pc = "idle" /\ run[r].clean /\ At(r, "choosing") /\ run[r].todo = {} =>
            \A o \in run[r].asked, p \in Recipient, c \in Channel :
              LET days == DaysUntil(o, run[r].day) IN
              days \in Milestone \cap (0..Window) /\ occurrence[o] \notin Terminal =>
                /\ <<o, days, p>> \in notified
                /\ delivery[<<o, days, p, c>>] = IF <<p, c>> \in Reachable THEN "sent" ELSE "skipped"]_vars
    <2> SUFFICES ASSUME Typed, CleanInv, NEW r \in Run, run[r].clean, At(r, "choosing"),
                        run[r].todo = {}, NEW o \in run[r].asked, NEW p \in Recipient,
                        NEW c \in Channel, occurrence[o] \notin Terminal,
                        DaysUntil(o, run[r].day) \in Milestone \cap (0..Window)
                 PROVE  /\ <<o, DaysUntil(o, run[r].day), p>> \in notified
                        /\ delivery[<<o, DaysUntil(o, run[r].day), p, c>>] = Answer(p, c)
      BY DEF Answer
    <2>1. run[r].pc = "choosing" /\ SeenTo(r) /\ o \in Obligation
      BY DEF CleanInv, CleanOf, At, Typed, RunRecord
    <2>2. Duty(r, o) /\ DaysUntil(o, run[r].day) \in Milestone
      BY DEF Duty
    <2>3. run[r].pc \notin Dispatching
      BY <2>1 DEF Dispatching
    <2>4. Told(o, DaysUntil(o, run[r].day), p)
      BY <2>1, <2>2, <2>3 DEF SeenTo
    <2>5. QED
      BY <2>4 DEF Told
  <1>3. WorkInv => Typed
    BY DEF WorkInv
  <1>4. QED
    BY <1>1, <1>2, <1>3, NextClean, AlwaysHistory, RemindersAssumption, PTL DEF Spec, CleanRunRepairs
=============================================================================
