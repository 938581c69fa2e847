----------------------------- MODULE Reminders -----------------------------
(***************************************************************************)
(* Obligations of approved leases and the reminders about them:            *)
(* generate-obligation-occurrences, started by the daily scheduler and by   *)
(* users, saves what falls due soon and has notification-dispatch-v9 write  *)
(* to the recipients on certain days before (and after) the due date.       *)
(* Runs overlap, die at any point, and the next one takes up what was left. *)
(* Days are numbers.  All code that creates obligations gives them one due  *)
(* date, on which they begin and end.                                       *)
(***************************************************************************)
EXTENDS Integers, FiniteSets

CONSTANTS
    Obligation,   \* lease_obligations; each has one occurrence at most
    Due,          \* the due date of an obligation
    Recipient,    \* users and contacts that the event resolves to
    Reachable,    \* pairs of a recipient and a channel with an address for it
    Run,          \* invocations of generate-obligation-occurrences
    Window,       \* days ahead that a run looks
    Milestone,    \* days before the due date on which a reminder is sent
    MaxDay,       \* bound: the last day
    MaxStarts     \* bound: invocations

VARIABLES
    today,
    active,       \* obligations with status active
    occurrence,   \* lease_obligation_occurrences.status
    notified,     \* notifications: keys of the rows
    delivery,     \* notification_deliveries.status
    accepted,     \* history: how often the provider took a message
    run,
    starts

vars == <<today, active, occurrence, notified, delivery, accepted, run, starts>>
rowVars == <<today, active, occurrence, starts>>

Channel  == {"email", "sms"}
Terminal == {"satisfied", "waived"}
Key      == Obligation \X Milestone \X Recipient \X Channel

RemindersAssumption ==
    /\ Due \in [Obligation -> Nat]
    /\ Reachable \subseteq Recipient \X Channel
    /\ Milestone \subseteq Int
    /\ {Window, MaxDay, MaxStarts} \subseteq Nat
ASSUME RemindersAssumption

Dispatching == {"recipient", "inserting", "delivering", "sending", "recording"}

\* Of a run, `asked' (what was active and not closed when it began, or was opened
\* by another run since), `alone' (no other run at the same time) and `clean'
\* (nothing went wrong) are history only.
RunRecord ==
    [pc: {"idle", "loading", "saving", "choosing"} \cup Dispatching, day: Nat,
     rows: SUBSET Obligation, todo: SUBSET Obligation, about: SUBSET Obligation,
     left: SUBSET Recipient, to: SUBSET Recipient, channel: Channel,
     seen: {"absent", "sent", "failed", "skipped"}, result: {"sent", "failed", "skipped"},
     asked: SUBSET Obligation, alone: BOOLEAN, clean: BOOLEAN]

NoRun ==
    [pc |-> "idle", day |-> 0, rows |-> {}, todo |-> {}, about |-> {}, left |-> {}, to |-> {},
     channel |-> "email", seen |-> "absent", result |-> "skipped",
     asked |-> {}, alone |-> TRUE, clean |-> TRUE]

Init ==
    /\ today = 0
    /\ active = {}
    /\ occurrence = [o \in Obligation |-> "absent"]
    /\ notified = {}
    /\ delivery = [d \in Key |-> "absent"]
    /\ accepted = [d \in Key |-> 0]
    /\ run = [r \in Run |-> NoRun]
    /\ starts = 0

At(r, pc) == run[r].pc = pc
DaysUntil(o, day) == Due[o] - day

\* The notification and the delivery a run works on.
About(r)   == CHOOSE o \in Obligation : o \in run[r].about
To(r)      == CHOOSE p \in Recipient : p \in run[r].to
Note(r)    == <<About(r), DaysUntil(About(r), run[r].day), To(r)>>
Target(r)  == <<About(r), DaysUntil(About(r), run[r].day), To(r), run[r].channel>>

-----------------------------------------------------------------------------
(* Around the runs *)

\* The approval of a lease makes its critical dates obligations.
Approve(o) ==
    /\ o \notin active
    /\ active' = active \cup {o}
    /\ UNCHANGED <<today, occurrence, notified, delivery, accepted, run, starts>>

NextDay ==
    /\ today < MaxDay
    /\ today' = today + 1
    /\ UNCHANGED <<active, occurrence, notified, delivery, accepted, run, starts>>

\* satisfyObligation, waiveObligation: the status is checked in a read before
\* the update, and every row was open once.
Close(o, status) ==
    /\ occurrence[o] # "absent"
    /\ occurrence' = [occurrence EXCEPT ![o] = status]
    /\ UNCHANGED <<today, active, notified, delivery, accepted, run, starts>>

-----------------------------------------------------------------------------
(* generate-obligation-occurrences *)

\* The window cut to the life of the obligation, and the due date in it.
Falls(o, day) == day <= Due[o] /\ Due[o] <= day + Window

\* The active obligations as read, and the rows generated from them.
Start(r) ==
    /\ At(r, "idle") /\ starts < MaxStarts
    /\ starts' = starts + 1
    /\ LET quiet == \A k \in Run : At(k, "idle") IN
       run' = [k \in Run |->
                 IF k = r THEN [NoRun EXCEPT !.pc = "loading", !.day = today,
                                  !.rows = {o \in active : Falls(o, today)},
                                  !.asked = {o \in active : occurrence[o] \notin Terminal},
                                  !.alone = quiet, !.clean = quiet]
                 ELSE IF At(k, "idle") THEN run[k]
                 ELSE [run[k] EXCEPT !.alone = FALSE, !.clean = FALSE]]
    /\ UNCHANGED <<today, active, occurrence, notified, delivery, accepted>>

\* Faulty variant: closed occurrences are saved as well.
LoadNothing(r) ==
    /\ At(r, "loading")
    /\ run' = [run EXCEPT ![r].pc = "saving"]
    /\ UNCHANGED <<rowVars, notified, delivery, accepted>>

\* loadExistingOccurrences: what is closed already is not saved.
LoadExisting(r) ==
    /\ At(r, "loading")
    /\ run' = [run EXCEPT ![r].pc = "saving",
                          ![r].rows = {o \in @ : occurrence[o] \notin Terminal}]
    /\ UNCHANGED <<rowVars, notified, delivery, accepted>>

\* The upsert, and what reminderMilestoneForOccurrence leaves to do of its rows.
Save(r) ==
    LET day == run[r].day IN
    /\ At(r, "saving")
    /\ occurrence' = [o \in Obligation |->
         IF o \notin run[r].rows THEN occurrence[o] ELSE IF Due[o] < day THEN "overdue" ELSE "open"]
    /\ run' = [k \in Run |->
         IF k = r THEN [run[r] EXCEPT !.pc = "choosing", !.rows = {},
                          !.todo = {o \in run[r].rows : DaysUntil(o, day) \in Milestone}]
         ELSE IF At(k, "idle") THEN run[k] ELSE [run[k] EXCEPT !.asked = @ \cup run[r].rows]]
    /\ UNCHANGED <<today, active, starts, notified, delivery, accepted>>

\* dispatchOccurrenceNotification: one request to notification-dispatch-v9.
Dispatch(r) ==
    /\ At(r, "choosing")
    /\ \E o \in run[r].todo :
         run' = [run EXCEPT ![r].pc = "recipient", ![r].todo = @ \ {o}, ![r].about = {o},
                            ![r].left = Recipient]
    /\ UNCHANGED <<rowVars, notified, delivery, accepted>>

Finish(r) ==
    /\ At(r, "choosing") /\ run[r].todo = {}
    /\ run' = [run EXCEPT ![r] = NoRun]
    /\ UNCHANGED <<rowVars, notified, delivery, accepted>>

\* The run fails or its process dies; a dispatch it waits for goes on.
GiveUp(r) ==
    /\ ~At(r, "idle")
    /\ run' = [run EXCEPT ![r] = IF @.pc \in Dispatching THEN [@ EXCEPT !.todo = {}, !.clean = FALSE]
                                                         ELSE NoRun]
    /\ UNCHANGED <<rowVars, notified, delivery, accepted>>

-----------------------------------------------------------------------------
(* notification-dispatch-v9, one recipient and one channel after the other *)

Aborted(w) == [w EXCEPT !.pc = "choosing", !.about = {}, !.left = {}, !.to = {}, !.channel = "email",
                        !.seen = "absent", !.result = "skipped", !.clean = FALSE]

\* The dispatch throws or dies: its caller records it as skipped and goes on.
DispatchFails(r) ==
    /\ run[r].pc \in Dispatching
    /\ run' = [run EXCEPT ![r] = Aborted(@)]
    /\ UNCHANGED <<rowVars, notified, delivery, accepted>>

\* Faulty variant: a recipient who has the notification is done with.
NextUnnotified(r) ==
    /\ At(r, "recipient")
    /\ \E p \in run[r].left :
         LET note == <<About(r), DaysUntil(About(r), run[r].day), p>> IN
         run' = [run EXCEPT ![r].left = @ \ {p}, ![r].to = {p},
                            ![r].pc = IF note \in notified THEN "recipient" ELSE "inserting"]
    /\ UNCHANGED <<rowVars, notified, delivery, accepted>>

\* Faulty variant: the insert is forgotten.
NextWithoutInsert(r) ==
    /\ At(r, "recipient")
    /\ \E p \in run[r].left :
         run' = [run EXCEPT ![r].left = @ \ {p}, ![r].to = {p}, ![r].pc = "delivering"]
    /\ UNCHANGED <<rowVars, notified, delivery, accepted>>

\* createNotification, the lookup by key: a row that exists is taken up again.
NextRecipient(r) ==
    /\ At(r, "recipient")
    /\ \E p \in run[r].left :
         LET note == <<About(r), DaysUntil(About(r), run[r].day), p>> IN
         run' = [run EXCEPT ![r].left = @ \ {p}, ![r].to = {p},
                            ![r].pc = IF note \in notified THEN "delivering" ELSE "inserting"]
    /\ UNCHANGED <<rowVars, notified, delivery, accepted>>

EndDispatch(r) ==
    /\ At(r, "recipient") /\ run[r].left = {}
    /\ run' = [run EXCEPT ![r].pc = "choosing", ![r].about = {}, ![r].to = {}]
    /\ UNCHANGED <<rowVars, notified, delivery, accepted>>

\* The unique index refuses a second row, which ends the dispatch.
Insert(r) ==
    /\ At(r, "inserting")
    /\ notified' = notified \cup {Note(r)}
    /\ run' = [run EXCEPT ![r] = IF Note(r) \in notified THEN Aborted(@)
                                                         ELSE [@ EXCEPT !.pc = "delivering"]]
    /\ UNCHANGED <<rowVars, delivery, accepted>>

\* Email first, then sms, then the next recipient.
Onwards(w) ==
    IF w.channel = "email" THEN [w EXCEPT !.pc = "delivering", !.channel = "sms", !.seen = "absent", !.result = "skipped"]
    ELSE [w EXCEPT !.pc = "recipient", !.channel = "email", !.seen = "absent", !.result = "skipped"]

\* Faulty variant: what a run finds is sent whatever was recorded.
LoadAndSend(r) ==
    /\ At(r, "delivering")
    /\ run' = [run EXCEPT ![r].pc = "sending", ![r].seen = delivery[Target(r)]]
    /\ UNCHANGED <<rowVars, notified, delivery, accepted>>

\* loadDeliveryByKey: what was sent is not sent again, what failed or had no
\* address is tried again (both callers ask for failed deliveries).
LoadDelivery(r) ==
    /\ At(r, "delivering")
    /\ run' = [run EXCEPT ![r] = IF delivery[Target(r)] = "sent" THEN Onwards(@)
                                 ELSE [@ EXCEPT !.pc = "sending", !.seen = delivery[Target(r)]]]
    /\ UNCHANGED <<rowVars, notified, delivery, accepted>>

\* What comes of a message when nothing goes wrong.
Best(r) == IF <<To(r), run[r].channel>> \in Reachable THEN "sent" ELSE "skipped"

\* sendEmail, sendSms: the provider takes the message or refuses it.  One that is
\* not configured fails before the address is looked at, and an email address
\* that cannot be looked up is taken for none.
Send(r) ==
    /\ At(r, "sending")
    /\ \E result \in {Best(r), "failed"} \cup (IF run[r].channel = "email" THEN {"skipped"} ELSE {}) :
         /\ run' = [run EXCEPT ![r].pc = "recording", ![r].result = result,
                               ![r].clean = @ /\ result = Best(r)]
         /\ accepted' = IF result = "sent" THEN [accepted EXCEPT ![Target(r)] = @ + 1] ELSE accepted
    /\ UNCHANGED <<rowVars, notified, delivery>>

\* The message is taken, but the answer is lost: fetch throws.
LoseAnswer(r) ==
    /\ At(r, "sending") /\ <<To(r), run[r].channel>> \in Reachable
    /\ accepted' = [accepted EXCEPT ![Target(r)] = @ + 1]
    /\ run' = [run EXCEPT ![r] = Aborted(@)]
    /\ UNCHANGED <<rowVars, notified, delivery>>

\* recordDelivery: the row that was seen is updated by its id, whatever it is
\* now; where none was seen, the unique index refuses a second one.
Record(r) ==
    LET refused == run[r].seen = "absent" /\ delivery[Target(r)] # "absent" IN
    /\ At(r, "recording")
    /\ delivery' = IF refused THEN delivery ELSE [delivery EXCEPT ![Target(r)] = run[r].result]
    /\ run' = [run EXCEPT ![r] = IF refused THEN Aborted(@) ELSE Onwards(@)]
    /\ UNCHANGED <<rowVars, notified, accepted>>

-----------------------------------------------------------------------------
Next ==
    \/ NextDay
    \/ \E o \in Obligation : Approve(o) \/ \E status \in Terminal : Close(o, status)
    \/ \E r \in Run :
         \/ Start(r) \/ LoadExisting(r) \/ Save(r) \/ Dispatch(r) \/ Finish(r) \/ GiveUp(r)
         \/ DispatchFails(r) \/ NextRecipient(r) \/ EndDispatch(r) \/ Insert(r)
         \/ LoadDelivery(r) \/ Send(r) \/ LoseAnswer(r) \/ Record(r)

Spec == Init /\ [][Next]_vars

-----------------------------------------------------------------------------
(* Properties *)

\* Rows and runs have the shape the code gives them: a delivery belongs to a
\* notification and a notification to a saved occurrence, and what the rows
\* say was sent has been taken by the provider.
TypeOK ==
    /\ today \in 0..MaxDay /\ starts \in 0..MaxStarts
    /\ active \subseteq Obligation
    /\ occurrence \in [Obligation -> {"absent", "open", "overdue"} \cup Terminal]
    /\ run \in [Run -> RunRecord]
    /\ notified \subseteq {n \in Obligation \X Milestone \X Recipient : occurrence[n[1]] # "absent"}
    /\ delivery \in [Key -> {"absent", "sent", "failed", "skipped"}]
    /\ accepted \in [Key -> 0..MaxStarts]
    /\ \A d \in Key : delivery[d] # "absent" => <<d[1], d[2], d[3]>> \in notified
    /\ \A d \in Key : delivery[d] = "sent" => accepted[d] > 0

\* A run neither reminds of an obligation that has been closed ever since the
\* run began nor opens it again, whatever happens while it reads, saves and
\* dispatches.  (What is closed after its read it does open again.)
ClosedIsQuiet ==
    [][\A o \in Obligation :
         /\ (\E d \in Key : d[1] = o /\ accepted'[d] # accepted[d]) =>
              \E r \in Run : run[r].about = {o} /\ o \in run[r].asked
         /\ occurrence[o] \in Terminal /\ occurrence'[o] \notin Terminal =>
              \E r \in Run : At(r, "saving") /\ o \in run[r].asked]_vars

\* A run that has the time to itself neither sends again what is recorded as
\* sent nor takes the record back, whatever earlier runs have left behind.
\* (Of two runs that overlap, each may send, and a refusal that the later one
\* gets replaces the earlier one's success.)
RecordedOnce ==
    [][\A d \in Key :
         delivery[d] = "sent" /\ (delivery'[d] # "sent" \/ accepted'[d] # accepted[d]) =>
           \E r \in Run : run[r].pc \in {"sending", "recording"} /\ Target(r) = d /\ ~run[r].alone]_vars

\* A run in which nothing goes wrong repairs what the others of the day left:
\* at its end every recipient of every reminder of that day has been notified,
\* and has been written to on every channel with an address.
CleanRunRepairs ==
    [][\A r \in Run : ~At(r, "idle") /\ run'[r].pc = "idle" /\ run[r].clean /\ At(r, "choosing") /\ run[r].todo = {} =>
         \A o \in run[r].asked, p \in Recipient, c \in Channel :
           LET days == DaysUntil(o, run[r].day) IN
           days \in Milestone \cap (0..Window) /\ occurrence[o] \notin Terminal =>
             /\ <<o, days, p>> \in notified
             /\ delivery[<<o, days, p, c>>] = IF <<p, c>> \in Reachable THEN "sent" ELSE "skipped"]_vars

=============================================================================
