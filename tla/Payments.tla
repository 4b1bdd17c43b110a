------------------------------ MODULE Payments ------------------------------
(***************************************************************************)
(* billing-service for one appointment: scheduler's events, deposits, the  *)
(* bill and paying its balance, against a payment provider that moves      *)
(* intents on its own (Payments.java, Bookings.java).                      *)
(*                                                                         *)
(* Every transaction is one action: it runs under the bill's row lock or,  *)
(* where it takes none, aborts on a stale @Version.  What the code reads   *)
(* outside a transaction, from the provider, the scheduler or an earlier   *)
(* query, is kept in the handler's job until it is used.  No code writes   *)
(* refunds yet, so the refunded sum is 0 throughout.                       *)
(***************************************************************************)
EXTENDS Integers, FiniteSets, Functions

CONSTANTS
  Bill, Pay,   \* ids, handed out in increasing order
  None,        \* null, for both
  Handler,     \* threads: HTTP requests, webhooks, Kafka listeners
  Deposit,     \* what the deposit policy asks for this booking
  Total,       \* what the completed service costs
  MaxRetries,  \* how often the Kafka error handler retries a record (6)
  Failing,     \* bound: the events whose deliveries may fail or be repeated
  MaxFaults    \* bound: declines, provider errors, redeliveries and aborted
               \* handlers

ASSUME BillingAssumption ==
  /\ Bill \subseteq Nat /\ Pay \subseteq Nat
  /\ None \notin Nat
  /\ Deposit \in Nat \ {0}
  /\ Total \in Nat
  /\ MaxRetries \in Nat
  /\ MaxFaults \in Nat

VARIABLES
  sched,      \* scheduler-service's own appointment
  news,       \* scheduler's events the consumer group has not acknowledged
  processed,  \* rows of processed_event
  tries,      \* failed attempts at each event in a row
  dlt,        \* events published to the dead-letter topics
  ref,        \* appointment_ref.status
  bill,       \* bill rows
  pay,        \* payment rows
  outbox,     \* how often each event was appended
  intent,     \* each payment's intent at the provider: its metadata and
              \* idempotency key name the payment, so there is at most one
  hooks,      \* webhooks not acknowledged yet: payment and intent status
  job,        \* what each handler is doing
  faults

provider == <<intent, hooks>>
feed == <<news, processed, tries, dlt>>
vars == <<sched, feed, ref, bill, pay, outbox, provider, job, faults>>

BillStatus == {"OPEN", "PENDING", "PARTIALLY_PAID", "PAID", "VOID"}
PaymentStatus == {"REQUIRES_PAYMENT", "PROCESSING", "SUCCEEDED", "FAILED", "CANCELED"}

IntentStatus == {"open", "declined", "processing", "succeeded", "canceled"}
SchedStatus == {"BOOKED", "CANCELLED", "COMPLETED"}
Topic == {"booked", "cancelled", "completed"}

NoBill == [status |-> "NONE", total |-> 0]
NoPay == [bill |-> None, type |-> "NONE", amount |-> 0, status |-> "NONE",
          linked |-> FALSE]

\* PaymentFailed, which only informs, is left out with the failure codes that
\* decide it.
Event == ({"PaymentReceived"} \X Pay) \cup ({"BillReady"} \X Bill)

\* at: the next step; bill, pay: the rows it works on; cancel, drop: open
\* payments to close, with an intent when they were read and without; seen:
\* a status read from the provider, the scheduler or the database.
Idle == [at |-> "idle", bill |-> None, pay |-> None,
         cancel |-> {}, drop |-> {}, after |-> "", seen |-> ""]

Init ==
  /\ sched = "BOOKED"
  /\ news = {"booked"}
  /\ processed = {}
  /\ tries = [t \in Topic |-> 0]
  /\ dlt = {}
  /\ ref = "NONE"
  /\ bill = [b \in Bill |-> NoBill]
  /\ pay = [p \in Pay |-> NoPay]
  /\ outbox = [e \in Event |-> 0]
  /\ intent = [p \in Pay |-> "none"]
  /\ hooks = {}
  /\ job = [h \in Handler |-> Idle]
  /\ faults = 0

-----------------------------------------------------------------------------
(* Helpers                                                                 *)

Go(h, j) == job' = [job EXCEPT ![h] = j]
Done(h) == Go(h, Idle)
At(h, step) == job[h].at = step
Fault == faults < MaxFaults /\ faults' = faults + 1

Emitted(e) == [outbox EXCEPT ![e] = @ + 1]

Fresh(S, rows, none) == {i \in S : rows[i] = none /\ \A j \in S : j < i => rows[j] # none}
Live(b) == bill[b].status \notin {"NONE", "VOID"}

\* The appointment's live bill, or a new one.
BillFor(b) == Live(b) \/ ((\A c \in Bill : ~Live(c)) /\ b \in Fresh(Bill, bill, NoBill))

PaymentsOf(b) == {p \in Pay : pay[p].bill = b}
IsCaptured(r) == r.status = "SUCCEEDED"

\* Balance.of: the captured payments of a bill.
Paid(rows, b) ==
  SumFunction([p \in Pay |->
                 IF rows[p].bill = b /\ IsCaptured(rows[p]) THEN rows[p].amount ELSE 0])

\* Balance.statusFor a priced bill.
StatusFor(total, paid) ==
  IF paid >= total THEN "PAID" ELSE IF paid > 0 THEN "PARTIALLY_PAID" ELSE "PENDING"

Due(b) == bill[b].total - Paid(pay, b)

Requested(b, type, amount) ==
  [bill |-> b, type |-> type, amount |-> amount, status |-> "REQUIRES_PAYMENT", linked |-> FALSE]

\* resume: a payment that is over, or that has an intent, only has its client
\* secret read; any other gets an intent.
NeedsIntent(r) == ~r.linked /\ r.status \in {"REQUIRES_PAYMENT", "PROCESSING"}
Resume(h, p, r) ==
  IF NeedsIntent(r) THEN Go(h, [Idle EXCEPT !.at = "create", !.pay = p]) ELSE Done(h)

\* Resume the first open payment, or save a new one; Pay bounds how many.
ResumeOrRequest(h, open, b, type, amount) ==
  \/ /\ \E p \in open : (\A q \in open : p <= q) /\ Resume(h, p, pay[p])
     /\ pay' = pay
  \/ /\ open = {}
     /\ \E p \in Fresh(Pay, pay, NoPay) :
          /\ pay' = [pay EXCEPT ![p] = Requested(b, type, amount)]
          /\ Resume(h, p, pay'[p])
  \/ /\ open = {} /\ Fresh(Pay, pay, NoPay) = {}
     /\ pay' = pay /\ Done(h)

\* Mutants: apply without the isFinal check, and with FAILED as final.
SettledNever(r, seen) == FALSE
SettledFailed(r, seen) ==
  r.status \in {"SUCCEEDED", "FAILED"} \/ (r.status = "CANCELED" /\ seen # "succeeded")

\* apply leaves a final payment alone, but for one canceled here whose intent
\* was charged.
Settled(r, seen) ==
  r.status = "SUCCEEDED" \/ (r.status = "CANCELED" /\ seen # "succeeded")

\* The payment after apply: its intent is linked and its status follows.
Moved(r, seen) ==
  CASE seen = "succeeded"  -> [r EXCEPT !.linked = TRUE, !.status = "SUCCEEDED"]
    [] seen = "processing" -> [r EXCEPT !.linked = TRUE, !.status = "PROCESSING"]
    [] seen = "canceled"   -> [r EXCEPT !.linked = TRUE, !.status = "CANCELED"]
    [] seen = "declined"   -> [r EXCEPT !.linked = TRUE, !.status = "REQUIRES_PAYMENT"]
    [] OTHER               -> [r EXCEPT !.linked = TRUE]

\* Mutant: settle forgets a payment that follows another.
SettledBillOnce(b, rows) ==
  IF bill[b].status # "PENDING" THEN bill[b]
  ELSE [bill[b] EXCEPT !.status = StatusFor(bill[b].total, Paid(rows, b))]

\* settle: an unpriced or void bill keeps its status.
SettledBill(b, rows) ==
  IF bill[b].status \in {"OPEN", "VOID"} THEN bill[b]
  ELSE [bill[b] EXCEPT !.status = StatusFor(bill[b].total, Paid(rows, b))]

\* apply, and settle when the payment becomes captured.
Apply(p, seen) ==
  LET b == pay[p].bill
      r == IF Settled(pay[p], seen) THEN pay[p] ELSE Moved(pay[p], seen)
      captured == IsCaptured(r) /\ ~IsCaptured(pay[p])
  IN  /\ pay' = [pay EXCEPT ![p] = r]
      /\ bill' = IF captured THEN [bill EXCEPT ![b] = SettledBill(b, pay')] ELSE bill
      /\ outbox' = IF captured THEN Emitted(<<"PaymentReceived", p>>) ELSE outbox

-----------------------------------------------------------------------------
(* scheduler-service and the provider                                      *)

Settle(status, topic) ==
  /\ sched = "BOOKED"
  /\ sched' = status
  /\ news' = news \cup {topic}
  /\ UNCHANGED <<processed, tries, dlt, ref, bill, pay, outbox, provider, job, faults>>

SchedulerCancels == Settle("CANCELLED", "cancelled")
SchedulerCompletes == Settle("COMPLETED", "completed")

Becomes(p, status) ==
  /\ intent' = [intent EXCEPT ![p] = status]
  /\ hooks' = hooks \cup {<<p, status>>}

\* The customer confirms an intent whose client secret was handed out.
Confirm(p) ==
  /\ pay[p].linked
  /\ intent[p] \in {"open", "declined"}
  /\ \E status \in {"processing", "succeeded"} : Becomes(p, status)
  /\ UNCHANGED <<sched, feed, ref, bill, pay, outbox, job, faults>>

Clears(p) ==
  /\ intent[p] = "processing"
  /\ Becomes(p, "succeeded")
  /\ UNCHANGED <<sched, feed, ref, bill, pay, outbox, job, faults>>

Declines(p) ==
  /\ pay[p].linked
  /\ intent[p] \in {"open", "declined", "processing"}
  /\ Becomes(p, "declined")
  /\ Fault
  /\ UNCHANGED <<sched, feed, ref, bill, pay, outbox, job>>

-----------------------------------------------------------------------------
(* requestDeposit                                                          *)

\* A retried Idempotency-Key, of a deposit or a balance, resumes the payment
\* it created.
Retry(h, p) ==
  /\ At(h, "idle")
  /\ NeedsIntent(pay[p])
  /\ Resume(h, p, pay[p])
  /\ UNCHANGED <<sched, feed, ref, bill, pay, outbox, provider, faults>>

\* The booking as billing knows it, or as scheduler knows it.
RequestDeposit(h) ==
  /\ At(h, "idle")
  /\ \/ ref = "NONE" /\ Go(h, [Idle EXCEPT !.at = "upsert", !.seen = sched])
     \/ ref = "BOOKED" /\ Go(h, [Idle EXCEPT !.at = "open"])
  /\ UNCHANGED <<sched, feed, ref, bill, pay, outbox, provider, faults>>

\* fetchBooking stores what scheduler answered, whatever is there by now.
Upsert(h) ==
  /\ At(h, "upsert")
  /\ ref' = job[h].seen
  /\ IF job[h].seen = "BOOKED" THEN Go(h, [Idle EXCEPT !.at = "open"]) ELSE Done(h)
  /\ UNCHANGED <<sched, feed, bill, pay, outbox, provider, faults>>

\* openBillFor: the live bill, or a new one; a concurrent insert is found
\* after uq_bill_live_appointment refused the second.  Bill bounds how many.
OpenBill(h) ==
  /\ At(h, "open")
  /\ \/ \E b \in Bill :
          /\ BillFor(b)
          /\ bill' = IF Live(b) THEN bill ELSE [bill EXCEPT ![b] = [status |-> "OPEN", total |-> 0]]
          /\ Go(h, [Idle EXCEPT !.at = "deposit", !.bill = b])
     \/ (\A b \in Bill : ~BillFor(b)) /\ bill' = bill /\ Done(h)
  /\ UNCHANGED <<sched, feed, ref, pay, outbox, provider, faults>>

\* Under the bill's lock: resume the open deposit or request a new one.
StartDeposit(h) ==
  /\ At(h, "deposit")
  /\ LET b == job[h].bill
         deposits == {p \in PaymentsOf(b) : pay[p].type = "DEPOSIT"}
         open == {p \in deposits : pay[p].status = "REQUIRES_PAYMENT"}
     IN  IF \/ bill[b].status # "OPEN"
            \/ \E p \in deposits : pay[p].status \in {"SUCCEEDED", "PROCESSING"}
         THEN pay' = pay /\ Done(h)
         ELSE ResumeOrRequest(h, open, b, "DEPOSIT", Deposit)
  /\ UNCHANGED <<sched, feed, ref, bill, outbox, provider, faults>>

-----------------------------------------------------------------------------
(* resume: creating the intent                                             *)

\* createIntent with the key "payment-<id>" returns the same intent again.
CreateIntent(h) ==
  /\ At(h, "create")
  /\ LET p == job[h].pay IN
     intent' = IF intent[p] = "none" THEN [intent EXCEPT ![p] = "open"] ELSE intent
  /\ Go(h, [job[h] EXCEPT !.at = "link"])
  /\ UNCHANGED <<sched, feed, ref, bill, pay, outbox, hooks, faults>>

\* The provider failed, or its answer was lost.
CreateFails(h) ==
  /\ At(h, "create")
  /\ LET p == job[h].pay IN
     \/ intent' = intent
     \/ intent' = IF intent[p] = "none" THEN [intent EXCEPT ![p] = "open"] ELSE intent
  /\ Go(h, [job[h] EXCEPT !.at = "fail"])
  /\ Fault
  /\ UNCHANGED <<sched, feed, ref, bill, pay, outbox, hooks>>

\* The link transaction asks only whether another handler linked it first.
Link(h) ==
  /\ At(h, "link")
  /\ pay' = [pay EXCEPT ![job[h].pay].linked = TRUE]
  /\ Done(h)
  /\ UNCHANGED <<sched, feed, ref, bill, outbox, provider, faults>>

\* markFailed, under the bill's lock.
MarkedFailed(p) ==
  IF pay[p].linked \/ pay[p].status \in {"SUCCEEDED", "CANCELED"} THEN pay
  ELSE [pay EXCEPT ![p].status = "FAILED"]

MarkFailed(h) ==
  /\ At(h, "fail")
  /\ pay' = MarkedFailed(job[h].pay)
  /\ Done(h)
  /\ UNCHANGED <<sched, feed, ref, bill, outbox, provider, faults>>

-----------------------------------------------------------------------------
(* payBalance                                                              *)

\* requirePayable.
Payable(b) ==
  /\ bill[b].status \in {"PENDING", "PARTIALLY_PAID"}
  /\ \A p \in PaymentsOf(b) : pay[p].status # "PROCESSING"
  /\ Due(b) \in Nat \ {0}

\* Step 1: the open payments for another amount are to be closed.
PayBalance(h, b) ==
  /\ At(h, "idle")
  /\ Payable(b)
  /\ LET stale == {p \in PaymentsOf(b) :
                     /\ pay[p].status = "REQUIRES_PAYMENT"
                     /\ pay[p].type = "DEPOSIT" \/ pay[p].amount # Due(b)}
     IN  Go(h, [Idle EXCEPT !.at = "close", !.bill = b, !.after = "pay",
                            !.cancel = {p \in stale : pay[p].linked},
                            !.drop = {p \in stale : ~pay[p].linked}])
  /\ UNCHANGED <<sched, feed, ref, bill, pay, outbox, provider, faults>>

Closing(h) == job[h].cancel \cup job[h].drop
NextToClose(h, p) == At(h, "close") /\ p \in Closing(h) /\ \A q \in Closing(h) : p <= q

\* Step 2, for a payment that had no intent in step 1.
Supersede(h, p) ==
  /\ NextToClose(h, p)
  /\ p \in job[h].drop
  /\ pay' = MarkedFailed(p)
  /\ Go(h, [job[h] EXCEPT !.drop = @ \ {p}])
  /\ UNCHANGED <<sched, feed, ref, bill, outbox, provider, faults>>

\* Mutant: a payment too late to cancel counts as canceled.
CancelAtProviderTrusting(h, p) ==
  /\ NextToClose(h, p)
  /\ p \in job[h].cancel
  /\ IF intent[p] \in {"open", "declined"} THEN Becomes(p, "canceled") ELSE UNCHANGED provider
  /\ Go(h, [job[h] EXCEPT !.at = "apply", !.pay = p, !.seen = "canceled"])
  /\ UNCHANGED <<sched, feed, ref, bill, pay, outbox, faults>>

\* Step 2, for one that had: the provider cancels it, or says it is too late.
CancelAtProvider(h, p) ==
  /\ NextToClose(h, p)
  /\ p \in job[h].cancel
  /\ IF intent[p] \in {"open", "declined"}
     THEN /\ Becomes(p, "canceled")
          /\ Go(h, [job[h] EXCEPT !.at = "apply", !.pay = p, !.seen = "canceled"])
     ELSE /\ UNCHANGED provider
          /\ Go(h, [job[h] EXCEPT !.at = "retrieve", !.pay = p])
  /\ UNCHANGED <<sched, feed, ref, bill, pay, outbox, faults>>

Retrieve(h) ==
  /\ At(h, "retrieve")
  /\ Go(h, [job[h] EXCEPT !.at = "apply", !.seen = intent[job[h].pay]])
  /\ UNCHANGED <<sched, feed, ref, bill, pay, outbox, provider, faults>>

\* Record what it says.
ApplyClosed(h) ==
  /\ At(h, "apply")
  /\ Apply(job[h].pay, job[h].seen)
  /\ Go(h, [job[h] EXCEPT !.at = "close", !.cancel = @ \ {job[h].pay}, !.pay = None, !.seen = ""])
  /\ UNCHANGED <<sched, feed, ref, provider, faults>>

Closed(h, then) == At(h, "close") /\ Closing(h) = {} /\ job[h].after = then

\* Step 3: the balance may have moved; resume or request a FINAL payment.
StartFinal(h) ==
  /\ Closed(h, "pay")
  /\ LET b == job[h].bill
         open == {p \in PaymentsOf(b) : /\ pay[p].type = "FINAL"
                                        /\ pay[p].status = "REQUIRES_PAYMENT"
                                        /\ pay[p].amount = Due(b)}
     IN  IF ~Payable(b)
         THEN pay' = pay /\ Done(h)
         ELSE ResumeOrRequest(h, open, b, "FINAL", Due(b))
  /\ UNCHANGED <<sched, feed, ref, bill, outbox, provider, faults>>

-----------------------------------------------------------------------------
(* Scheduler's events                                                      *)

\* markProcessed commits with what the event changed.  The offset follows; a
\* rebalance in between has the record delivered again.
Processes(t) ==
  /\ processed' = processed \cup {t}
  /\ \/ news' = news \ {t} /\ faults' = faults
     \/ t \in Failing /\ news' = news /\ Fault
  /\ tries' = [tries EXCEPT ![t] = 0]
  /\ dlt' = dlt

\* The handler is at a delivery of t; one of completed is a single step.
Delivers(h, t) ==
  \/ t = "booked" /\ At(h, "booked")
  \/ t = "cancelled" /\ job[h].after = "void"
  \/ t = "completed" /\ At(h, "idle") /\ t \in news

\* Mutant: an error handler that never gives up.
DeliveryRetried(h, t) ==
  /\ Delivers(h, t) /\ t \in Failing
  /\ tries' = [tries EXCEPT ![t] = IF @ < MaxRetries THEN @ + 1 ELSE 0]
  /\ Done(h)
  /\ UNCHANGED <<sched, news, processed, dlt, ref, bill, pay, outbox, provider, faults>>

\* The listener throws, whatever it does, and its transaction rolls back: the
\* warranty could not be looked up, the provider or the database failed, the
\* bill is in another currency.  kafkaErrorHandler retries the record, then
\* publishes it to <topic>.DLT and goes on.
DeliveryFails(h, t) ==
  /\ Delivers(h, t) /\ t \in Failing
  /\ \/ /\ t \in news /\ tries[t] < MaxRetries
        /\ tries' = [tries EXCEPT ![t] = @ + 1]
        /\ UNCHANGED <<news, dlt>>
     \/ /\ t \in news /\ tries[t] = MaxRetries
        /\ tries' = [tries EXCEPT ![t] = 0]
        /\ news' = news \ {t}
        /\ dlt' = dlt \cup {t}
     \/ /\ t \notin news
        /\ UNCHANGED <<news, tries, dlt>>
  /\ Done(h)
  /\ UNCHANGED <<sched, processed, ref, bill, pay, outbox, provider, faults>>

\* A restart or a rebalance forgets the failed attempts.
ForgetTries(t) ==
  /\ tries[t] # 0
  /\ tries' = [tries EXCEPT ![t] = 0]
  /\ Fault
  /\ UNCHANGED <<sched, news, processed, dlt, ref, bill, pay, outbox, provider, job>>

\* booked: its transaction reads appointment_ref without a lock and upserts it.
BookedRead(h) ==
  /\ At(h, "idle")
  /\ "booked" \in news
  /\ Go(h, [Idle EXCEPT !.at = "booked", !.seen = ref])
  /\ UNCHANGED <<sched, feed, ref, bill, pay, outbox, provider, faults>>

Booked(h) ==
  /\ At(h, "booked")
  /\ Processes("booked")
  /\ ref' = IF "booked" \notin processed /\ job[h].seen \in {"NONE", "BOOKED"} THEN "BOOKED" ELSE ref
  /\ Done(h)
  /\ UNCHANGED <<sched, bill, pay, outbox, provider>>

\* cancelled first closes the open intents of the live, unpriced bill, also
\* when the event was processed before.
CancelledRead(h) ==
  /\ At(h, "idle")
  /\ "cancelled" \in news
  /\ LET job0 == [Idle EXCEPT !.at = "close", !.after = "void"] IN
     \/ /\ \A b \in Bill : ~Live(b)
        /\ Go(h, job0)
     \/ \E b \in Bill :
          /\ Live(b)
          /\ Go(h, [job0 EXCEPT !.bill = b, !.cancel =
                {p \in PaymentsOf(b) : /\ bill[b].status = "OPEN"
                                       /\ pay[p].status = "REQUIRES_PAYMENT"
                                       /\ pay[p].linked}])
  /\ UNCHANGED <<sched, feed, ref, bill, pay, outbox, provider, faults>>

\* Mutant: the bill is voided whatever was paid on it.
KeepsBillNever(b) == FALSE

\* A bill with money on it, or under way to it, stays open.
KeepsBill(b) == \E p \in PaymentsOf(b) : pay[p].status \in {"SUCCEEDED", "PROCESSING"}

Cancelled(h) ==
  /\ Closed(h, "void")
  /\ Processes("cancelled")
  /\ ref' = IF "cancelled" \in processed THEN ref ELSE "CANCELLED"
  /\ LET b == job[h].bill IN
     bill' = IF "cancelled" \notin processed /\ b # None /\ bill[b].status = "OPEN" /\ ~KeepsBill(b)
             THEN [bill EXCEPT ![b].status = "VOID"] ELSE bill
  /\ Done(h)
  /\ UNCHANGED <<sched, pay, outbox, provider>>

\* The bill, priced from the completed service and what was paid before.
Priced(b) ==
  /\ bill' = [bill EXCEPT ![b] = [status |-> StatusFor(Total, Paid(pay, b)), total |-> Total]]
  /\ outbox' = IF Total > Paid(pay, b) THEN Emitted(<<"BillReady", b>>) ELSE outbox

\* completed prices the live bill, or a new one, once.  (The warranty is looked
\* up before the transaction; it only decides the total.)
Completed(h) ==
  /\ Delivers(h, "completed")
  /\ Processes("completed")
  /\ \/ /\ "completed" \notin processed
        /\ ref' = "COMPLETED"
        /\ \E b \in Bill :
             /\ BillFor(b)
             /\ IF bill[b].status \in {"OPEN", "NONE"} THEN Priced(b) ELSE UNCHANGED <<bill, outbox>>
     \/ /\ "completed" \in processed
        /\ UNCHANGED <<ref, bill, outbox>>
  /\ UNCHANGED <<sched, pay, provider, job>>

-----------------------------------------------------------------------------
(* What the provider says                                                  *)

\* handleWebhook re-reads the intent; the event's own status is not used.
WebhookRead(h, e) ==
  /\ At(h, "idle")
  /\ e \in hooks
  /\ Go(h, [Idle EXCEPT !.at = "webhook", !.pay = e[1], !.after = e[2], !.seen = intent[e[1]]])
  /\ UNCHANGED <<sched, feed, ref, bill, pay, outbox, provider, faults>>

\* markProcessed and apply in one transaction; a second delivery does nothing.
Webhook(h) ==
  /\ At(h, "webhook")
  /\ LET e == <<job[h].pay, job[h].after>> IN
     IF e \in hooks
     THEN Apply(job[h].pay, job[h].seen) /\ hooks' = hooks \ {e}
     ELSE UNCHANGED <<bill, pay, outbox, hooks>>
  /\ Done(h)
  /\ UNCHANGED <<sched, feed, ref, intent, faults>>

\* sync, and confirmTest after the provider's answer.
SyncRead(h, p) ==
  /\ At(h, "idle")
  /\ pay[p].linked
  /\ Go(h, [Idle EXCEPT !.at = "sync", !.pay = p, !.seen = intent[p]])
  /\ UNCHANGED <<sched, feed, ref, bill, pay, outbox, provider, faults>>

Sync(h) ==
  /\ At(h, "sync")
  /\ Apply(job[h].pay, job[h].seen)
  /\ Done(h)
  /\ UNCHANGED <<sched, feed, ref, provider, faults>>

\* A handler ends anywhere between two steps: an exception (a stale @Version,
\* the provider unavailable) or a crash.
Abort(h) ==
  /\ ~At(h, "idle")
  /\ Done(h)
  /\ Fault
  /\ UNCHANGED <<sched, feed, ref, bill, pay, outbox, provider>>

-----------------------------------------------------------------------------

Start(h) ==
  \/ RequestDeposit(h)
  \/ \E p \in Pay : Retry(h, p) \/ SyncRead(h, p)
  \/ \E b \in Bill : PayBalance(h, b)
  \/ BookedRead(h) \/ CancelledRead(h) \/ Completed(h)
  \/ \E e \in hooks : WebhookRead(h, e)

Continue(h) ==
  \/ Upsert(h) \/ OpenBill(h) \/ StartDeposit(h)
  \/ CreateIntent(h) \/ Link(h) \/ MarkFailed(h)
  \/ \E p \in Pay : Supersede(h, p) \/ CancelAtProvider(h, p)
  \/ Retrieve(h) \/ ApplyClosed(h) \/ StartFinal(h)
  \/ Booked(h) \/ Cancelled(h) \/ Webhook(h) \/ Sync(h)

Next ==
  \/ SchedulerCancels \/ SchedulerCompletes
  \/ \E p \in Pay : Confirm(p) \/ Clears(p) \/ Declines(p)
  \/ \E h \in Handler : Start(h) \/ Continue(h) \/ CreateFails(h) \/ Abort(h)
  \/ \E t \in Topic : ForgetTries(t) \/ \E h \in Handler : DeliveryFails(h, t)

Spec == Init /\ [][Next]_vars

\* Handlers run to their end, and what the provider and the brokers deliver
\* again and again finds a free thread in the end: a webhook, and a completed
\* service's record, which the attempt prices or fails on.
FairSpec ==
  /\ Spec
  /\ \A h \in Handler : WF_vars(Continue(h))
  /\ \A p \in Pay : SF_vars(\E h \in Handler : WebhookRead(h, <<p, "succeeded">>))
  /\ SF_vars(\E h \in Handler : Completed(h) \/ DeliveryFails(h, "completed"))

-----------------------------------------------------------------------------
(* Properties                                                              *)

Jobs == [at : {"idle", "upsert", "open", "deposit", "create", "link", "fail", "close", "retrieve",
               "apply", "booked", "webhook", "sync"},
         bill : Bill \cup {None}, pay : Pay \cup {None},
         cancel : SUBSET Pay, drop : SUBSET Pay,
         after : {"", "pay", "void"} \cup IntentStatus,
         seen : {"", "NONE", "none"} \cup SchedStatus \cup IntentStatus]

Rows == [bill : Bill \cup {None}, type : {"NONE", "DEPOSIT", "FINAL"}, amount : Nat,
         status : PaymentStatus \cup {"NONE"}, linked : BOOLEAN]

FeedOK ==
  /\ news \in SUBSET Topic /\ processed \in SUBSET Topic /\ dlt \in SUBSET Topic
  /\ tries \in [Topic -> 0 .. MaxRetries]

TypeOK ==
  /\ sched \in SchedStatus
  /\ FeedOK
  /\ ref \in SchedStatus \cup {"NONE"}
  /\ bill \in [Bill -> [status : BillStatus \cup {"NONE"}, total : Nat]]
  /\ pay \in [Pay -> Rows]
  /\ outbox \in [Event -> Nat]
  /\ intent \in [Pay -> IntentStatus \cup {"none"}]
  /\ hooks \in SUBSET (Pay \X IntentStatus)
  /\ job \in [Handler -> Jobs]
  /\ faults \in 0 .. MaxFaults
  /\ \A p \in Pay : pay[p].status # "NONE" => pay[p].bill \in Bill /\ pay[p].amount > 0

\* The status of a priced bill is the one its captured payments give it,
\* whichever of pricing, capture and cancellation came first.
BillFollowsMoney ==
  \A b \in Bill : bill[b].status \in {"PENDING", "PARTIALLY_PAID", "PAID"}
                   => bill[b].status = StatusFor(bill[b].total, Paid(pay, b))

\* Every capture is announced once, however many webhooks, syncs and cancels
\* report it; a bill is announced at most once.
AnnouncedOnce ==
  /\ \A p \in Pay : outbox[<<"PaymentReceived", p>>] = IF IsCaptured(pay[p]) THEN 1 ELSE 0
  /\ \A b \in Bill : outbox[<<"BillReady", b>>] <= 1

\* A payment's final status is the provider's, even when snapshots of the
\* intent are applied late or out of order.
FinalIsTrue ==
  \A p \in Pay : /\ pay[p].status = "SUCCEEDED" => intent[p] = "succeeded"
                 /\ pay[p].status = "CANCELED" => intent[p] = "canceled"

\* What the provider captured is recorded and announced in the end: also when
\* the payment was marked failed or superseded, or its bill voided, meanwhile.
CaptureIsRecorded == \A p \in Pay : intent[p] = "succeeded" ~> IsCaptured(pay[p])

\* A completed service is priced in the end or its event is in the dead-letter
\* topic, however the attempts at it fail and whatever a restart forgets of
\* them: no record is retried for ever, and none is dropped.
ServiceIsBilled ==
  sched = "COMPLETED" ~>
    \/ \E b \in Bill : bill[b].status \in {"PENDING", "PARTIALLY_PAID", "PAID"}
    \/ "completed" \in dlt

\* billing implements the ledger: what is captured is what SUCCEEDED says.
Captured(p) == IsCaptured(pay[p])
Ledger == INSTANCE BillLedger WITH
  Sum <- SumFunction,
  status <- [b \in Bill |-> bill[b].status],
  total <- [b \in Bill |-> bill[b].total],
  held <- [p \in Pay |-> [bill |-> IF Captured(p) THEN pay[p].bill ELSE None,
                           amount |-> IF Captured(p) THEN pay[p].amount ELSE 0]],
  announced <- [p \in Pay |-> outbox[<<"PaymentReceived", p>>]],
  ready <- [b \in Bill |-> outbox[<<"BillReady", b>>]]

\* Whatever the handlers interleave, each of their steps opens, prices, voids
\* or captures once, or changes nothing the ledger shows.
IsALedger == Ledger!Spec

-----------------------------------------------------------------------------
(* A promise of the code that does not hold                                *)

\* payBalance: canceling the open intents for another amount, so that the
\* customer cannot pay twice.
CantPayTwice ==
  \A b \in Bill : bill[b].status = "PAID" => Paid(pay, b) <= IF Deposit > Total THEN Deposit ELSE Total
=============================================================================
