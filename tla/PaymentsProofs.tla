--------------------------- MODULE PaymentsProofs ---------------------------
(***************************************************************************)
(* Proofs about Payments: its inductive invariant, and from it that the    *)
(* bill follows the money, that a capture is announced once, that a final  *)
(* status is the provider's, and that billing implements BillLedger, for   *)
(* any number of bills, payments and handlers.  Sums of captured payments  *)
(* stay opaque: all that is used of them is that equal rows have equal     *)
(* sums.                                                                   *)
(***************************************************************************)
EXTENDS Payments, TLAPS

Known(p) == pay[p].bill \in Bill

\* A payment row belongs to a bill row before its intent exists, and a final
\* status is the intent's.
RowOK(p) ==
  /\ Known(p) <=> pay[p].status # "NONE"
  /\ Known(p) => bill[pay[p].bill].status # "NONE"
  /\ pay[p].linked \/ intent[p] # "none" => Known(p)
  /\ pay[p].status = "SUCCEEDED" => intent[p] = "succeeded"
  /\ pay[p].status = "CANCELED" => intent[p] = "canceled"

RowsOK == (\A p \in Pay : RowOK(p)) /\ \A e \in hooks : Known(e[1])

\* What a handler has read names rows that exist, and a final status it has
\* read of an intent is still the intent's.
JobOK(j) ==
  /\ j.at \in {"create", "link", "fail", "retrieve", "apply", "webhook", "sync"}
       => j.pay \in Pay /\ Known(j.pay)
  /\ j.at \in {"apply", "webhook", "sync"} /\ j.seen \in {"succeeded", "canceled"}
       => intent[j.pay] = j.seen
  /\ j.at = "deposit" => j.bill \in Bill /\ bill[j.bill].status # "NONE"
  /\ j.at \in {"close", "retrieve", "apply"} /\ j.after = "pay" => j.bill \in Bill
  /\ \A p \in j.cancel \cup j.drop : Known(p)
  /\ j.at = "upsert" => j.seen \in SchedStatus

JobsOK == \A h \in Handler : JobOK(job[h])

\* One live bill, and none announced before it is priced.
OneLive == \A b, c \in Bill : Live(b) /\ Live(c) => b = c
Unannounced ==
  \A b \in Bill : bill[b].status \in {"NONE", "OPEN", "VOID"} => outbox[<<"BillReady", b>>] = 0

Money == OneLive /\ Unannounced /\ BillFollowsMoney /\ AnnouncedOnce

IInv == TypeOK /\ RowsOK /\ JobsOK /\ Money

\* What every step of every handler respects: rows stay, bills stay, and an
\* intent that is over stays as it is.
Grows ==
  /\ \A p \in Pay : Known(p) => Known(p)'
  /\ \A p \in Pay : intent[p] \in {"succeeded", "canceled"} => intent'[p] = intent[p]
  /\ \A b \in Bill : bill[b].status # "NONE" => bill'[b].status # "NONE"

LedgerStep == [Ledger!Next]_(Ledger!lvars)

-----------------------------------------------------------------------------
(* Sums                                                                    *)

\* Payments that captured the same for a bill give it the same sum.
LEMMA SumSame ==
  ASSUME NEW b,
         \A p \in Pay : (IF pay'[p].bill = b /\ IsCaptured(pay'[p]) THEN pay'[p].amount ELSE 0)
                      = (IF pay[p].bill = b /\ IsCaptured(pay[p]) THEN pay[p].amount ELSE 0)
  PROVE  Paid(pay', b) = Paid(pay, b)
<1> DEFINE f == [p \in Pay |->
                   IF pay'[p].bill = b /\ IsCaptured(pay'[p]) THEN pay'[p].amount ELSE 0]
           g == [p \in Pay |->
                   IF pay[p].bill = b /\ IsCaptured(pay[p]) THEN pay[p].amount ELSE 0]
<1>1. f = g
  OBVIOUS
<1> QED
  BY <1>1 DEF Paid

\* A payment changes nothing for another bill than its own.
LEMMA PaidElsewhere ==
  ASSUME NEW b, NEW p \in Pay, \A q \in Pay \ {p} : pay'[q] = pay[q],
         pay'[p].bill # b, pay[p].bill # b
  PROVE  Paid(pay', b) = Paid(pay, b)
<1>1. \A q \in Pay : (IF pay'[q].bill = b /\ IsCaptured(pay'[q]) THEN pay'[q].amount ELSE 0)
                   = (IF pay[q].bill = b /\ IsCaptured(pay[q]) THEN pay[q].amount ELSE 0)
  OBVIOUS
<1> QED
  BY <1>1, SumSame

-----------------------------------------------------------------------------
(* Frames                                                                  *)

\* What a handler knows survives the steps of the others.
LEMMA Grown ==
  ASSUME NEW j \in Jobs, JobOK(j), Grows
  PROVE  JobOK(j)'
<1>1. \A p \in j.cancel \cup j.drop : p \in Pay
  BY DEF Jobs
<1> QED
  BY <1>1 DEF JobOK, Grows

LEMMA JobsStay ==
  ASSUME TypeOK, JobsOK, Grows, UNCHANGED job
  PROVE  JobsOK'
<1> SUFFICES ASSUME NEW h \in Handler, NEW j, j = job[h]
             PROVE  JobOK(j)'
  BY DEF JobsOK
<1>1. j \in Jobs /\ JobOK(j)
  BY DEF TypeOK, JobsOK
<1> QED
  BY <1>1, Grown

LEMMA JobsKept ==
  ASSUME TypeOK, JobsOK, Grows,
         NEW h \in Handler, NEW j \in Jobs, JobOK(j)', Go(h, j)
  PROVE  job' \in [Handler -> Jobs] /\ JobsOK'
<1>1. job' \in [Handler -> Jobs]
  BY DEF Go, TypeOK
<1>2. ASSUME NEW g \in Handler, NEW k, k = job'[g]
      PROVE  JobOK(k)'
  <2>1. CASE g = h
    BY <1>2, <2>1 DEF Go, TypeOK
  <2>2. CASE g # h
    <3>1. k = job[g] /\ k \in Jobs
      BY <1>2, <2>2 DEF Go, TypeOK
    <3>2. JobOK(k)
      BY <3>1 DEF JobsOK
    <3> QED
      BY <3>1, <3>2, Grown
  <2> QED
    BY <2>1, <2>2
<1> QED
  BY <1>1, <1>2 DEF JobsOK

\* A handler that has nothing to do.
LEMMA IdleOK == Idle \in Jobs /\ JobOK(Idle) /\ JobOK(Idle)'
<1>1. Idle \in Jobs
  BY DEF Idle, Jobs, IntentStatus
<1>2. JobOK(Idle)
  BY DEF Idle, JobOK
<1>3. JobOK(Idle)'
  BY DEF Idle, JobOK
<1> QED
  BY <1>1, <1>2, <1>3

\* Steps that leave the bills, the outbox and the captured money alone leave
\* what is said of money alone, and the ledger.
LEMMA MoneyStays ==
  ASSUME Money, UNCHANGED <<bill, outbox>>,
         \A p \in Pay : /\ IsCaptured(pay'[p]) <=> IsCaptured(pay[p])
                        /\ IsCaptured(pay[p]) => /\ pay'[p].bill = pay[p].bill
                                                 /\ pay'[p].amount = pay[p].amount
  PROVE  Money' /\ LedgerStep
<1>1. OneLive' /\ Unannounced' /\ AnnouncedOnce'
  BY DEF Money, OneLive, Live, Unannounced, AnnouncedOnce
<1>2. ASSUME NEW b \in Bill PROVE Paid(pay', b) = Paid(pay, b)
  BY SumSame
<1>3. BillFollowsMoney'
  BY <1>2 DEF Money, BillFollowsMoney
<1>4. UNCHANGED Ledger!lvars
  BY DEF Ledger!lvars, Captured
<1> QED
  BY <1>1, <1>3, <1>4 DEF Money, LedgerStep

-----------------------------------------------------------------------------
(* Scheduler's events: acknowledged, retried or given up                   *)

\* Most steps leave the consumer group alone.
LEMMA FeedKept == ASSUME FeedOK, UNCHANGED feed PROVE FeedOK'
BY DEF FeedOK, feed

\* An event processed, and acknowledged or delivered again.
LEMMA FeedProcessed ==
  ASSUME FeedOK, faults \in 0 .. MaxFaults, NEW t \in Topic, Processes(t)
  PROVE  FeedOK' /\ faults' \in 0 .. MaxFaults
<1>1. faults' \in 0 .. MaxFaults
  BY BillingAssumption DEF Processes, Fault
<1>2. tries' \in [Topic -> 0 .. MaxRetries]
  BY BillingAssumption DEF Processes, FeedOK
<1> QED
  BY <1>1, <1>2 DEF Processes, FeedOK

\* A delivery that failed, retried or published to the dead-letter topic.
LEMMA FeedFailed ==
  ASSUME FeedOK, NEW h \in Handler, NEW t \in Topic, DeliveryFails(h, t)
  PROVE  FeedOK'
<1>1. tries' \in [Topic -> 0 .. MaxRetries]
  BY BillingAssumption DEF DeliveryFails, FeedOK
<1> QED
  BY <1>1 DEF DeliveryFails, FeedOK

-----------------------------------------------------------------------------
(* Kinds of steps                                                          *)

\* A step of the handler h alone: it reads, or gives up.
LEMMA QuietInv ==
  ASSUME IInv, NEW h \in Handler, NEW j \in Jobs, JobOK(j), Go(h, j),
         sched' \in SchedStatus, FeedOK',
         ref' \in SchedStatus \cup {"NONE"}, faults' \in 0 .. MaxFaults,
         UNCHANGED <<bill, pay, outbox, provider>>
  PROVE  IInv' /\ LedgerStep
<1> USE DEF IInv, provider
<1>1. Grows
  BY DEF Grows, Known
<1>2. JobOK(j)'
  BY <1>1, Grown
<1>3. job' \in [Handler -> Jobs] /\ JobsOK'
  BY <1>1, <1>2, JobsKept
<1>4. TypeOK'
  BY <1>3 DEF TypeOK
<1>5. RowsOK'
  BY DEF RowsOK, RowOK, Known
<1>6. Money' /\ LedgerStep
  BY MoneyStays
<1> QED
  BY <1>3, <1>4, <1>5, <1>6

\* A step that no handler takes, or that leaves its handler where it was.
LEMMA StillInv ==
  ASSUME IInv, UNCHANGED <<bill, pay, outbox, provider, job>>,
         sched' \in SchedStatus, FeedOK',
         ref' \in SchedStatus \cup {"NONE"}, faults' \in 0 .. MaxFaults
  PROVE  IInv' /\ LedgerStep
<1> USE DEF IInv, provider
<1>1. Grows
  BY DEF Grows, Known
<1>2. TypeOK' /\ JobsOK' /\ RowsOK'
  BY <1>1, JobsStay DEF TypeOK, RowsOK, RowOK, Known
<1>3. Money' /\ LedgerStep
  BY MoneyStays
<1> QED
  BY <1>2, <1>3

\* An intent that is not over moves at the provider.
LEMMA IntentMoves ==
  ASSUME IInv, NEW p \in Pay, NEW s \in IntentStatus,
         Known(p), intent[p] \notin {"succeeded", "canceled"},
         intent' = [intent EXCEPT ![p] = s], hooks' \in {hooks, hooks \cup {<<p, s>>}},
         UNCHANGED <<bill, pay, outbox>>
  PROVE  /\ Grows /\ RowsOK' /\ Money' /\ LedgerStep
         /\ intent' \in [Pay -> IntentStatus \cup {"none"}]
         /\ hooks' \in SUBSET (Pay \X IntentStatus)
<1> USE DEF IInv
<1>1. Grows
  BY DEF Grows, Known, TypeOK
<1>2. ASSUME NEW q \in Pay PROVE RowOK(q)'
  BY DEF RowsOK, RowOK, Known, TypeOK
<1>3. \A e \in hooks' : Known(e[1])'
  BY DEF RowsOK, Known
<1>4. Money' /\ LedgerStep
  BY MoneyStays
<1>5. /\ intent' \in [Pay -> IntentStatus \cup {"none"}]
      /\ hooks' \in SUBSET (Pay \X IntentStatus)
  BY DEF TypeOK
<1> QED
  BY <1>1, <1>2, <1>3, <1>4, <1>5 DEF RowsOK

\* A payment row changes, or appears, and neither becomes final nor moves to
\* another bill.
LEMMA RowMoves ==
  ASSUME IInv, NEW p \in Pay, NEW r \in Rows, pay' = [pay EXCEPT ![p] = r],
         r.status # "NONE", r.bill \in Bill, bill[r.bill].status # "NONE", r.amount > 0,
         r.status \in {"SUCCEEDED", "CANCELED"} \/ pay[p].status = "SUCCEEDED"
           => r.status = pay[p].status,
         Known(p) => r.bill = pay[p].bill /\ r.amount = pay[p].amount,
         UNCHANGED <<bill, outbox, provider>>
  PROVE  /\ Grows /\ RowsOK' /\ Money' /\ LedgerStep
         /\ pay' \in [Pay -> Rows]
         /\ \A q \in Pay : pay'[q].status # "NONE" => pay'[q].bill \in Bill /\ pay'[q].amount > 0
<1> USE DEF IInv, provider
<1>1. /\ pay' \in [Pay -> Rows]
      /\ pay'[p] = r /\ \A q \in Pay \ {p} : pay'[q] = pay[q]
  BY DEF TypeOK
<1>2. \A q \in Pay : pay'[q].status # "NONE" => pay'[q].bill \in Bill /\ pay'[q].amount > 0
  BY <1>1 DEF TypeOK
<1>3. Grows
  BY <1>1 DEF Grows, Known
<1>4. ASSUME NEW q \in Pay PROVE RowOK(q)'
  <2>1. CASE q = p
    BY <1>1, <2>1 DEF RowsOK, RowOK, Known
  <2>2. CASE q # p
    BY <1>1, <2>2 DEF RowsOK, RowOK, Known
  <2> QED
    BY <2>1, <2>2
<1>5. \A e \in hooks' : Known(e[1])'
  BY <1>1 DEF RowsOK, Known, TypeOK
<1>6. ASSUME NEW q \in Pay
      PROVE  /\ IsCaptured(pay'[q]) <=> IsCaptured(pay[q])
             /\ IsCaptured(pay[q]) => pay'[q].bill = pay[q].bill /\ pay'[q].amount = pay[q].amount
  BY <1>1 DEF IsCaptured, TypeOK, Known
<1>7. Money' /\ LedgerStep
  BY <1>6, MoneyStays
<1> QED
  BY <1>1, <1>2, <1>3, <1>4, <1>5, <1>7 DEF RowsOK

\* What apply makes of a payment.
LEMMA MovedRow ==
  ASSUME NEW r \in Rows, NEW seen, r.status # "NONE"
  PROVE  LET m == IF Settled(r, seen) THEN r ELSE Moved(r, seen)
         IN  /\ m \in Rows /\ m.status # "NONE"
             /\ m.bill = r.bill /\ m.amount = r.amount
             /\ r.status = "SUCCEEDED" => m = r
             /\ m.status # r.status /\ m.status = "SUCCEEDED" => seen = "succeeded"
             /\ m.status # r.status /\ m.status = "CANCELED" => seen = "canceled"
             /\ m.status # r.status /\ r.status = "CANCELED" => seen = "succeeded"
<1> DEFINE m == IF Settled(r, seen) THEN r ELSE Moved(r, seen)
<1>1. CASE Settled(r, seen)
  BY <1>1
<1>2. CASE ~Settled(r, seen)
  <2>1. /\ m \in Rows /\ m.status # "NONE"
        /\ m.bill = r.bill /\ m.amount = r.amount
    BY <1>2 DEF Moved, Rows, PaymentStatus
  <2>2. r.status # "SUCCEEDED" /\ (r.status = "CANCELED" => seen = "succeeded")
    BY <1>2 DEF Settled
  <2>3. /\ m.status # r.status /\ m.status = "SUCCEEDED" => seen = "succeeded"
        /\ m.status # r.status /\ m.status = "CANCELED" => seen = "canceled"
    BY <1>2 DEF Moved, Rows
  <2> QED
    BY <2>1, <2>2, <2>3
<1> QED
  BY <1>1, <1>2

\* A capture: the payment becomes SUCCEEDED, its bill follows and it is
\* announced; the ledger captures it.
LEMMA CaptureInv ==
  ASSUME IInv, NEW p \in Pay, NEW r \in Rows, NEW b \in Bill, pay[p].bill = b, r.bill = b,
         pay' = [pay EXCEPT ![p] = r], r.amount = pay[p].amount, IsCaptured(r), ~IsCaptured(pay[p]),
         bill' = [bill EXCEPT ![b] = SettledBill(b, pay')],
         outbox' = Emitted(<<"PaymentReceived", p>>)
  PROVE  /\ Money' /\ LedgerStep
         /\ bill' \in [Bill -> [status : BillStatus \cup {"NONE"}, total : Nat]]
         /\ outbox' \in [Event -> Nat]
         /\ \A c \in Bill : bill'[c].status = "NONE" <=> bill[c].status = "NONE"
<1> USE DEF IInv
<1>1. /\ b \in Bill /\ bill[b].status # "NONE"
      /\ pay'[p] = r /\ \A q \in Pay \ {p} : pay'[q] = pay[q]
      /\ r.amount > 0 /\ r.amount \in Nat
  BY DEF Known, RowsOK, RowOK, TypeOK, Rows
<1>2. /\ <<"PaymentReceived", p>> \in Event
      /\ \A c \in Bill : <<"BillReady", c>> \in Event
      /\ \A q \in Pay : <<"PaymentReceived", q>> \in Event
  BY DEF Event
<1>3. /\ outbox' \in [Event -> Nat]
      /\ outbox'[<<"PaymentReceived", p>>] = outbox[<<"PaymentReceived", p>>] + 1
      /\ \A q \in Pay \ {p} : outbox'[<<"PaymentReceived", q>>] = outbox[<<"PaymentReceived", q>>]
      /\ \A c \in Bill : outbox'[<<"BillReady", c>>] = outbox[<<"BillReady", c>>]
  BY <1>2 DEF Emitted, TypeOK
<1>4. /\ bill' \in [Bill -> [status : BillStatus \cup {"NONE"}, total : Nat]]
      /\ \A c \in Bill \ {b} : bill'[c] = bill[c]
      /\ bill'[b].total = bill[b].total
      /\ bill[b].status \in {"OPEN", "VOID"} => bill'[b].status = bill[b].status
      /\ bill[b].status \notin {"OPEN", "VOID"}
           => bill'[b].status = StatusFor(bill[b].total, Paid(pay', b))
  <2>1. /\ SettledBill(b, pay') \in [status : BillStatus \cup {"NONE"}, total : Nat]
        /\ SettledBill(b, pay').total = bill[b].total
        /\ bill[b].status \in {"OPEN", "VOID"} => SettledBill(b, pay').status = bill[b].status
        /\ bill[b].status \notin {"OPEN", "VOID"}
             => SettledBill(b, pay').status = StatusFor(bill[b].total, Paid(pay', b))
    BY <1>1 DEF SettledBill, StatusFor, TypeOK, BillStatus
  <2> QED
    BY <1>1, <2>1 DEF TypeOK
<1>5. StatusFor(bill[b].total, Paid(pay', b)) \in {"PENDING", "PARTIALLY_PAID", "PAID"}
  BY DEF StatusFor
<1>6. bill[b].status \in {"OPEN", "VOID", "PENDING", "PARTIALLY_PAID", "PAID"}
  BY <1>1 DEF TypeOK, BillStatus
<1>7. \A c \in Bill : /\ bill'[c].status = "NONE" <=> bill[c].status = "NONE"
                      /\ bill'[c].status = "VOID" <=> bill[c].status = "VOID"
                      /\ bill'[c].status = "OPEN" <=> bill[c].status = "OPEN"
                      /\ bill'[c].total = bill[c].total
  BY <1>4, <1>5, <1>6
<1>8. OneLive' /\ Unannounced'
  BY <1>3, <1>7 DEF Money, OneLive, Live, Unannounced
<1>9. AnnouncedOnce'
  BY <1>1, <1>3 DEF Money, AnnouncedOnce
<1>10. ASSUME NEW c \in Bill, c # b PROVE Paid(pay', c) = Paid(pay, c)
  BY <1>1, <1>10, PaidElsewhere
<1>11. BillFollowsMoney'
  <2> SUFFICES ASSUME NEW c \in Bill, bill'[c].status \in {"PENDING", "PARTIALLY_PAID", "PAID"}
               PROVE  bill'[c].status = StatusFor(bill'[c].total, Paid(pay', c))
    BY DEF BillFollowsMoney
  <2>1. CASE c = b
    BY <1>4, <2>1
  <2>2. CASE c # b
    BY <1>4, <1>10, <2>2 DEF Money, BillFollowsMoney
  <2> QED
    BY <2>1, <2>2
<1>12. Ledger!Capture(p, b)
  <2> DEFINE held == [q \in Pay |-> [bill |-> IF Captured(q) THEN pay[q].bill ELSE None,
                                    amount |-> IF Captured(q) THEN pay[q].amount ELSE 0]]
  <2>1. held[p] = [bill |-> None, amount |-> 0]
    BY DEF Captured
  <2>2. held'[p] = [bill |-> b, amount |-> r.amount]
    BY <1>1 DEF Captured
  <2>3. \A q \in Pay \ {p} : held'[q] = held[q]
    BY <1>1 DEF Captured
  <2>4. held' = [held EXCEPT ![p] = [bill |-> b, amount |-> held'[p].amount]]
    BY <2>2, <2>3
  <2>5. Ledger!Held(held', b) = Paid(pay', b)
    <3>1. ASSUME NEW q \in Pay
          PROVE  /\ IsCaptured(pay'[q]) => held'[q].bill = pay'[q].bill /\ held'[q].amount = pay'[q].amount
                 /\ ~IsCaptured(pay'[q]) => held'[q].bill = None
      BY DEF Captured
    <3>2. None # b
      BY BillingAssumption
    <3> DEFINE f == [q \in Pay |-> IF held'[q].bill = b THEN held'[q].amount ELSE 0]
               g == [q \in Pay |->
                       IF pay'[q].bill = b /\ IsCaptured(pay'[q]) THEN pay'[q].amount ELSE 0]
    <3> HIDE DEF held
    <3>3. f = g
      BY <3>1, <3>2
    <3> QED
      BY <3>3 DEF Ledger!Held, Paid
  <2> DEFINE status == [c \in Bill |-> bill[c].status]
             total == [c \in Bill |-> bill[c].total]
             announced == [q \in Pay |-> outbox[<<"PaymentReceived", q>>]]
             ready == [c \in Bill |-> outbox[<<"BillReady", c>>]]
  <2>6. total' = total /\ ready' = ready
    BY <1>3, <1>7
  <2>7. announced' = [announced EXCEPT ![p] = announced[p] + 1]
    BY <1>3
  <2>8. status' = IF status[b] \in {"OPEN", "VOID"} THEN status
                  ELSE [status EXCEPT ![b] = Ledger!Standing(total[b], Ledger!Held(held', b))]
    <3>1. Ledger!Standing(total[b], Ledger!Held(held', b)) = StatusFor(bill[b].total, Paid(pay', b))
      BY <1>1, <2>5 DEF Ledger!Standing, StatusFor
    <3>2. status'[b] = IF status[b] \in {"OPEN", "VOID"} THEN status[b]
                       ELSE Ledger!Standing(total[b], Ledger!Held(held', b))
      BY <1>1, <1>4, <3>1
    <3>3. \A c \in Bill \ {b} : status'[c] = status[c]
      BY <1>4
    <3>4. \A c \in Bill : status'[c] = IF c # b \/ status[b] \in {"OPEN", "VOID"} THEN status[c]
                                     ELSE Ledger!Standing(total[b], Ledger!Held(held', b))
      BY <1>1, <3>2, <3>3
    <3> HIDE DEF held, total
    <3>5. CASE status[b] \in {"OPEN", "VOID"}
      BY <3>4, <3>5
    <3>6. CASE status[b] \notin {"OPEN", "VOID"}
      BY <3>4, <3>6
    <3> QED
      BY <3>5, <3>6
  <2>9. status[b] # "NONE" /\ held'[p].amount \in Nat \ {0}
    BY <1>1, <2>2
  <2> HIDE DEF held, status, total, announced, ready
  <2>10. /\ held[p] = Ledger!Nothing
         /\ status[b] # "NONE"
         /\ announced' = [announced EXCEPT ![p] = announced[p] + 1]
         /\ held'[p].amount \in Nat \ {0}
         /\ held' = [held EXCEPT ![p] = [bill |-> b, amount |-> held'[p].amount]]
         /\ status' = IF status[b] \in {"OPEN", "VOID"} THEN status
                      ELSE [status EXCEPT ![b] = Ledger!Standing(total[b], Ledger!Held(held', b))]
         /\ total' = total /\ ready' = ready
    BY <2>1, <2>4, <2>6, <2>7, <2>8, <2>9 DEF Ledger!Nothing
  <2> QED
    BY <2>10 DEF Ledger!Capture, held, status, total, announced, ready
<1>13. LedgerStep
  BY <1>1, <1>12 DEF LedgerStep, Ledger!Next
<1> QED
  BY <1>3, <1>4, <1>7, <1>8, <1>9, <1>11, <1>13 DEF Money

\* apply, with what the provider says of an intent or an older answer of it.
LEMMA ApplyInv ==
  ASSUME IInv, NEW p \in Pay, NEW seen, Known(p),
         seen \in {"succeeded", "canceled"} => intent[p] = seen,
         Apply(p, seen), UNCHANGED intent, hooks' \subseteq hooks
  PROVE  /\ Grows /\ RowsOK' /\ Money' /\ LedgerStep
         /\ bill' \in [Bill -> [status : BillStatus \cup {"NONE"}, total : Nat]]
         /\ outbox' \in [Event -> Nat]
         /\ pay' \in [Pay -> Rows]
         /\ \A q \in Pay : pay'[q].status # "NONE" => pay'[q].bill \in Bill /\ pay'[q].amount > 0
<1> USE DEF IInv
<1>1. PICK b \in Bill : b = pay[p].bill
  BY DEF Known
<1>2. PICK r : r = IF Settled(pay[p], seen) THEN pay[p] ELSE Moved(pay[p], seen)
  OBVIOUS
<1>3. /\ pay[p] \in Rows /\ pay[p].status # "NONE" /\ bill[b].status # "NONE" /\ pay[p].amount > 0
  BY <1>1 DEF TypeOK, RowsOK, RowOK, Known
<1>4. /\ r \in Rows /\ r.status # "NONE"
      /\ r.bill = b /\ r.amount = pay[p].amount
      /\ pay[p].status = "SUCCEEDED" => r = pay[p]
      /\ r.status # pay[p].status /\ r.status = "SUCCEEDED" => seen = "succeeded"
      /\ r.status # pay[p].status /\ r.status = "CANCELED" => seen = "canceled"
      /\ r.status # pay[p].status /\ pay[p].status = "CANCELED" => seen = "succeeded"
  BY <1>1, <1>2, <1>3, MovedRow
<1>5. pay' = [pay EXCEPT ![p] = r]
  BY <1>2 DEF Apply
<1>6. /\ pay' \in [Pay -> Rows]
      /\ pay'[p] = r /\ \A q \in Pay \ {p} : pay'[q] = pay[q]
      /\ \A q \in Pay : pay'[q].status # "NONE" => pay'[q].bill \in Bill /\ pay'[q].amount > 0
  BY <1>3, <1>4, <1>5 DEF TypeOK
<1>7. /\ Money' /\ LedgerStep
      /\ bill' \in [Bill -> [status : BillStatus \cup {"NONE"}, total : Nat]]
      /\ outbox' \in [Event -> Nat]
      /\ \A c \in Bill : bill'[c].status = "NONE" <=> bill[c].status = "NONE"
  <2>1. CASE IsCaptured(r) /\ ~IsCaptured(pay[p])
    <3>1. /\ bill' = [bill EXCEPT ![b] = SettledBill(b, pay')]
          /\ outbox' = Emitted(<<"PaymentReceived", p>>)
      BY <1>1, <1>2, <2>1 DEF Apply
    <3> QED
      BY <1>1, <1>4, <1>5, <2>1, <3>1, CaptureInv
  <2>2. CASE ~(IsCaptured(r) /\ ~IsCaptured(pay[p]))
    <3>1. UNCHANGED <<bill, outbox>>
      BY <1>2, <2>2 DEF Apply
    <3>2. ASSUME NEW q \in Pay
          PROVE  /\ IsCaptured(pay'[q]) <=> IsCaptured(pay[q])
                 /\ IsCaptured(pay[q]) => pay'[q].bill = pay[q].bill /\ pay'[q].amount = pay[q].amount
      BY <1>4, <1>6, <2>2 DEF IsCaptured
    <3>3. Money' /\ LedgerStep
      BY <3>1, <3>2, MoneyStays
    <3> QED
      BY <3>1, <3>3 DEF TypeOK
  <2> QED
    BY <2>1, <2>2
<1>8. Grows
  BY <1>1, <1>4, <1>6, <1>7 DEF Grows, Known
<1>9. ASSUME NEW q \in Pay PROVE RowOK(q)'
  <2>1. /\ Known(q)' <=> pay'[q].status # "NONE"
        /\ Known(q)' => bill'[pay'[q].bill].status # "NONE"
        /\ pay'[q].linked \/ intent'[q] # "none" => Known(q)'
    BY <1>1, <1>3, <1>4, <1>6, <1>7 DEF RowsOK, RowOK, Known
  <2>2. /\ pay'[q].status = "SUCCEEDED" => intent'[q] = "succeeded"
        /\ pay'[q].status = "CANCELED" => intent'[q] = "canceled"
    BY <1>4, <1>6 DEF RowsOK, RowOK
  <2> QED
    BY <2>1, <2>2 DEF RowOK
<1>10. \A e \in hooks' : Known(e[1])'
  BY <1>8 DEF RowsOK, Grows, TypeOK
<1> QED
  BY <1>6, <1>7, <1>8, <1>9, <1>10 DEF RowsOK

-----------------------------------------------------------------------------
(* Steps that open, price and void bills                                   *)

\* The ledger's sum for a bill is the bill's paid sum.
LEMMA HeldIsPaid ==
  ASSUME NEW b \in Bill
  PROVE  Ledger!Held([p \in Pay |-> [bill |-> IF Captured(p) THEN pay[p].bill ELSE None,
                                    amount |-> IF Captured(p) THEN pay[p].amount ELSE 0]], b)
           = Paid(pay, b)
<1> DEFINE held == [p \in Pay |-> [bill |-> IF Captured(p) THEN pay[p].bill ELSE None,
                                  amount |-> IF Captured(p) THEN pay[p].amount ELSE 0]]
           f == [p \in Pay |-> IF held[p].bill = b THEN held[p].amount ELSE 0]
           g == [p \in Pay |-> IF pay[p].bill = b /\ IsCaptured(pay[p]) THEN pay[p].amount ELSE 0]
<1>1. ASSUME NEW p \in Pay
      PROVE  /\ IsCaptured(pay[p]) => held[p].bill = pay[p].bill /\ held[p].amount = pay[p].amount
             /\ ~IsCaptured(pay[p]) => held[p].bill = None
  BY DEF Captured
<1>2. None # b
  BY BillingAssumption
<1> HIDE DEF held
<1>3. f = g
  BY <1>1, <1>2
<1> QED
  BY <1>3 DEF Ledger!Held, Paid, held

\* One bill changes: it is opened, priced or voided.
LEMMA BillMoves ==
  ASSUME IInv, NEW b \in Bill, NEW r \in [status : BillStatus, total : Nat],
         bill' = [bill EXCEPT ![b] = r],
         bill[b].status # "VOID", r.status # "VOID" => Live(b) \/ \A c \in Bill : ~Live(c),
         r.status \in {"PENDING", "PARTIALLY_PAID", "PAID"} => r.status = StatusFor(r.total, Paid(pay, b)),
         \/ outbox' = outbox /\ (r.status \in {"OPEN", "VOID"} => bill[b].status \in {"NONE", "OPEN", "VOID"})
         \/ /\ outbox' = Emitted(<<"BillReady", b>>)
            /\ bill[b].status \in {"NONE", "OPEN"} /\ r.status \notin {"OPEN", "VOID"},
         UNCHANGED <<pay, provider>>
  PROVE  /\ Grows /\ RowsOK' /\ Money'
         /\ bill' \in [Bill -> [status : BillStatus \cup {"NONE"}, total : Nat]]
         /\ outbox' \in [Event -> Nat]
<1> USE DEF IInv, provider
<1>1. /\ bill'[b] = r /\ r.status # "NONE" /\ \A c \in Bill \ {b} : bill'[c] = bill[c]
      /\ bill' \in [Bill -> [status : BillStatus \cup {"NONE"}, total : Nat]]
  BY DEF TypeOK, BillStatus
<1>2. /\ \A c \in Bill : <<"BillReady", c>> \in Event
      /\ \A q \in Pay : <<"PaymentReceived", q>> \in Event
  BY DEF Event
<1>3. /\ outbox' \in [Event -> Nat]
      /\ \A q \in Pay : outbox'[<<"PaymentReceived", q>>] = outbox[<<"PaymentReceived", q>>]
      /\ \A c \in Bill \ {b} : outbox'[<<"BillReady", c>>] = outbox[<<"BillReady", c>>]
      /\ \/ outbox' = outbox
         \/ outbox'[<<"BillReady", b>>] = outbox[<<"BillReady", b>>] + 1
  BY <1>2 DEF Emitted, TypeOK
<1>4. Grows /\ RowsOK'
  <2>1. Grows
    BY <1>1 DEF Grows, Known
  <2>2. ASSUME NEW q \in Pay PROVE RowOK(q)'
    BY <1>1 DEF RowsOK, RowOK, Known
  <2> QED
    BY <2>1, <2>2 DEF RowsOK, Known
<1>5. OneLive'
  BY <1>1 DEF Money, OneLive, Live
<1>6. Unannounced' /\ AnnouncedOnce'
  <2>1. Unannounced'
    BY <1>1, <1>2, <1>3 DEF Money, Unannounced
  <2>2. ASSUME NEW c \in Bill PROVE outbox'[<<"BillReady", c>>] <= 1
    BY <1>1, <1>2, <1>3 DEF Money, Unannounced, AnnouncedOnce, Emitted, TypeOK
  <2>3. \A p \in Pay : outbox'[<<"PaymentReceived", p>>] = IF IsCaptured(pay'[p]) THEN 1 ELSE 0
    BY <1>3 DEF Money, AnnouncedOnce
  <2> QED
    BY <2>1, <2>2, <2>3 DEF AnnouncedOnce
<1>7. BillFollowsMoney'
  BY <1>1 DEF Money, BillFollowsMoney
<1> QED
  BY <1>1, <1>3, <1>4, <1>5, <1>6, <1>7 DEF Money

LEMMA OpenBillInv ==
  ASSUME IInv, NEW h \in Handler, OpenBill(h)
  PROVE  IInv' /\ LedgerStep
<1> USE DEF IInv, provider
<1>1. CASE bill' = bill /\ Done(h)
  <2>1. IInv' /\ LedgerStep
    BY <1>1, IdleOK, QuietInv, FeedKept DEF OpenBill, Done, TypeOK
  <2> QED
    BY <2>1
<1>2. ASSUME NEW b \in Bill, BillFor(b),
             bill' = IF Live(b) THEN bill ELSE [bill EXCEPT ![b] = [status |-> "OPEN", total |-> 0]],
             Go(h, [Idle EXCEPT !.at = "deposit", !.bill = b])
      PROVE  IInv' /\ LedgerStep
  <2> DEFINE r == [status |-> "OPEN", total |-> 0]
  <2>1. PICK j : j = [Idle EXCEPT !.at = "deposit", !.bill = b]
    OBVIOUS
  <2>2. /\ j \in Jobs /\ Go(h, j)
        /\ j.at = "deposit" /\ j.bill = b /\ j.cancel = {} /\ j.drop = {}
    BY <1>2, <2>1, IdleOK DEF Jobs, Idle
  <2>3. CASE Live(b)
    <3>1. JobOK(j)
      BY <2>2, <2>3 DEF JobOK, Live
    <3> QED
      BY <1>2, <2>2, <2>3, <3>1, QuietInv, FeedKept DEF OpenBill, TypeOK
  <2>4. CASE ~Live(b)
    <3>1. /\ bill[b].status = "NONE" /\ bill[b].total = 0
          /\ \A c \in Bill : ~Live(c)
      BY <1>2, <2>4 DEF BillFor, Fresh, NoBill
    <3>2. /\ bill' = [bill EXCEPT ![b] = r]
          /\ r.status = "OPEN" /\ r.total = 0 /\ r \in [status : BillStatus, total : Nat]
          /\ UNCHANGED <<outbox, pay, provider>>
      <4>1. bill' = [bill EXCEPT ![b] = r]
        BY <1>2, <2>4
      <4>2. r.status = "OPEN" /\ r.total = 0 /\ r \in [status : BillStatus, total : Nat]
        BY DEF BillStatus
      <4>3. UNCHANGED <<outbox, pay, provider>>
        BY DEF OpenBill
      <4> QED
        BY <4>1, <4>2, <4>3
    <3> HIDE DEF r
    <3>3. /\ Grows /\ RowsOK' /\ Money'
          /\ bill' \in [Bill -> [status : BillStatus \cup {"NONE"}, total : Nat]]
      BY <3>1, <3>2, BillMoves
    <3>4. bill'[b].status # "NONE"
      BY <3>2 DEF TypeOK
    <3>5. JobOK(j)'
      BY <2>2, <3>4 DEF JobOK
    <3>6. job' \in [Handler -> Jobs] /\ JobsOK'
      BY <2>2, <3>3, <3>5, JobsKept
    <3>7. TypeOK'
      BY <3>3, <3>6, FeedKept DEF OpenBill, TypeOK
    <3>8. Ledger!Open(b)
      <4>1. Ledger!New(b)
        BY <3>1 DEF Ledger!New, Ledger!Live, Live
      <4>2. /\ bill'[b].status = "OPEN" /\ bill'[b].total = bill[b].total
            /\ \A c \in Bill \ {b} : bill'[c] = bill[c]
        BY <3>1, <3>2 DEF TypeOK
      <4> DEFINE status == [c \in Bill |-> bill[c].status]
                 total == [c \in Bill |-> bill[c].total]
      <4>3. status' = [status EXCEPT ![b] = "OPEN"]
        BY <4>2
      <4>4. total' = total
        BY <4>2
      <4> HIDE DEF status, total
      <4> QED
        BY <3>2, <4>1, <4>3, <4>4 DEF Ledger!Open, Captured, status, total
    <3>9. LedgerStep
      BY <3>8 DEF LedgerStep, Ledger!Next
    <3> QED
      BY <3>3, <3>6, <3>7, <3>9
  <2> QED
    BY <2>3, <2>4
<1> QED
  BY <1>1, <1>2 DEF OpenBill

LEMMA CancelledInv ==
  ASSUME IInv, NEW h \in Handler, Cancelled(h)
  PROVE  IInv' /\ LedgerStep
<1> USE DEF IInv, provider
<1>1. /\ FeedOK' /\ faults' \in 0 .. MaxFaults /\ ref' \in SchedStatus \cup {"NONE"}
      /\ Go(h, Idle) /\ UNCHANGED <<sched, pay, outbox, provider>>
  BY FeedProcessed DEF Cancelled, TypeOK, SchedStatus, Done, Topic
<1>2. CASE bill' = bill
  BY <1>1, <1>2, IdleOK, QuietInv DEF TypeOK
<1>3. CASE bill' # bill
  <2>1. PICK b : b = job[h].bill
    OBVIOUS
  <2>2. /\ b \in Bill /\ bill[b].status = "OPEN" /\ ~KeepsBill(b)
        /\ bill' = [bill EXCEPT ![b].status = "VOID"]
    BY <1>3, <2>1 DEF Cancelled, TypeOK, Jobs
  <2>3. PICK r \in [status : BillStatus, total : Nat] :
          /\ bill' = [bill EXCEPT ![b] = r]
          /\ r.status = "VOID" /\ r.total = bill[b].total
    <3>1. [bill[b] EXCEPT !.status = "VOID"] \in [status : BillStatus, total : Nat]
      BY <2>2 DEF TypeOK, BillStatus
    <3> QED
      BY <2>2, <3>1 DEF TypeOK
  <2>4. /\ Grows /\ RowsOK' /\ Money'
        /\ bill' \in [Bill -> [status : BillStatus \cup {"NONE"}, total : Nat]]
    BY <1>1, <2>2, <2>3, BillMoves
  <2>5. job' \in [Handler -> Jobs] /\ JobsOK'
    BY <1>1, <2>4, IdleOK, JobsKept
  <2>6. TypeOK'
    BY <1>1, <2>4, <2>5 DEF TypeOK
  <2>7. Ledger!Void(b)
    <3>1. \A p \in Pay : (IF Captured(p) THEN pay[p].bill ELSE None) # b
      BY <2>2, BillingAssumption DEF KeepsBill, PaymentsOf, Captured, IsCaptured
    <3> QED
      BY <1>1, <2>2, <2>3, <3>1 DEF Ledger!Void, Captured, TypeOK
  <2> QED
    BY <2>2, <2>4, <2>5, <2>6, <2>7 DEF LedgerStep, Ledger!Next
<1> QED
  BY <1>2, <1>3

LEMMA CompletedInv ==
  ASSUME IInv, NEW h \in Handler, Completed(h)
  PROVE  IInv' /\ LedgerStep
<1> USE DEF IInv, provider
<1>1. /\ FeedOK' /\ faults' \in 0 .. MaxFaults /\ ref' \in SchedStatus \cup {"NONE"}
      /\ UNCHANGED <<sched, pay, provider, job>>
  BY FeedProcessed DEF Completed, TypeOK, SchedStatus, Topic
<1>2. CASE UNCHANGED <<bill, outbox>>
  BY <1>1, <1>2, StillInv DEF TypeOK
<1>3. ASSUME NEW b \in Bill, BillFor(b), bill[b].status \in {"OPEN", "NONE"},
             bill' = [bill EXCEPT ![b] =
                        [status |-> StatusFor(Total, Paid(pay, b)), total |-> Total]],
             outbox' = IF Total > Paid(pay, b) THEN Emitted(<<"BillReady", b>>) ELSE outbox
      PROVE  IInv' /\ LedgerStep
  <2> DEFINE r == [status |-> StatusFor(Total, Paid(pay, b)), total |-> Total]
  <2>1. /\ r.status = StatusFor(Total, Paid(pay, b)) /\ r.total = Total
        /\ r.status \in {"PENDING", "PARTIALLY_PAID", "PAID"}
        /\ r \in [status : BillStatus, total : Nat] /\ bill' = [bill EXCEPT ![b] = r]
    BY <1>3, BillingAssumption DEF StatusFor, BillStatus
  <2> HIDE DEF r
  <2>2. /\ bill[b].status = "NONE" => \A c \in Bill : ~Live(c)
        /\ Live(b) \/ \A c \in Bill : ~Live(c)
    BY <1>3 DEF BillFor, Live
  <2>3. /\ Grows /\ RowsOK' /\ Money'
        /\ bill' \in [Bill -> [status : BillStatus \cup {"NONE"}, total : Nat]]
        /\ outbox' \in [Event -> Nat]
    <3>1. outbox' \in {outbox, Emitted(<<"BillReady", b>>)}
      BY <1>3
    <3> QED
      BY <1>1, <1>3, <2>1, <2>2, <3>1, BillMoves
  <2>4. TypeOK' /\ JobsOK'
    BY <1>1, <2>3, JobsStay DEF TypeOK
  <2>5. Ledger!Price(b)
    <3> DEFINE status == [c \in Bill |-> bill[c].status]
               total == [c \in Bill |-> bill[c].total]
               ready == [c \in Bill |-> outbox[<<"BillReady", c>>]]
               announced == [p \in Pay |-> outbox[<<"PaymentReceived", p>>]]
    <3>1. Ledger!New(b) \/ status[b] = "OPEN"
      BY <1>3, <2>2 DEF Ledger!New, Ledger!Live, Live
    <3>2. /\ bill'[b].status = Ledger!Standing(Total, Paid(pay, b)) /\ bill'[b].total = Total
          /\ \A c \in Bill \ {b} : bill'[c] = bill[c]
      <4>1. bill'[b] = r /\ \A c \in Bill \ {b} : bill'[c] = bill[c]
        BY <2>1 DEF TypeOK
      <4>2. Ledger!Standing(Total, Paid(pay, b)) = StatusFor(Total, Paid(pay, b))
        BY DEF Ledger!Standing, StatusFor
      <4> QED
        BY <2>1, <4>1, <4>2
    <3>3. total' = [total EXCEPT ![b] = Total]
      BY <3>2
    <3>4. status' = [status EXCEPT ![b] = Ledger!Standing(Total, Paid(pay, b))]
      BY <3>2
    <3>5. /\ ready' = IF Total > Paid(pay, b) THEN [ready EXCEPT ![b] = ready[b] + 1] ELSE ready
          /\ announced' = announced
      <4>1. CASE Total > Paid(pay, b)
        <5>1. /\ outbox' = Emitted(<<"BillReady", b>>)
              /\ \A c \in Bill : <<"BillReady", c>> \in Event
              /\ \A p \in Pay : <<"PaymentReceived", p>> \in Event
          BY <1>3, <4>1 DEF Event
        <5>2. /\ outbox'[<<"BillReady", b>>] = outbox[<<"BillReady", b>>] + 1
              /\ \A c \in Bill \ {b} : outbox'[<<"BillReady", c>>] = outbox[<<"BillReady", c>>]
              /\ \A p \in Pay : outbox'[<<"PaymentReceived", p>>] = outbox[<<"PaymentReceived", p>>]
          BY <5>1 DEF Emitted, TypeOK
        <5>3. ready' = [ready EXCEPT ![b] = ready[b] + 1] /\ announced' = announced
          BY <5>2
        <5> QED
          BY <4>1, <5>3
      <4>2. CASE ~(Total > Paid(pay, b))
        <5>1. ready' = ready /\ announced' = announced
          BY <1>3, <4>2
        <5> QED
          BY <4>2, <5>1
      <4> QED
        BY <4>1, <4>2
    <3> HIDE DEF status, total, ready, announced
    <3> QED
      BY <1>1, <3>1, <3>3, <3>4, <3>5, HeldIsPaid
         DEF Ledger!Price, Captured, status, total, ready, announced
  <2> QED
    BY <2>3, <2>4, <2>5 DEF LedgerStep, Ledger!Next
<1> QED
  BY <1>2, <1>3 DEF Completed, Priced

-----------------------------------------------------------------------------
(* The provider, and handlers that work on payment rows                    *)

LEMMA ProviderInv ==
  ASSUME IInv, NEW p \in Pay, Confirm(p) \/ Clears(p) \/ Declines(p)
  PROVE  IInv' /\ LedgerStep
<1> USE DEF IInv
<1>1. PICK s \in IntentStatus :
        intent' = [intent EXCEPT ![p] = s] /\ hooks' = hooks \cup {<<p, s>>}
  BY DEF Confirm, Clears, Declines, Becomes, IntentStatus
<1>2. /\ Known(p) /\ intent[p] \notin {"succeeded", "canceled"}
      /\ UNCHANGED <<sched, feed, ref, bill, pay, outbox, job>> /\ faults' \in 0 .. MaxFaults
  BY BillingAssumption DEF Confirm, Clears, Declines, Fault, RowsOK, RowOK, TypeOK
<1>3. /\ Grows /\ RowsOK' /\ Money' /\ LedgerStep
      /\ intent' \in [Pay -> IntentStatus \cup {"none"}]
      /\ hooks' \in SUBSET (Pay \X IntentStatus)
  BY <1>1, <1>2, IntentMoves
<1>4. TypeOK' /\ JobsOK'
  BY <1>2, <1>3, JobsStay, FeedKept DEF TypeOK
<1> QED
  BY <1>3, <1>4

\* The row of a payment requested for a bill, and the job that creates its intent.
LEMMA RequestInv ==
  ASSUME IInv, NEW h \in Handler, NEW b \in Bill, bill[b].status # "NONE",
         NEW type \in {"DEPOSIT", "FINAL"}, NEW amount \in Nat \ {0},
         NEW open \in SUBSET PaymentsOf(b), ResumeOrRequest(h, open, b, type, amount),
         UNCHANGED <<sched, feed, ref, bill, outbox, provider, faults>>
  PROVE  IInv' /\ LedgerStep
<1> USE DEF IInv, provider
<1>1. ASSUME NEW p \in Pay, NEW q \in {pay, pay'}, q[p].status # "NONE" => Known(p) \/ Known(p)',
             Resume(h, p, q[p])
      PROVE  \E j \in Jobs : /\ Go(h, j)
                             /\ j = Idle \/ j = [Idle EXCEPT !.at = "create", !.pay = p]
                             /\ j = Idle \/ Known(p) \/ Known(p)'
  <2>1. [Idle EXCEPT !.at = "create", !.pay = p] \in Jobs
    BY IdleOK DEF Jobs, Idle
  <2> QED
    BY <1>1, <2>1, IdleOK DEF Resume, NeedsIntent, Done
<1>2. ASSUME NEW p \in open, Resume(h, p, pay[p]), pay' = pay
      PROVE  IInv' /\ LedgerStep
  <2>1. p \in Pay /\ Known(p)
    BY DEF PaymentsOf, Known
  <2>2. PICK j \in Jobs : Go(h, j) /\ (j = Idle \/ j = [Idle EXCEPT !.at = "create", !.pay = p])
    BY <1>1, <1>2, <2>1
  <2>3. JobOK(j)
    BY <2>1, <2>2, IdleOK DEF JobOK, Idle
  <2> QED
    BY <1>2, <2>2, <2>3, QuietInv, FeedKept DEF TypeOK
<1>3. ASSUME NEW p \in Fresh(Pay, pay, NoPay), Resume(h, p, pay'[p]),
             pay' = [pay EXCEPT ![p] = Requested(b, type, amount)]
      PROVE  IInv' /\ LedgerStep
  <2>1. p \in Pay /\ pay[p].status = "NONE" /\ ~Known(p)
    BY DEF Fresh, NoPay, RowsOK, RowOK
  <2>2. PICK r \in Rows : /\ pay' = [pay EXCEPT ![p] = r]
                         /\ r.bill = b /\ r.status = "REQUIRES_PAYMENT" /\ r.amount = amount
    <3> DEFINE r == Requested(b, type, amount)
    <3>1. /\ r \in Rows /\ r.bill = b /\ r.status = "REQUIRES_PAYMENT" /\ r.amount = amount
      BY DEF Requested, Rows, PaymentStatus
    <3> HIDE DEF r
    <3> QED
      BY <1>3, <3>1 DEF r
  <2>3. /\ Grows /\ RowsOK' /\ Money' /\ LedgerStep
        /\ pay' \in [Pay -> Rows]
        /\ \A q \in Pay : pay'[q].status # "NONE" => pay'[q].bill \in Bill /\ pay'[q].amount > 0
    <3>1. /\ r.status # "NONE" /\ r.bill \in Bill /\ bill[r.bill].status # "NONE" /\ r.amount > 0
          /\ r.status \notin {"SUCCEEDED", "CANCELED"} /\ pay[p].status # "SUCCEEDED"
      BY <2>1, <2>2
    <3> QED
      BY <2>1, <2>2, <3>1, RowMoves
  <2>4. Known(p)'
    BY <2>1, <2>2 DEF Known, TypeOK
  <2>5. PICK j \in Jobs : Go(h, j) /\ (j = Idle \/ j = [Idle EXCEPT !.at = "create", !.pay = p])
    BY <1>1, <1>3, <2>1, <2>4
  <2>6. JobOK(j)'
    <3>1. CASE j = Idle
      BY <3>1, IdleOK
    <3>2. CASE j = [Idle EXCEPT !.at = "create", !.pay = p]
      BY <2>1, <2>4, <3>2 DEF JobOK, Idle
    <3> QED
      BY <2>5, <3>1, <3>2
  <2>7. job' \in [Handler -> Jobs] /\ JobsOK'
    BY <2>3, <2>5, <2>6, JobsKept
  <2>8. TypeOK'
    BY <2>3, <2>7, FeedKept DEF TypeOK
  <2> QED
    BY <2>3, <2>7, <2>8
<1>4. CASE pay' = pay /\ Done(h)
  BY <1>4, IdleOK, QuietInv, FeedKept DEF Done, TypeOK
<1> QED
  BY <1>2, <1>3, <1>4 DEF ResumeOrRequest

LEMMA StartPaymentInv ==
  ASSUME IInv, NEW h \in Handler, StartDeposit(h) \/ StartFinal(h)
  PROVE  IInv' /\ LedgerStep
<1> USE DEF IInv, provider
<1>1. CASE pay' = pay /\ Done(h)
  BY <1>1, IdleOK, QuietInv, FeedKept DEF StartDeposit, StartFinal, Done, TypeOK
<1>2. CASE StartDeposit(h) /\ ~(pay' = pay /\ Done(h))
  <2>1. PICK b : b = job[h].bill
    OBVIOUS
  <2>2. b \in Bill /\ bill[b].status # "NONE"
    BY <1>2, <2>1 DEF StartDeposit, At, JobsOK, JobOK
  <2>3. PICK open \in SUBSET PaymentsOf(b) : ResumeOrRequest(h, open, b, "DEPOSIT", Deposit)
    BY <1>2, <2>1 DEF StartDeposit
  <2> QED
    BY <1>2, <2>2, <2>3, BillingAssumption, RequestInv DEF StartDeposit
<1>3. CASE StartFinal(h) /\ ~(pay' = pay /\ Done(h))
  <2>1. PICK b : b = job[h].bill
    OBVIOUS
  <2>2. /\ b \in Bill /\ Payable(b)
        /\ \E open \in SUBSET PaymentsOf(b) : ResumeOrRequest(h, open, b, "FINAL", Due(b))
    BY <1>3, <2>1 DEF StartFinal, Closed, At, JobsOK, JobOK
  <2>3. bill[b].status # "NONE" /\ Due(b) \in Nat \ {0}
    BY <2>2 DEF Payable
  <2>4. PICK amount \in Nat \ {0}, open \in SUBSET PaymentsOf(b) :
          ResumeOrRequest(h, open, b, "FINAL", amount)
    BY <2>2, <2>3
  <2> QED
    BY <1>3, <2>2, <2>3, <2>4, RequestInv DEF StartFinal
<1> QED
  BY <1>1, <1>2, <1>3

LEMMA MarkInv ==
  ASSUME IInv, NEW p \in Pay, Known(p),
         pay' = [pay EXCEPT ![p].linked = TRUE] \/ pay' = MarkedFailed(p),
         UNCHANGED <<bill, outbox, provider>>
  PROVE  /\ Grows /\ RowsOK' /\ Money' /\ LedgerStep
         /\ pay' \in [Pay -> Rows]
         /\ \A q \in Pay : pay'[q].status # "NONE" => pay'[q].bill \in Bill /\ pay'[q].amount > 0
<1> USE DEF IInv
<1>1. /\ pay[p] \in Rows /\ pay[p].status # "NONE" /\ pay[p].amount > 0
      /\ pay[p].bill \in Bill /\ bill[pay[p].bill].status # "NONE"
  BY DEF TypeOK, RowsOK, RowOK, Known
<1>2. PICK r \in Rows :
        /\ pay' = [pay EXCEPT ![p] = r]
        /\ r.status \in {pay[p].status, "FAILED"} /\ r.bill = pay[p].bill /\ r.amount = pay[p].amount
        /\ pay[p].status \in {"SUCCEEDED", "CANCELED"} => r.status = pay[p].status
  <2>1. CASE pay' = [pay EXCEPT ![p].linked = TRUE]
    <3>1. [pay[p] EXCEPT !.linked = TRUE] \in Rows
      BY <1>1 DEF Rows
    <3> QED
      BY <1>1, <2>1, <3>1 DEF Rows
  <2>2. CASE pay' = MarkedFailed(p)
    <3>1. CASE pay' = pay
      BY <1>1, <3>1 DEF TypeOK
    <3>2. CASE pay' # pay
      <4>1. [pay[p] EXCEPT !.status = "FAILED"] \in Rows
        BY <1>1 DEF Rows, PaymentStatus
      <4>2. pay' = [pay EXCEPT ![p].status = "FAILED"] /\ pay[p].status \notin {"SUCCEEDED", "CANCELED"}
        BY <2>2, <3>2 DEF MarkedFailed
      <4> QED
        BY <1>1, <4>1, <4>2 DEF Rows
    <3> QED
      BY <3>1, <3>2
  <2> QED
    BY <2>1, <2>2
<1>3. /\ r.status # "NONE" /\ r.bill \in Bill /\ bill[r.bill].status # "NONE" /\ r.amount > 0
      /\ r.status \in {"SUCCEEDED", "CANCELED"} \/ pay[p].status = "SUCCEEDED"
           => r.status = pay[p].status
  BY <1>1, <1>2
<1> QED
  BY <1>2, <1>3, RowMoves

LEMMA RowInv ==
  ASSUME IInv, NEW h \in Handler,
         Link(h) \/ MarkFailed(h) \/ \E p \in Pay : Supersede(h, p)
  PROVE  IInv' /\ LedgerStep
<1> USE DEF IInv
<1>1. PICK p \in Pay, j \in Jobs :
        /\ Known(p) /\ JobOK(j) /\ Go(h, j)
        /\ pay' = [pay EXCEPT ![p].linked = TRUE] \/ pay' = MarkedFailed(p)
  <2>1. CASE Link(h) \/ MarkFailed(h)
    BY <2>1, IdleOK DEF Link, MarkFailed, Done, At, JobsOK, JobOK
  <2>2. ASSUME NEW p \in Pay, Supersede(h, p)
        PROVE  \E j \in Jobs : /\ Known(p) /\ JobOK(j) /\ Go(h, j)
                               /\ pay' = MarkedFailed(p)
    <3>1. PICK j : j = [job[h] EXCEPT !.drop = @ \ {p}]
      OBVIOUS
    <3>2. j \in Jobs /\ JobOK(j)
      <4>1. PICK k \in Jobs : k = job[h] /\ JobOK(k)
        BY DEF TypeOK, JobsOK
      <4>2. /\ j \in Jobs /\ j.at = k.at /\ j.pay = k.pay /\ j.bill = k.bill /\ j.seen = k.seen
            /\ j.after = k.after /\ j.cancel = k.cancel /\ j.drop = k.drop \ {p}
        BY <3>1, <4>1 DEF Jobs
      <4> QED
        BY <4>1, <4>2 DEF JobOK
    <3>3. Known(p) /\ Go(h, j) /\ pay' = MarkedFailed(p)
      BY <2>2, <3>1 DEF Supersede, JobsOK, JobOK
    <3> QED
      BY <3>2, <3>3
  <2> QED
    BY <2>1, <2>2
<1>2. UNCHANGED <<sched, feed, ref, bill, outbox, provider, faults>>
  BY DEF Link, MarkFailed, Supersede
<1>3. /\ Grows /\ RowsOK' /\ Money' /\ LedgerStep
      /\ pay' \in [Pay -> Rows]
      /\ \A q \in Pay : pay'[q].status # "NONE" => pay'[q].bill \in Bill /\ pay'[q].amount > 0
  BY <1>1, <1>2, MarkInv
<1>4. job' \in [Handler -> Jobs] /\ JobsOK'
  BY <1>1, <1>3, Grown, JobsKept
<1>5. TypeOK'
  BY <1>2, <1>3, <1>4, FeedKept DEF TypeOK, provider
<1> QED
  BY <1>3, <1>4, <1>5

\* createIntent, and canceling at the provider.
LEMMA IntentInv ==
  ASSUME IInv, NEW h \in Handler,
         CreateIntent(h) \/ CreateFails(h) \/ \E p \in Pay : CancelAtProvider(h, p)
  PROVE  IInv' /\ LedgerStep
<1> USE DEF IInv, provider
<1>1. PICK k \in Jobs : k = job[h] /\ JobOK(k)
  BY DEF TypeOK, JobsOK
<1>2. /\ UNCHANGED <<sched, feed, ref, bill, pay, outbox>> /\ faults' \in 0 .. MaxFaults
  <2>1. UNCHANGED <<sched, feed, ref, bill, pay, outbox>> /\ (UNCHANGED faults \/ Fault)
    BY DEF CreateIntent, CreateFails, CancelAtProvider
  <2>2. faults' \in 0 .. MaxFaults
    BY <2>1, BillingAssumption DEF Fault, TypeOK
  <2> QED
    BY <2>1, <2>2
<1>3. ASSUME NEW at \in {"link", "fail"}, Go(h, [k EXCEPT !.at = at]), k.at = "create",
             \/ UNCHANGED provider
             \/ /\ intent[k.pay] = "none" /\ intent' = [intent EXCEPT ![k.pay] = "open"]
                /\ hooks' = hooks
      PROVE  IInv' /\ LedgerStep
  <2>1. PICK j : j = [k EXCEPT !.at = at]
    OBVIOUS
  <2>2. /\ j \in Jobs /\ Go(h, j) /\ j.at = at /\ j.pay = k.pay
        /\ j.cancel = k.cancel /\ j.drop = k.drop
    BY <1>3, <2>1 DEF Jobs
  <2>3. JobOK(j) /\ k.pay \in Pay /\ Known(k.pay)
    BY <1>1, <1>3, <2>2 DEF JobOK
  <2>4. CASE UNCHANGED provider
    BY <1>2, <2>2, <2>3, <2>4, QuietInv, FeedKept DEF TypeOK
  <2>5. CASE intent[k.pay] = "none" /\ intent' = [intent EXCEPT ![k.pay] = "open"] /\ hooks' = hooks
    <3>1. "open" \in IntentStatus
      BY DEF IntentStatus
    <3>2. /\ Grows /\ RowsOK' /\ Money' /\ LedgerStep
          /\ intent' \in [Pay -> IntentStatus \cup {"none"}]
          /\ hooks' \in SUBSET (Pay \X IntentStatus)
      BY <1>2, <2>3, <2>5, <3>1, IntentMoves
    <3>3. job' \in [Handler -> Jobs] /\ JobsOK'
      BY <2>2, <2>3, <3>2, Grown, JobsKept
    <3>4. TypeOK'
      BY <1>2, <3>2, <3>3, FeedKept DEF TypeOK
    <3> QED
      BY <3>2, <3>3, <3>4
  <2> QED
    BY <1>3, <2>4, <2>5
<1>4. ASSUME CreateIntent(h) \/ CreateFails(h)
      PROVE  IInv' /\ LedgerStep
  <2>1. /\ k.at = "create"
        /\ \/ UNCHANGED provider
           \/ /\ intent[k.pay] = "none" /\ intent' = [intent EXCEPT ![k.pay] = "open"]
              /\ hooks' = hooks
    BY <1>1, <1>4 DEF CreateIntent, CreateFails, At
  <2>2. \E at \in {"link", "fail"} : Go(h, [k EXCEPT !.at = at])
    BY <1>1, <1>4 DEF CreateIntent, CreateFails
  <2> QED
    BY <1>3, <2>1, <2>2
<1>5. ASSUME NEW p \in Pay, CancelAtProvider(h, p)
      PROVE  IInv' /\ LedgerStep
  <2>1. p \in k.cancel /\ Known(p) /\ k.at = "close"
    BY <1>1, <1>5 DEF CancelAtProvider, NextToClose, At, JobOK
  <2>2. CASE intent[p] \in {"open", "declined"}
    <3>1. PICK j : j = [k EXCEPT !.at = "apply", !.pay = p, !.seen = "canceled"]
      OBVIOUS
    <3>2. /\ j \in Jobs /\ Go(h, j) /\ j.at = "apply" /\ j.pay = p /\ j.seen = "canceled"
          /\ j.cancel = k.cancel /\ j.drop = k.drop /\ j.after = k.after /\ j.bill = k.bill
      BY <1>1, <1>5, <2>2, <3>1 DEF CancelAtProvider, Jobs, IntentStatus
    <3>3. /\ intent' = [intent EXCEPT ![p] = "canceled"] /\ hooks' = hooks \cup {<<p, "canceled">>}
          /\ "canceled" \in IntentStatus
      BY <1>5, <2>2 DEF CancelAtProvider, Becomes, IntentStatus
    <3>4. /\ Grows /\ RowsOK' /\ Money' /\ LedgerStep
          /\ intent' \in [Pay -> IntentStatus \cup {"none"}]
          /\ hooks' \in SUBSET (Pay \X IntentStatus)
      BY <1>2, <2>1, <2>2, <3>3, IntentMoves
    <3>5. JobOK(j)'
      <4>1. intent'[p] = "canceled" /\ \A q \in Pay : Known(q)' <=> Known(q)
        BY <1>2, <3>3 DEF TypeOK, Known
      <4>2. k.cancel \cup k.drop \subseteq Pay
        BY <1>1 DEF Jobs
      <4> QED
        BY <1>1, <2>1, <3>2, <4>1, <4>2 DEF JobOK
    <3>6. job' \in [Handler -> Jobs] /\ JobsOK'
      BY <3>2, <3>4, <3>5, JobsKept
    <3>7. TypeOK'
      BY <1>2, <3>4, <3>6, FeedKept DEF TypeOK
    <3> QED
      BY <3>4, <3>6, <3>7
  <2>3. CASE intent[p] \notin {"open", "declined"}
    <3>1. PICK j : j = [k EXCEPT !.at = "retrieve", !.pay = p]
      OBVIOUS
    <3>2. /\ j \in Jobs /\ Go(h, j) /\ j.at = "retrieve" /\ j.pay = p
          /\ j.cancel = k.cancel /\ j.drop = k.drop /\ j.after = k.after /\ j.bill = k.bill
      BY <1>1, <1>5, <2>3, <3>1 DEF CancelAtProvider, Jobs
    <3>3. JobOK(j)
      BY <1>1, <2>1, <3>2 DEF JobOK
    <3> QED
      BY <1>2, <1>5, <2>3, <3>2, <3>3, QuietInv, FeedKept DEF CancelAtProvider, TypeOK
  <2> QED
    BY <2>2, <2>3
<1> QED
  BY <1>4, <1>5

\* What the provider says is recorded: by a close, a webhook or a sync.
LEMMA RecordInv ==
  ASSUME IInv, NEW h \in Handler, ApplyClosed(h) \/ Webhook(h) \/ Sync(h)
  PROVE  IInv' /\ LedgerStep
<1> USE DEF IInv, provider
<1>1. PICK k \in Jobs : k = job[h] /\ JobOK(k)
  BY DEF TypeOK, JobsOK
<1>2. k.pay \in Pay /\ Known(k.pay) /\ (k.seen \in {"succeeded", "canceled"} => intent[k.pay] = k.seen)
  BY <1>1 DEF ApplyClosed, Webhook, Sync, At, JobOK
<1>3. UNCHANGED <<sched, feed, ref, intent, faults>> /\ hooks' \subseteq hooks
  BY DEF ApplyClosed, Webhook, Sync
<1>4. PICK j \in Jobs : JobOK(j) /\ Go(h, j)
  <2>1. CASE ApplyClosed(h)
    <3>1. PICK j : j = [k EXCEPT !.at = "close", !.cancel = @ \ {k.pay}, !.pay = None, !.seen = ""]
      OBVIOUS
    <3>2. /\ j \in Jobs /\ Go(h, j) /\ j.at = "close" /\ j.after = k.after /\ j.bill = k.bill
          /\ j.cancel = k.cancel \ {k.pay} /\ j.drop = k.drop /\ k.at = "apply"
      BY <1>1, <2>1, <3>1 DEF ApplyClosed, At, Jobs
    <3>3. JobOK(j)
      BY <1>1, <3>2 DEF JobOK
    <3> QED
      BY <3>2, <3>3
  <2>2. CASE Webhook(h) \/ Sync(h)
    BY <2>2, IdleOK DEF Webhook, Sync, Done
  <2> QED
    BY <2>1, <2>2
<1>5. CASE Apply(k.pay, k.seen)
  <2>1. /\ Grows /\ RowsOK' /\ Money' /\ LedgerStep
        /\ bill' \in [Bill -> [status : BillStatus \cup {"NONE"}, total : Nat]]
        /\ outbox' \in [Event -> Nat]
        /\ pay' \in [Pay -> Rows]
        /\ \A q \in Pay : pay'[q].status # "NONE" => pay'[q].bill \in Bill /\ pay'[q].amount > 0
    BY <1>2, <1>3, <1>5, ApplyInv
  <2>2. job' \in [Handler -> Jobs] /\ JobsOK'
    BY <1>4, <2>1, Grown, JobsKept
  <2>3. TypeOK'
    BY <1>3, <2>1, <2>2, FeedKept DEF TypeOK
  <2> QED
    BY <2>1, <2>2, <2>3
<1>6. CASE UNCHANGED <<bill, pay, outbox, hooks>>
  BY <1>3, <1>4, <1>6, QuietInv, FeedKept DEF TypeOK
<1> QED
  BY <1>1, <1>5, <1>6 DEF ApplyClosed, Webhook, Sync

\* Reading, giving up, and what only concerns the booking.
LEMMA ReadInv ==
  ASSUME IInv, NEW h \in Handler,
         \/ RequestDeposit(h) \/ Upsert(h) \/ Retrieve(h) \/ Abort(h)
         \/ BookedRead(h) \/ Booked(h) \/ CancelledRead(h)
         \/ \E t \in Topic : DeliveryFails(h, t)
         \/ \E p \in Pay : Retry(h, p) \/ SyncRead(h, p)
         \/ \E b \in Bill : PayBalance(h, b)
         \/ \E e \in hooks : WebhookRead(h, e)
  PROVE  IInv' /\ LedgerStep
<1> USE DEF IInv, provider
<1>1. PICK k \in Jobs : k = job[h] /\ JobOK(k)
  BY DEF TypeOK, JobsOK
<1>2. /\ sched' \in SchedStatus /\ FeedOK'
      /\ faults' \in 0 .. MaxFaults /\ UNCHANGED <<bill, pay, outbox, provider>>
  <2>1. UNCHANGED <<sched, bill, pay, outbox, provider>>
    BY DEF RequestDeposit, Upsert, Retrieve, Abort, BookedRead, Booked, CancelledRead, Retry,
           SyncRead, PayBalance, WebhookRead, DeliveryFails
  <2>2. CASE Booked(h)
    BY <2>1, <2>2, FeedProcessed DEF Booked, TypeOK, Topic
  <2>3. CASE \E t \in Topic : DeliveryFails(h, t)
    <3>1. UNCHANGED faults
      BY <2>3 DEF DeliveryFails
    <3> QED
      BY <2>1, <2>3, <3>1, FeedFailed DEF TypeOK
  <2>4. CASE ~Booked(h) /\ ~\E t \in Topic : DeliveryFails(h, t)
    <3>1. UNCHANGED feed /\ (UNCHANGED faults \/ Fault)
      BY <2>4 DEF RequestDeposit, Upsert, Retrieve, Abort, BookedRead, CancelledRead, Retry,
                  SyncRead, PayBalance, WebhookRead
    <3> QED
      BY <2>1, <3>1, FeedKept, BillingAssumption DEF TypeOK, Fault
  <2> QED
    BY <2>2, <2>3, <2>4
<1>3. ref' \in SchedStatus \cup {"NONE"}
  <2>1. CASE Upsert(h)
    BY <1>1, <2>1 DEF Upsert, At, JobOK
  <2>2. CASE ~Upsert(h)
    BY <2>2 DEF RequestDeposit, Retrieve, Abort, BookedRead, Booked, CancelledRead, Retry,
                SyncRead, PayBalance, WebhookRead, DeliveryFails, TypeOK, SchedStatus
  <2> QED
    BY <2>1, <2>2
<1>4. ASSUME RequestDeposit(h) \/ Upsert(h)
      PROVE  \E j \in Jobs : JobOK(j) /\ Go(h, j)
  <2>1. CASE Go(h, [Idle EXCEPT !.at = "upsert", !.seen = sched])
    <3>1. PICK j : j = [Idle EXCEPT !.at = "upsert", !.seen = sched]
      OBVIOUS
    <3>2. j \in Jobs /\ j.at = "upsert" /\ j.seen \in SchedStatus /\ j.cancel = {} /\ j.drop = {}
      BY <3>1, IdleOK DEF Jobs, Idle, TypeOK
    <3> QED
      BY <2>1, <3>1, <3>2 DEF JobOK
  <2>2. CASE Go(h, [Idle EXCEPT !.at = "open"])
    <3>1. PICK j : j = [Idle EXCEPT !.at = "open"]
      OBVIOUS
    <3>2. j \in Jobs /\ j.at = "open" /\ j.cancel = {} /\ j.drop = {}
      BY <3>1, IdleOK DEF Jobs, Idle
    <3> QED
      BY <2>2, <3>1, <3>2 DEF JobOK
  <2> QED
    BY <1>4, <2>1, <2>2, IdleOK DEF RequestDeposit, Upsert, Done
<1>5. ASSUME Retrieve(h)
      PROVE  \E j \in Jobs : JobOK(j) /\ Go(h, j)
  <2>1. PICK j : j = [k EXCEPT !.at = "apply", !.seen = intent[k.pay]]
    OBVIOUS
  <2>2. k.at = "retrieve" /\ k.pay \in Pay /\ Known(k.pay)
    BY <1>1, <1>5 DEF Retrieve, At, JobOK
  <2>3. /\ j \in Jobs /\ j.at = "apply" /\ j.pay = k.pay /\ j.seen = intent[k.pay]
        /\ j.cancel = k.cancel /\ j.drop = k.drop /\ j.after = k.after /\ j.bill = k.bill
    BY <2>1, <2>2 DEF Jobs, TypeOK
  <2>4. JobOK(j)
    BY <1>1, <2>2, <2>3 DEF JobOK
  <2> QED
    BY <1>1, <1>5, <2>1, <2>3, <2>4 DEF Retrieve
<1>6. ASSUME Abort(h) \/ Booked(h) \/ \E t \in Topic : DeliveryFails(h, t)
      PROVE  \E j \in Jobs : JobOK(j) /\ Go(h, j)
  BY <1>6, IdleOK DEF Abort, Booked, DeliveryFails, Done
<1>7. ASSUME BookedRead(h)
      PROVE  \E j \in Jobs : JobOK(j) /\ Go(h, j)
  <2>1. PICK j : j = [Idle EXCEPT !.at = "booked", !.seen = ref]
    OBVIOUS
  <2>2. j \in Jobs /\ j.at = "booked" /\ j.cancel = {} /\ j.drop = {}
    BY <2>1, IdleOK DEF Jobs, Idle, TypeOK
  <2> QED
    BY <1>7, <2>1, <2>2 DEF BookedRead, JobOK
<1>8. ASSUME CancelledRead(h)
      PROVE  \E j \in Jobs : JobOK(j) /\ Go(h, j)
  <2> DEFINE job0 == [Idle EXCEPT !.at = "close", !.after = "void"]
  <2>1. job0 \in Jobs /\ job0.at = "close" /\ job0.after = "void" /\ job0.cancel = {} /\ job0.drop = {}
    BY IdleOK DEF Jobs, Idle
  <2>2. CASE Go(h, job0)
    BY <2>1, <2>2 DEF JobOK
  <2>3. CASE ~Go(h, job0)
    <3>1. PICK b \in Bill, S \in SUBSET Pay : /\ S \subseteq PaymentsOf(b)
                                             /\ Go(h, [job0 EXCEPT !.bill = b, !.cancel = S])
      BY <1>8, <2>3 DEF CancelledRead, PaymentsOf
    <3>2. PICK j : j = [job0 EXCEPT !.bill = b, !.cancel = S]
      OBVIOUS
    <3>3. \A p \in S : p \in Pay /\ Known(p)
      BY <3>1 DEF PaymentsOf, Known
    <3> HIDE DEF job0
    <3>4. j \in Jobs /\ j.at = "close" /\ j.after = "void" /\ j.cancel = S /\ j.drop = {}
      BY <2>1, <3>2, <3>3 DEF Jobs
    <3> QED
      BY <3>1, <3>2, <3>3, <3>4 DEF JobOK
  <2> QED
    BY <2>2, <2>3
<1>9. ASSUME NEW p \in Pay, Retry(h, p)
      PROVE  \E j \in Jobs : JobOK(j) /\ Go(h, j)
  <2>1. PICK j : j = [Idle EXCEPT !.at = "create", !.pay = p]
    OBVIOUS
  <2>2. j \in Jobs /\ j.at = "create" /\ j.pay = p /\ j.cancel = {} /\ j.drop = {}
    BY <2>1, IdleOK DEF Jobs, Idle
  <2>3. Known(p)
    BY <1>9 DEF Retry, NeedsIntent, RowsOK, RowOK
  <2> QED
    BY <1>9, <2>1, <2>2, <2>3 DEF Retry, Resume, JobOK
<1>10. ASSUME NEW p \in Pay, Known(p), NEW j \in Jobs, j.pay = p, j.seen = intent[p],
              j.at \in {"sync", "webhook"}, j.cancel = {}, j.drop = {}
       PROVE  JobOK(j)
  BY <1>10 DEF JobOK
<1>11. ASSUME NEW p \in Pay, SyncRead(h, p)
       PROVE  \E j \in Jobs : JobOK(j) /\ Go(h, j)
  <2>1. PICK j : j = [Idle EXCEPT !.at = "sync", !.pay = p, !.seen = intent[p]]
    OBVIOUS
  <2>2. /\ j \in Jobs /\ j.at = "sync" /\ j.pay = p /\ j.seen = intent[p]
        /\ j.cancel = {} /\ j.drop = {}
    BY <2>1, IdleOK DEF Jobs, Idle, TypeOK
  <2>3. Known(p) /\ Go(h, j)
    BY <1>11, <2>1 DEF SyncRead, RowsOK, RowOK
  <2> QED
    BY <1>10, <2>2, <2>3
<1>12. ASSUME NEW e \in hooks, WebhookRead(h, e)
       PROVE  \E j \in Jobs : JobOK(j) /\ Go(h, j)
  <2>1. e[1] \in Pay /\ e[2] \in IntentStatus /\ Known(e[1])
    BY DEF TypeOK, RowsOK
  <2>2. PICK j : j = [Idle EXCEPT !.at = "webhook", !.pay = e[1], !.after = e[2], !.seen = intent[e[1]]]
    OBVIOUS
  <2>3. /\ j \in Jobs /\ j.at = "webhook" /\ j.pay = e[1] /\ j.seen = intent[e[1]]
        /\ j.cancel = {} /\ j.drop = {}
    BY <2>1, <2>2, IdleOK DEF Jobs, Idle, TypeOK
  <2> QED
    BY <1>10, <1>12, <2>1, <2>2, <2>3 DEF WebhookRead
<1>13. ASSUME NEW b \in Bill, PayBalance(h, b)
      PROVE  \E j \in Jobs : JobOK(j) /\ Go(h, j)
  <2>1. PICK S \in SUBSET PaymentsOf(b), T \in SUBSET PaymentsOf(b) :
          Go(h, [Idle EXCEPT !.at = "close", !.bill = b, !.after = "pay", !.cancel = S, !.drop = T])
    BY <1>13 DEF PayBalance
  <2>2. PICK j : j = [Idle EXCEPT !.at = "close", !.bill = b, !.after = "pay", !.cancel = S, !.drop = T]
    OBVIOUS
  <2>3. \A p \in S \cup T : p \in Pay /\ Known(p)
    BY DEF PaymentsOf, Known
  <2>4. j \in Jobs /\ j.at = "close" /\ j.bill = b /\ j.cancel = S /\ j.drop = T
    BY <2>2, <2>3, IdleOK DEF Jobs, Idle
  <2> QED
    BY <2>1, <2>2, <2>3, <2>4 DEF JobOK
<1>14. \E j \in Jobs : JobOK(j) /\ Go(h, j)
  BY <1>4, <1>5, <1>6, <1>7, <1>8, <1>9, <1>11, <1>12, <1>13
<1> QED
  BY <1>2, <1>3, <1>14, QuietInv

-----------------------------------------------------------------------------
(* The theorems                                                            *)

\* Nothing is billed before the first event.
LEMMA InitInv == Init => IInv /\ Ledger!Init
<1> SUFFICES ASSUME Init PROVE IInv /\ Ledger!Init
  OBVIOUS
<1> USE DEF Init
<1>1. None \notin Bill
  BY BillingAssumption
<1>2. NoPay \in Rows /\ NoPay.status = "NONE" /\ NoPay.bill = None /\ ~NoPay.linked
  BY DEF NoPay, Rows
<1>3. /\ NoBill \in [status : BillStatus \cup {"NONE"}, total : Nat]
      /\ NoBill.status = "NONE" /\ NoBill.total = 0
  BY DEF NoBill
<1>4. TypeOK
  <2>1. FeedOK
    BY BillingAssumption DEF FeedOK, Topic
  <2> QED
    BY <1>2, <1>3, <2>1, IdleOK, BillingAssumption DEF TypeOK, SchedStatus
<1>5. RowsOK
  BY <1>1, <1>2 DEF RowsOK, RowOK, Known
<1>6. JobsOK
  BY IdleOK DEF JobsOK
<1>7. Money
  <2>1. ~IsCaptured(NoPay)
    BY <1>2 DEF IsCaptured
  <2>2. /\ \A c \in Bill : <<"BillReady", c>> \in Event
        /\ \A q \in Pay : <<"PaymentReceived", q>> \in Event
    BY DEF Event
  <2>3. OneLive /\ Unannounced /\ AnnouncedOnce
    BY <1>3, <2>1, <2>2 DEF OneLive, Live, Unannounced, AnnouncedOnce
  <2>4. BillFollowsMoney
    BY <1>3 DEF BillFollowsMoney
  <2> QED
    BY <2>3, <2>4 DEF Money
<1>8. Ledger!Init
  <2>1. ~IsCaptured(NoPay)
    BY <1>2 DEF IsCaptured
  <2>2. /\ \A c \in Bill : <<"BillReady", c>> \in Event
        /\ \A q \in Pay : <<"PaymentReceived", q>> \in Event
    BY DEF Event
  <2> QED
    BY <1>3, <2>1, <2>2 DEF Ledger!Init, Ledger!Nothing, Captured
<1> QED
  BY <1>4, <1>5, <1>6, <1>7, <1>8 DEF IInv

\* Every step of billing keeps the invariant, and is a step of the ledger or
\* changes nothing the ledger shows.
LEMMA NextInv == IInv /\ [Next]_vars => IInv' /\ LedgerStep
<1> SUFFICES ASSUME IInv, [Next]_vars PROVE IInv' /\ LedgerStep
  OBVIOUS
<1>1. CASE SchedulerCancels \/ SchedulerCompletes
  <2>1. /\ UNCHANGED <<processed, tries, dlt, ref, bill, pay, outbox, provider, job, faults>>
        /\ sched' \in SchedStatus
        /\ \E topic \in Topic : news' = news \cup {topic}
    BY <1>1 DEF SchedulerCancels, SchedulerCompletes, Settle, SchedStatus, Topic
  <2>2. FeedOK'
    BY <2>1 DEF FeedOK, IInv, TypeOK
  <2> QED
    BY <2>1, <2>2, StillInv DEF IInv, TypeOK
<1>2. ASSUME NEW p \in Pay, Confirm(p) \/ Clears(p) \/ Declines(p) PROVE IInv' /\ LedgerStep
  BY <1>2, ProviderInv
<1>3. ASSUME NEW h \in Handler, Start(h) PROVE IInv' /\ LedgerStep
  BY <1>3, ReadInv, CompletedInv DEF Start
<1>4. ASSUME NEW h \in Handler, Continue(h) PROVE IInv' /\ LedgerStep
  <2>1. CASE Upsert(h) \/ Retrieve(h) \/ Booked(h)
    BY <2>1, ReadInv
  <2>2. CASE OpenBill(h) \/ Cancelled(h)
    BY <2>2, OpenBillInv, CancelledInv
  <2>3. CASE StartDeposit(h) \/ StartFinal(h)
    BY <2>3, StartPaymentInv
  <2>4. CASE Link(h) \/ MarkFailed(h) \/ \E p \in Pay : Supersede(h, p)
    BY <2>4, RowInv
  <2>5. CASE CreateIntent(h) \/ \E p \in Pay : CancelAtProvider(h, p)
    BY <2>5, IntentInv
  <2>6. CASE ApplyClosed(h) \/ Webhook(h) \/ Sync(h)
    BY <2>6, RecordInv
  <2> QED
    BY <1>4, <2>1, <2>2, <2>3, <2>4, <2>5, <2>6 DEF Continue
<1>5. ASSUME NEW h \in Handler, CreateFails(h) PROVE IInv' /\ LedgerStep
  BY <1>5, IntentInv
<1>6. ASSUME NEW h \in Handler, Abort(h) PROVE IInv' /\ LedgerStep
  BY <1>6, ReadInv
<1>7. ASSUME NEW t \in Topic, ForgetTries(t) PROVE IInv' /\ LedgerStep
  <2>1. FeedOK'
    BY <1>7, BillingAssumption DEF ForgetTries, FeedOK, IInv, TypeOK
  <2>2. faults' \in 0 .. MaxFaults
    BY <1>7, BillingAssumption DEF ForgetTries, Fault, IInv, TypeOK
  <2> QED
    BY <1>7, <2>1, <2>2, StillInv DEF ForgetTries, IInv, TypeOK
<1>8. ASSUME NEW h \in Handler, NEW t \in Topic, DeliveryFails(h, t) PROVE IInv' /\ LedgerStep
  BY <1>8, ReadInv
<1>9. CASE UNCHANGED vars
  BY <1>9, StillInv, FeedKept DEF vars, IInv, TypeOK
<1> QED
  BY <1>1, <1>2, <1>3, <1>4, <1>5, <1>6, <1>7, <1>8, <1>9 DEF Next

\* The inductive invariant of billing holds in every state.
THEOREM Invariant == Spec => []IInv
<1>1. Init => IInv
  BY InitInv
<1>2. IInv /\ [Next]_vars => IInv'
  BY NextInv
<1> QED
  BY <1>1, <1>2, PTL DEF Spec

\* Rows, jobs, intents and webhooks keep their types; a payment row has a
\* bill and a positive amount.
THEOREM TypeCorrect == Spec => []TypeOK
<1>1. IInv => TypeOK
  BY DEF IInv
<1> QED
  BY <1>1, Invariant, PTL

\* However pricing, captures and cancellation interleave, a priced bill has
\* the status its captured payments give it.
THEOREM StatusFollowsMoney == Spec => []BillFollowsMoney
<1>1. IInv => BillFollowsMoney
  BY DEF IInv, Money
<1> QED
  BY <1>1, Invariant, PTL

\* However many webhooks, syncs and closes report a capture, PaymentReceived
\* is emitted once for it, and BillReady at most once for a bill.
THEOREM NothingAnnouncedTwice == Spec => []AnnouncedOnce
<1>1. IInv => AnnouncedOnce
  BY DEF IInv, Money
<1> QED
  BY <1>1, Invariant, PTL

\* A snapshot of an intent may be applied late, but a payment is SUCCEEDED or
\* CANCELED only when its intent is.
THEOREM FinalStatusIsTrue == Spec => []FinalIsTrue
<1>1. IInv => FinalIsTrue
  BY DEF IInv, RowsOK, RowOK, FinalIsTrue
<1> QED
  BY <1>1, Invariant, PTL

\* billing implements the ledger.
THEOREM ImplementsLedger == Spec => IsALedger
<1>1. Init => Ledger!Init
  BY InitInv
<1>2. IInv /\ [Next]_vars => [Ledger!Next]_(Ledger!lvars)
  BY NextInv DEF LedgerStep
<1> QED
  BY <1>1, <1>2, Invariant, PTL DEF Spec, IsALedger, Ledger!Spec
=============================================================================
