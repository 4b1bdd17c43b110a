# Service-bay scheduler: specification, model checking and proofs

This directory specifies the backend of the service-bay scheduler in TLA+: the
booking of bays and what is offered of them, the transactional outbox, the event
consumers, billing, the ownership of vehicles, customers' profiles, users and
their sessions, the listings and their cache, and how the services start, migrate
and stop. TLC checks small instances of every module; TLAPS proves, for every
value of the constants, each safety property and each refinement that the passing
runs check.

## 1. Inventory

Five services, each with its own Postgres database, in a hexagonal layout. A
service never writes another's tables: it asks over HTTP with the caller's token,
or reacts to events. Every write that others care about appends an event to
`outbox_message` in the same transaction; a relay publishes the table to Kafka.

| Component | State | Operations | Talks to | What is hard |
|---|---|---|---|---|
| scheduler: appointments (`booking-service.go`, `appointment-repository.go`) | appointment, appointment_bay, appointment_vehicle, appointment_service, outbox | Book, Cancel, Complete; reads: Availability, HubDay, MyAppointments | customer and vehicle (HTTP), outbox | contention for bays and vehicles, stale reads, failure in mid-transaction |
| outbox relay (`outbox-relay.go`, `outbox-repository.go`, one per Go service) | published_at, the relay's batch, the topic | insert, fetch, publish, mark | Kafka | commit order differs from id order, replicas, crash between publish and mark |
| consumers (`vehicle-consumer.go`, `customer-consumer.go` and their handlers) | offsets, service_history | claim, deliver, handle, mark, rebalance | Kafka, vehicle and customer tables | redelivery, two owners during a rebalance, a failing handler |
| billing (`Payments.java`, `Bookings.java`, `domain/`) | bill, payment, appointment_ref, processed_event, outbox; the intents at Stripe | requestDeposit, payBalance, webhook, sync, confirmTest, booked, cancelled, completed | Stripe, scheduler's events, vehicle (warranty) | the provider acts on its own, its answers age, calls fail or are lost, events of three topics |
| billing's relay (`OutboxRelay.java`) | the same table, an advisory lock | relay, cleanup | Kafka | the producer goes on retrying after the relay stopped waiting |
| customer (`customer-service.go`, `customer-repository.go`, `consumer-handler.go`) | customer, outbox | CreateCustomer, UpdateProfile, DeleteProfile, LinkUser, reads | outbox, identity's events | linking a user while staff create, change or delete the profile; two authors of one profile |
| listings and their cache (`GetCustomers`, `ListVehicles`) | the tables, Redis | a page after a cursor | | pages of different ages, rows that appear behind a cursor |
| vehicle (`vehicle-service.go`) | vehicle, customer_vehicle, materials, service_history | register, update, assign, transfer, record a service | outbox, scheduler's events | one current owner, transfer against assign and scrap, stale updates |
| identity: users (`admin-service.go`, `user-writer.go`) | app_user, outbox | register, create, set status, bootstrap | outbox | administrators who are locked while they act, replicas that bootstrap at once |
| identity: sessions (`auth-service.go`, `throttle.go`, `redis.go`) | refresh tokens and counters in Redis | login, refresh, logout, the throttle | the users | single use of a token, check before count, calls that fail |
| start, migrations, shutdown (`application.go`, `cmd/migrate`, `migrations.go`) | connections, workers, requests, the schema | the main goroutine, goose under its lock | all of the above | replicas that migrate at once, a shutdown at any moment, the order of closing |
| HTTP decoding, clients, configuration, metrics, frontend, deployment | none of their own | | | |

What makes each correct, in one line: a bay or a vehicle is never in two live
appointments at once, and what is offered can be booked; what is committed is
published, in its key's order; what is acknowledged was handled, and handled
twice it counts once; a bill says what was paid on it, every capture is recorded
and announced once, and a bill with money on it is not voided; a vehicle has at
most one owner; the events of a profile and of a user are its history; only
administrators make staff; a refresh token is good for one session, a logout is
final and the throttle holds; a walk over the pages misses nothing that was there;
nothing is used before it is open or after it is closed.

`PROJECT.json` lists every component with its status and every hazard at the line
where it bites.

## 2. Modules

| Module | Models | Theorems |
|---|---|---|
| `BayCalendar` | abstract: what booking promises, one atomic step per appointment's change | |
| `Booking` | scheduler's Book, Cancel and Complete, transaction by transaction | `BookingProofs` |
| `Availability` | scheduler's availability, day sheet and services, over Booking's tables | `BookingProofs` |
| `KeyedLog` | abstract: an at-least-once log, ordered per key | |
| `OutboxRelay` | the outbox table and its relays | `OutboxRelayProofs` |
| `EventConsumer` | one partition, its consumer group and the service-history handler | `ServiceProofs` |
| `BillLedger` | abstract: what billing promises about money | |
| `Payments` | billing for one appointment, with the provider and scheduler around it | `PaymentsProofs` |
| `VehicleTitle` | abstract: a title register, one atomic entry per success | |
| `VehicleOwnership` | vehicle-service for one vehicle: register, update, first owner, transfer | `VehicleOwnershipProofs` |
| `Customers` | one customer profile per email: staff, and the deliveries of its user's event | `CustomersProofs` |
| `Accounts` | the users of identity: registration, administration, bootstrap | `AccountsProofs` |
| `Sessions` | login, refresh and logout with Redis, and the throttle | `SessionsProofs` |
| `Listing` | keyset pages of customers and vehicles, their cache, clients that walk them | `ServiceProofs` |
| `Lifecycle` | the main goroutine of each Go service and of `cmd/migrate` | `ServiceProofs` |
| `MCBooking`, `MCPayments`, `MCListing` | instances for TLC: only constants and symmetry sets | |

`Availability` extends `Booking` and is checked with it, in the same run. Three
modules implement an abstract one: `Booking`, `Payments` and `VehicleOwnership`
their register of promises, and `OutboxRelay` the log that `EventConsumer` starts
from. `Accounts` and `Sessions` are two views of identity: in `Sessions` an account
is only whether it is active, at each change `Accounts` may make. `EventConsumer`,
`Listing` and `Lifecycle` are what every Go service has besides its rows; they
share no variable and are proved about in one module, so the last two prefix the
usual names (`ListingInit`, `ListingSpec`, `ProcessInit`, `ProcessSpec`, ...).

### Booking

State: the rows of the four tables (`appt`, `bay`, `veh`, ...), the advisory locks
and each handler's locals. A handler takes a request through the code's steps:
the checks before the transaction (`BookCheck`), the vehicle's lock (`BookLock`),
`VehicleBusy` and `FreeBay`, the rows (`BookInsert`), the exclusion constraint,
which may wait for another transaction's uncommitted bay row (`BookCreate`,
`BayContended`), and the commit with its event. Two inserts that find each
other's row in the constraint wait for each other; Postgres ends one
(`BookDeadlock`). `Cancel` and `Complete` read outside their transaction and update
conditionally, as the code does. `Fail` rolls any transaction back; `Tick` moves
the clock. Uncommitted rows are kept apart from committed ones, so `FreeBay` sees
what a read-committed query sees.

`BayCalendar` books, cancels and completes in one step each; `IsACalendar` is the
refinement, in which an appointment exists from the commit on.

### Availability

No state of its own: what the reads answer is a function of Booking's tables at
the moment of the statement. `Slots` is the Go loop over bays and reservations
with its step, opening hours and duration; `Resolved` and `TotalDuration` are what
a request's service ids come to; `HubDay` is the day sheet with its LIMIT.
`OfferIsBookable` compares each slot with `FreeBays`, which is the SQL that Book
asks. The clock runs over one day of one time zone.

### OutboxRelay

A transaction inserts rows with ids taken at once and commits later, or never;
each key's row lock orders the transactions of that key. A relay fetches
unpublished rows in id order, sends them one by one, stops at the first failure
and marks what was sent; replicas do so independently and a process may end
anywhere. `SendUnacked` is a send the broker has but the relay does not know of.
The order promised is per topic and key: events of one key on several topics are
not ordered, and the code does not say they are.

A send that times out is taken to have landed by then or never; the Go producer
retries inside the call. (Billing's relay stops waiting earlier than its producer
does; see section 5.)

### EventConsumer

Members claim the partition, also two of them while a rebalance is not noticed
yet; a member handles messages from the committed offset on, marks each it
handled, and marks are committed later. The handler's INSERT ... ON CONFLICT DO
NOTHING (`Record`) waits while another member has inserted the appointment's row
and not committed it (`Contended`), and adds a row or finds one; `RecordCommit`
ends the transaction. A row is the appointment, whose id is unique in the table.
A handler's error is logged and the next message is handled. A repetition that
were answered with an error would stay unmarked and come back with each rebalance;
`EveryMessageAcked` says that the group's offset passes it.

### Payments

One appointment's bills and payments. Each transaction is one action: it holds
the bill's row lock, and where it takes none a stale `@Version` aborts it
(`Abort`). What the code reads outside a transaction is kept in the handler's
`job` until it is used: `seen` is the status an intent had when it was retrieved,
`cancel` and `drop` are the payments step 1 of payBalance listed. The provider
(`Confirm`, `Clears`, `Declines`) and scheduler (`SchedulerCancels`,
`SchedulerCompletes`) act on their own; webhooks stay until they are acknowledged,
so a handler that ends early leaves them to be delivered again. `news` are
scheduler's events whose offset is not committed; markProcessed commits with what
the event changed (`Processes`, `processed`), and the record may come again after
that. A redelivered AppointmentCancelled still closes the open intents before it
finds that it was processed. An attempt may fail for whatever reason, also every
time (`DeliveryFails`): Spring Kafka counts the failures in memory (`tries`, which
a restart or a rebalance forgets, `ForgetTries`), retries `MaxRetries` times, then
puts the record into the dead-letter topic (`dlt`) and goes on. `Failing` are the
topics whose deliveries an instance lets fail or repeat. Handlers are
HTTP threads, webhook threads and Kafka listeners of any replica alike.

Abstracted: why an attempt fails (the warranty lookup, a bill in another currency,
the database) and the exponential waits between attempts; an event that cannot be
read goes to the dead-letter topic at once, but scheduler writes none. The
service's price and the deposit are constants; the failure codes
and the PaymentFailed event they decide are left out; a bill's lines, currency
and the warranty only decide its total; no code writes refunds, so the refunded
sum is 0.

`BillLedger` opens, prices, voids and captures atomically; `IsALedger` maps a
bill to its row and a capture to a payment that is SUCCEEDED.

### VehicleOwnership

One vehicle: its row, its ownerships in id order and its events in outbox order,
all as committed. A handler is a request in its READ COMMITTED transaction; `pc`
says which statement it has executed, and from that follow the locks it holds
(`HoldsVehicle`, `SharesVehicle`, `HoldsOwner`), so nothing has to release them.
Assign and Update lock the vehicle's row and check under the lock. Transfer locks
the current owner's row, found before it was waited for (`TransferFind`,
`TransferClose`), and needs the vehicle only when its insert checks the foreign
key. The insert of an assignment waits on the current-owner index for a transfer
that has ended the ownership, so the two can wait for each other: Postgres fails
one (`BreakDeadlock`).

One vehicle is enough: locks and indexes are per vehicle, and two vehicles
compete only for a VIN or a plate, which is the contest of `RegisterInsert`.
`updated_at` is a version number: two updates of one row are assumed not to be
stamped with the same microsecond. A client that gives an older `updated_at` than
the row's when its request arrives is refused as one whose row changes while it
waits, so `Accept` takes the current one.

`VehicleTitle` registers, updates, scraps and changes hands in one step each;
`IsATitle` is the refinement.

Two guards that come second in the code are left out: uq_vehicle_current_owner when
a transfer inserts (`vehicle-customer-repository.go:38`), since the transfer has
ended the current ownership and holds its row, and the WHERE updated_at of an
update (`vehicle-repository.go:141`), since the version was compared under the row's
lock. Neither can refuse what the first has let pass. In the code they would also
stop part of what follows from the mutants `AssignInsertAnyway`,
`TransferCloseStale` and `UpdateReads`, with an error instead of a wrong row.

What the model contains but no property forbids: an assignment that loses the
deadlock is answered 500, and a transfer that waited for a row another transfer
ended is answered 404 although the vehicle has a new owner.

### Customers

A profile is identified by its email, which is unique among deleted ones too. A
handler is a request of staff or the delivery of the event of the user with that
email, statement by statement: what it has read (`ReadBefore`, `FindUser`), the
write that waits for the row lock of another transaction (`Write`, and `Insert`
for another's uncommitted email), and the commit with its event. `Wanted` is the
WHERE clause, which Postgres evaluates again on the row it waited for. `Refuse`
is every error answer; `Fail` rolls back anywhere. A delivery is repeated as
often as the bound on requests allows.

An event records which version it changed (`of`): `EventsTell` says that the
events form a chain, so that no change overwrites one its author had not seen.

### Accounts

Committed rows and their events; the control state of a handler says which row
lock or uncommitted insert it has. `RoleClaim` is the middleware's look at the
token, which may be older than the account's status; `RequireAdmin` is the service's
look at the row, in a statement before the transaction. `by` notes who made an
account, which the code knows then and logs.

### Sessions

A session is the chain of refresh tokens that one login starts. Each step is one
call to Redis or the database: the limits are checked one by one (`Check`), and,
after a wrong password or before a registration, counted one by one
(`AddAttempt`); a refresh consumes its token (GETDEL), looks at the account and
issues the next. `Fault` is a call that fails, with its effect or without it, and
what the handler then does: the throttle goes on, everything else answers. Two
history variables serve the properties: `tried` is what should have been counted
since a counter last began, `ended` the sessions whose logout found the token.

### Listing

Ids are drawn before their rows are committed. A client asks for the page after
its cursor; the answer is cached under the cursor for the TTL, and no write
invalidates it; Redis may fail or forget at any moment (vehicle-service, which
has no cache, is the case in which it always does). Times are ages, which stop
counting when nothing depends on them. `owed` are the rows a client must still
meet: those that were live, for at least as long as a page can be old, when it
began.

### Lifecycle

The main goroutine of each of the four services, and `cmd/migrate`, is a list of
steps as in the source; `MainStep` takes the next. Workers run on their own context,
requests between the start and the end of the server; a signal may come at any
moment, a drain may time out (`late`), a process may die anywhere. Replicas share
the schema and goose's advisory lock. `auto` is DB_AUTO_MIGRATE.

## 3. Runs

| Run | Instance | Shows |
|---|---|---|
| `booking` | 2 handlers, 2 appointments, 2 vehicles, 1 hub with 2 bays, 3 time units; 3 services, one withdrawn, selections of up to 3 | no bay and no vehicle is booked twice at any instant, the tables agree, what is offered can be booked and nothing else, Booking implements BayCalendar, every request is answered |
| `outbox` | 3 rows, 2 keys, 2 relays, batch 2, 1 fault | marked rows were sent, per-key order, the outbox implements KeyedLog, every committed row is published and marked |
| `consumer` | 2 members, a log of 3, 2 appointments (one unknown), 2 faults | nothing is acknowledged that was neither handled nor failed; every message is handled, and acknowledged, repetitions too |
| `payments` | 2 handlers, 1 bill, 2 payments, 1 fault, deliveries of cancelled fail or repeat, no retry | bills follow the money, captures announced once, final statuses true, Payments implements BillLedger |
| `payments_live` | 2 handlers, 2 bills, 1 payment, 1 fault, deliveries of completed fail or repeat, 1 retry | captures are recorded in the end, also after a bill was voided; completed services are priced or dead-lettered |
| `payments_twice` | 2 handlers, 2 bills, 2 payments | **violated**: a deposit not linked yet and the balance are both paid |
| `vehicle` | 2 requests at once, 4 in all, 2 customers, 2 days, 1 warranty date | owners follow each other, events tell what happened, a scrapped vehicle stays as it is, VehicleOwnership implements VehicleTitle, every request is answered |
| `customers` | 3 requests at once, 5 in all, one email | a profile's events are its history; every request is answered |
| `accounts` | 2 requests or starting replicas at once, 4 in all, 2 emails | a user's events are the history; staff come only from administrators; the bootstrapped administrator is the first; who acts was an active administrator meanwhile |
| `sessions` | 2 requests at once, 3 in all, 1 fault, 1 email and address, limits 1 and 2, 2 statuses | a login is one session, a logout is final, tokens go to active accounts, the throttle holds, every counter ends |
| `listing` | 2 clients, pages of 1 of up to 3 rows, TTL 1, 1 tick between List and Set | no walk misses, repeats or disorders a row, or shows one longer dead than a page can be old |
| `lifecycle` | 2 replicas of one of three services or of `cmd/migrate`, 2 starts, 2 migrations, 1 request each | nothing is used unless it is open, migrations are applied once and before they are needed, who is told to stop stops |

The violated run checks one property, a promise quoted from a comment;
`findings` in `PROJECT.json` gives the trace in words.

Bounds. Two handlers (relays, members, replicas) give every pairwise race; the
code has no operation that waits on two others at once. `customers` has three, for
two authors who wait for one row while a delivery is under way. Two appointments
are the least for a double booking; two bays let one handler choose while another
holds the other choice. Three time units allow disjoint, touching and overlapping
slots; a day-sheet limit of two is the number of appointments, so the sheet is
complete there, which the property asks before it relies on it. Three rows over
two keys allow a late commit between two published ones. Two payments are a
deposit and a balance; two bills a voided one and its successor. `MaxFaults`
bounds declines, provider errors, aborted handlers and crashes; each property
needs at most one for its worst case. `Failing` takes one topic per run, the one
whose retries matter to its properties: an AppointmentCancelled, which calls the
provider before its transaction, and a ServiceCompleted, which prices. The
code's six retries are one or none, since each leaves the state of the next to be
the first's; a restart may forget them, so more attempts than that occur. Failed
attempts are not counted as faults. The mutants listed in `PROJECT.json`
show that the instances reach the cases the properties are about. Four requests
are a vehicle's registration and three more, of which any two may overlap. One
email is enough for profiles, whose locks and indexes are per email; two are
needed in `accounts`, an administrator and another. A session needs a login and
two uses of its token. Three rows and pages of one are a walk with a row before,
behind and at the cursor; larger pages are a shorter walk. customer-service's list
of steps is vehicle-service's, so `lifecycle` takes three services of the four.
Deadlock checking is off everywhere: when every request is answered and every
bounded fault is spent the system rests.

Fairness. `booking`: weak fairness on each handler's steps, the Go scheduler and
Postgres waking waiters, and on its deadlock detector; `outbox`: the relay's ticker fires again and a bounded
number of faults ends; `consumer`: members poll, handlers return and
the auto-commit interval fires;
`payments_live`: handlers run to their end (weak), the provider redelivers a
succeeded webhook until it is acknowledged, and Kafka delivers ServiceCompleted
to an attempt that succeeds or fails, without saying which, until its retries are
used up (strong, since both need a thread that is free). `vehicle` and `customers`:
handlers run to their end, and the deadlock detector fires (weak); a statement
that waits for a lock is granted it in the end (strong: Postgres queues the
waiters of a lock). `sessions`: Redis ends the windows that have an end.
`lifecycle`: the main goroutine takes its next step, by success, error or timeout,
and a cancelled worker's batch ends (weak); requests need never end. Nothing is
assumed of customers, of staff, of reads or of syncs.

## 4. Proofs

| Theorem | States |
|---|---|
| `BookingProofs!Invariant`, `BaySafe`, `VehicleSafe`, `TablesAlwaysAgree`, `SettledForGood`, `ImplementsCalendar`, `OffersAreBookable` | `IInv` is inductive; no bay and no vehicle is double-booked; the tables agree; what has ended stays ended; the refinement of BayCalendar; what is offered is what Book would find |
| `OutboxRelayProofs!Invariant`, `NothingLost`, `ImplementsKeyedLog` | `IInv` is inductive; marked rows were sent; the refinement of KeyedLog |
| `ServiceProofs!Invariant`, `NothingSilentlyLost` | EventConsumer's `IInv` is inductive; offsets do not run ahead of the handler |
| `ServiceProofs!ListingInvariant`, `NoRowIsMissed`, `NoRowTwice` | `ListingIInv` is inductive; a walk misses, repeats and disorders no row, for any page size, TTL and number of clients |
| `ServiceProofs!ProcessInvariant`, `NothingUsedClosed`, `NoOlderSchema` | `ProcessIInv` is inductive; nothing is used unless it is open; migrations are applied once, in order and before they are needed, for any number of replicas and migrations |
| `PaymentsProofs!Invariant`, `StatusFollowsMoney`, `NothingAnnouncedTwice`, `FinalStatusIsTrue`, `ImplementsLedger` | `IInv` is inductive; the bill follows the money; captures are announced once; final statuses are true; the refinement of BillLedger |
| `VehicleOwnershipProofs!Invariant`, `OneOwnerAtATime`, `OwnerEventsAreTrue`, `ChangeEventsAreTrue`, `ScrappedForGood`, `ImplementsTitle` | `IInv` is inductive; one chain of owners; the events are true; scrapping is final; the refinement of VehicleTitle |
| `AccountsProofs!Invariant`, `EventsAreTrue`, `NoSelfMadeStaff`, `BootstrapOnce`, `OnlyAdministrators` | `IInv` is inductive; all four properties of `accounts` |
| `CustomersProofs!Invariant`, `EventsAreTrue` | `IInv` is inductive; a profile's events are its history |
| `SessionsProofs!Invariant`, `OneSessionAlways`, `EndedForGoodAlways`, `ActiveWhileItRanAlways`, `ThrottleHoldsAlways` | `IInv` is inductive; the four safety properties of `sessions` |

Each module's type invariant is the first conjunct of its inductive invariant. The complete list
is in `PROJECT.json`.

*Booking.* The properties are not inductive: that two live appointments of a
vehicle are disjoint rests on the advisory lock held from `BookLock` to the
commit, so `IInv` says of each handler, by its step, which lock it holds, what
its last query established, and which rows are its uncommitted ones. That bays
do not clash follows from the exclusion constraint, which each insert passes while
it sees committed rows and, among the uncommitted ones, none that clashes
(`BayClear`). The two properties are stated on the instants of the slots, from
the start up to and without the end, and not with the comparison that constraint
and queries make; `OverlapsAtAnInstant` says that slots which the comparison
keeps apart (`BaysApart`, `VehiclesApart`, in `IInv`) share no instant.

*Availability.* Most of `OfferIsBookable` follows from `IInv` in a state: a
reservation that clashes with a slot of the opening hours clashes with the opening
hours, so the Go loop and FreeBay count the same rows (`SameBays`); a row that
holds a bay exists, and a sheet whose limit is no less than its rows leaves none
out (`SheetIsWhole`), for which there have to be finitely many (`FiniteRows`, an
invariant of its own: a step adds at most one). That a slot lasts as long as its
services picked once compares two folds over a sequence with a sum over a set.
The library defines them by a recursion on subsets, which says something only if
a function satisfies it: `FoldExists` constructs one, cardinality by cardinality.
Then the sum does not depend on the order (`SumTakes`), what `resolveServices`
keeps lists each service once (`KeepLists`, `ResolvedLists`), and the total of a
list without duplicates is the sum over what it lists (`TotalOfList`). The
prover knows no induction; a least counterexample (`LeastOf`) takes its place.

*OutboxRelay.* The order of a key's rows rests on the row lock: `IInv` relates
the ids of one key to the order of their transactions, says that the rows before
a relay's position in its batch were sent, and that a marked row was.

*EventConsumer.* `IInv` bounds each member's position by what was handled or
failed before it, and the committed offset by the positions.

*Listing.* A page says what was true when it was read, so the invariant is about
pages with an age: `Sound(p, c, a)` says that p, read after cursor c at most a
ticks ago, has only rows past c that were live then, has every row that was live
before, up to its last one, and goes on after that one. Each page a client waits
for, or the cache holds, is sound for its age (a cached one for the time its fill
took besides), and what a client must still meet is past its cursor, live, and
older than any page can be. A page then stays sound while rows are inserted,
deleted and age; that the page a List returns is sound uses that the first rows
past a cursor have a last one (`MaxOf`) and that no other is before it
(`ListFacts`).

*Lifecycle.* The state of a process follows from the place its main goroutine has
reached in its program. `WellOrdered` is what safety needs of the order of a
program, and is proved of each of the five; `AtStep` says what is open, runs, is
cancelled and is late at step n, in terms of what the steps before n were; gone
processes have nothing (`Gone`). Each kind of step either moves one goroutine on
(`GoesOn`) or leaves it where it is (`Keeps`), and the invariant is carried by
one lemma for each. Migrations are in order because who migrates holds goose's
lock and is at the first one missing (`SchemaOK`); a rollback takes the same lock.

*Payments.* What a handler does later rests on what it read earlier, so `IInv`
says of each job that the rows it names still exist and that a final status it
has seen of an intent is still the intent's (`JobOK`); of each payment row that
it has a bill before it has an intent (`RowOK`); and of the bills that one is live
and none is announced before it is priced. `Grows` collects what every step
leaves alone for the other handlers: rows stay, bills stay, an intent that is
over stays. Each kind of step has a lemma (a read, an intent that moves, a row
that moves, a capture, a bill that moves) with the ledger's step as part of its
conclusion, so that the invariant and the refinement are one case split. Sums of
captured payments are opaque: the proofs use only that rows with the same
captures have the same sum, which is what settling under the bill's lock gives.

*VehicleOwnership.* The commits are the entries of the register; that each finds
the vehicle as its transaction left it is what `IInv` says of every request, by
its step: an assignment that has the vehicle knows it is not scrapped, one that
has inserted knows there is no owner, an update knows the version it read, a
transfer knows that its row is the last and the current one. These facts survive
the other requests' steps because of `LocksExclude`: no two hold locks that
exclude each other. A lemma per kind of step (one that changes no row, one that
adds an owner) carries the invariant; then each property is a few lines.

*Accounts.* A change is written under the row lock of its user, and the actor was
looked at before: `IInv` says of each handler past `RequireAdmin` that its actor
had an active administrator's event since it arrived, which stays true as events
are only appended. That a bootstrapped administrator is the first rests on the
unique email: a replica that found no administrator may be overtaken, but only by
one with its own email, and then its insert conflicts.

*Customers.* `IInv` says who may have the row: at most one handler has written it
and not committed (`OneWriter`), and the row is still the one its WHERE clause
asked for (`Wanted`). `IsHistory` is a fact about a sequence and a row, so that each commit only
has to append one event that fits its row.

*Sessions.* The tokens: every one in the store is the newest of its session, and
while a request carries it to the next there is none (`OneSession` is nearly
inductive; `RequestOK` adds what each request is). The throttle needs an
accounting argument (`Balanced`): an attempt is in the counter, in a request that
owes it, or in a failed call; whoever passes the limit found the counter below
it; so the attempts and those that have passed the limit are together at most
the limit less one, plus the handlers, plus the failed calls. One request moves at
a time, and `Books` says how the cardinalities of `Passed` and `Owing` follow it.

The constants are assumed to be what the code gives them: finite sets where a
CHOOSE or a minimum needs it, hubs with opening hours, positive durations, batch
sizes, days and numbers of faults that are natural numbers, null values that are
no values. No theorem assumes a bound of an instance.

Only model-checked: liveness under fairness (`EveryRequestAnswered`,
`EveryRowPublished`, `EveryMessageHandled`, `EveryMessageAcked`, `CaptureIsRecorded`,
`ServiceIsBilled`, `CountersRunOut`, `ShutsDown`), which is beyond the prover, and
the violated promise, which no theorem can state.

## 5. Differences, and what is not modelled

What the models contain, the code does, and a comment or document says otherwise.
Only the first is a run; the others follow from it or from reading the actions.

- `Payments.java:177-179`: open intents are canceled "so the customer can't pay
  twice". A deposit whose intent is not linked yet is missed (`payments_twice`).
- `Bookings.java:98-102` and `Payments.java:155`: a settled booking can become
  BOOKED again; `Payments.java:323-335`: a webhook can apply an older snapshot of an
  intent after a newer one. Neither makes a final status false (`FinalIsTrue`).
- `service-completed-handler.go:15-17` skips only "a message that can never succeed"
  and returns "any other error"; the consumers (`vehicle-consumer.go:65`,
  `customer-consumer.go:61`) log that and go on, and the next mark commits past
  the message.
- `vehicle-service.go:129` refuses the first owner of a scrapped vehicle, and the
  frontend (`VehicleDetail.tsx:92`) offers no transfer of one; TransferVehicle
  (`:385-393`) does not look.
- `Bookings.java:163-164`: if the warranty can't be looked up, "this throws and the
  consumer retries"; it retries six times (`KafkaConfig.java:33-38`, as
  `architecture-design.md:266` says) and puts the record into the dead-letter
  topic, which nothing in the repository reads. The service then stays unpriced,
  as after a conflict of currencies (`Bookings.java:195-200`), and a booking or a
  cancellation that ends there is never recorded.
- `consumer-handler.go:88-89` (customer-service): "Retrying won't change that" is
  false when staff's CreateCustomer commits between LinkUserByEmail and the
  insert; a retry would claim the profile.
- `customer-service.go:27`: the TTL "bounds how stale a cached listing page can
  be"; the bound is the TTL and the time between List and Set (`MaxFill`).
- `customer-service.go:44`: DeleteProfile's vehicles are not set inactive.
- `appointment-repository.go:257`: a hub "can't fit more bookings" than hubDayLimit
  into its hours; cancelled ones count too, and the LIMIT drops the earliest.
- `application.go`, shutdownTimeout: requests are not closed by force when the
  drain times out, and the workers' context is cancelled and the clients are
  closed under them (`late`).
- Two administrators can lock each other at once, and none is left: the rule
  (identity's README.md:50, `services.go:28-30`) is about one's own status only.
- An assignment that loses a deadlock is answered 500, and a transfer that waited
  for a row another transfer ended is answered 404 though the vehicle has an
  owner; the loser of a bay is answered 409 though another bay is free.

Partly modelled:

- billing: no code writes refunds yet, and the failure codes with their
  PaymentFailed event, currencies and a bill's lines are left out;
- vehicle: the materials lists and the reads of one vehicle have no rule that
  relates them to anything else.

Not modelled:

- billing's relay: as `OutboxRelay`, under an advisory lock; that a producer that
  retries after the relay stopped waiting can overtake the next pass depends on
  the Kafka client's settings, not on this code;
- pricing, the deposit policy and money: arithmetic on one bill, whose results
  are constants of `Payments`; the warranty lookup is a read;
- HTTP decoding, clients, wiring, logging, metrics and configuration: no state;
- the frontend, the deployment files and the load tests; the cleanup of published
  rows; Redis and Postgres beyond what the code relies on (locks, constraints,
  read-committed visibility, expiry);
- a composition of the scheduler's commit, its outbox and the consumers: each
  meets the next only in the log that `KeyedLog` promises and `EventConsumer`
  starts from, and their product is beyond TLC without telling more.
