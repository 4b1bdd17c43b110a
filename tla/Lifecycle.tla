----------------------------- MODULE Lifecycle -----------------------------
(***************************************************************************)
(* How the replicas of a Go service start, migrate the database, serve and *)
(* shut down.                                                              *)
(*                                                                         *)
(* The main goroutine is a list of steps; the outbox relay and the Kafka   *)
(* consumer are workers on a context of their own; requests run between    *)
(* the start and the end of the HTTP server.  Replicas share the schema of *)
(* their database and the advisory lock under which goose migrates it.     *)
(***************************************************************************)
EXTENDS Integers, Sequences, FiniteSets

CONSTANTS
  Replica,      \* processes: replicas of a service, and runs of cmd/migrate
  Service,      \* which of the programs below
  Last,         \* the newest migration
  MaxRequests,  \* bound: requests in flight per replica
  MaxStarts,    \* bound: starts of all replicas together
  NoReplica     \* null value

Do(what) == <<what>>
Open(what) == <<"open", what>>
Go(worker) == <<"go", worker>>
Close(what) == <<"close", what>>

\* The four applications, from the database on; a service that consumes
\* events has a consumer to open and a second worker.
Identity ==
  << Open("database"), Do("migrate"), Open("producer"), Open("cache"), Do("bootstrap"),
     Go("relay"), Do("serve"), Do("drain"), Do("stop"), Do("wait"),
     Close("producer"), Close("cache"), Close("database"), Do("return") >>
Vehicle ==
  << Open("database"), Do("migrate"), Open("producer"), Open("cache"),
     Go("relay"), Open("consumer"), Go("consumer"), Do("serve"), Do("drain"), Do("stop"),
     Do("wait"), Close("consumer"), Close("producer"), Close("cache"), Close("database"),
     Do("return") >>
Customer == Vehicle
Scheduler ==
  << Open("database"), Do("migrate"), Open("producer"),
     Go("relay"), Do("serve"), Do("drain"), Do("stop"), Do("wait"),
     Close("producer"), Close("database"), Do("return") >>

\* cmd/migrate up.
Job == << Open("database"), Do("migrate"), Close("database"), Do("return") >>

Program == [identity |-> Identity, vehicle |-> Vehicle, customer |-> Customer,
            scheduler |-> Scheduler]
Resource == {"database", "producer", "cache", "consumer"}
Worker == {"relay", "consumer"}

ASSUME LifecycleAssumption ==
  /\ Service \subseteq DOMAIN Program
  /\ Last \in Nat \ {0} /\ MaxRequests \in Nat /\ MaxStarts \in Nat
  /\ NoReplica \notin Replica

VARIABLES
  service, auto,      \* the service, and its DB_AUTO_MIGRATE
  starts,             \* starts so far
  todo,               \* what each main goroutine has still to do
  open,               \* the connections it has
  working,            \* its workers that have not returned
  requests,           \* its requests in flight
  signalled,          \* SIGTERM has come
  cancelled,          \* workerCtx is cancelled
  late,               \* the drain has timed out
  schema,             \* the migrations applied, in order
  locker, next,       \* who holds goose's lock, and its next migration
  rolledBack          \* somebody has run cmd/migrate down

process == <<starts, todo, open, working, requests, signalled, cancelled, late>>
database == <<schema, locker, next, rolledBack>>
processVars == <<service, auto, process, database>>

Running(r) == todo[r] # <<>>
At(r, step) == Running(r) /\ Head(todo[r]) = step
AtOne(r, kind) == Running(r) /\ Head(todo[r])[1] = kind

ProcessInit ==
  /\ service \in Service
  /\ auto \in BOOLEAN
  /\ starts = 0
  /\ todo = [r \in Replica |-> <<>>]
  /\ open = [r \in Replica |-> {}]
  /\ working = [r \in Replica |-> {}]
  /\ requests = [r \in Replica |-> 0]
  /\ signalled = {} /\ cancelled = {} /\ late = {}
  /\ schema \in {SubSeq([n \in 1 .. Last |-> n], 1, k) : k \in 0 .. Last}
  /\ locker = NoReplica
  /\ next = [r \in Replica |-> 0]
  /\ rolledBack = FALSE

Start(r) ==
  /\ ~Running(r)
  /\ starts < MaxStarts
  /\ starts' = starts + 1
  /\ \E p \in {Program[service], Job} : todo' = [todo EXCEPT ![r] = p]
  /\ UNCHANGED <<service, auto, open, working, requests, signalled, cancelled, late, database>>

\* The process is gone, with its requests, workers, connections and locks.
Exit(r) ==
  /\ todo' = [todo EXCEPT ![r] = <<>>]
  /\ open' = [open EXCEPT ![r] = {}]
  /\ working' = [working EXCEPT ![r] = {}]
  /\ requests' = [requests EXCEPT ![r] = 0]
  /\ signalled' = signalled \ {r} /\ cancelled' = cancelled \ {r} /\ late' = late \ {r}
  /\ locker' = IF locker = r THEN NoReplica ELSE locker
  /\ next' = [next EXCEPT ![r] = 0]
  /\ UNCHANGED <<service, auto, starts, schema, rolledBack>>

\* SIGTERM.  During the start it is only seen by what uses ctx.  cmd/migrate
\* does not catch it (Die), and a service's last steps do not look for it.
Signal(r) ==
  /\ Len(todo[r]) > Len(Job)
  /\ signalled' = signalled \cup {r}
  /\ UNCHANGED <<service, auto, starts, todo, open, working, requests, cancelled, late, database>>

Proceed(r) == todo' = [todo EXCEPT ![r] = Tail(@)]

-----------------------------------------------------------------------------
(* The start                                                               *)

\* A client connects; one that cannot is fatal (Die).
Connect(r, what) ==
  /\ At(r, Open(what))
  /\ open' = [open EXCEPT ![r] = @ \cup {what}]
  /\ Proceed(r)
  /\ UNCHANGED <<service, auto, starts, working, requests, signalled, cancelled, late, database>>

OpenDatabase(r) == Connect(r, "database")
OpenProducer(r) == Connect(r, "producer")
OpenCache(r) == Connect(r, "cache")
OpenConsumer(r) == Connect(r, "consumer")

\* bootstrapAdmin, whose failure is only logged (its effect: Accounts).
Bootstrap(r) ==
  /\ At(r, Do("bootstrap"))
  /\ Proceed(r)
  /\ UNCHANGED <<service, auto, starts, open, working, requests, signalled, cancelled, late, database>>

GoWorker(r) ==
  /\ AtOne(r, "go")
  /\ working' = [working EXCEPT ![r] = @ \cup {Head(todo[r])[2]}]
  /\ Proceed(r)
  /\ UNCHANGED <<service, auto, starts, open, requests, signalled, cancelled, late, database>>

\* DB_AUTO_MIGRATE=false; cmd/migrate does not look at it.
MigrateSkip(r) ==
  /\ At(r, Do("migrate"))
  /\ ~auto /\ Len(todo[r]) > 3
  /\ Proceed(r)
  /\ UNCHANGED <<service, auto, starts, open, working, requests, signalled, cancelled, late, database>>

Migrating(r) == At(r, Do("migrate")) /\ (auto \/ Len(todo[r]) = 3)

\* Mutant: no session lock.
MigrateLockless(r) ==
  /\ Migrating(r) /\ next[r] = 0
  /\ next' = [next EXCEPT ![r] = Len(schema) + 1]
  /\ UNCHANGED <<service, auto, process, schema, locker, rolledBack>>

\* The session lock; then goose reads which migrations are pending.
MigrateLock(r) ==
  /\ Migrating(r) /\ next[r] = 0
  /\ locker = NoReplica
  /\ locker' = r
  /\ next' = [next EXCEPT ![r] = Len(schema) + 1]
  /\ UNCHANGED <<service, auto, process, schema, rolledBack>>

\* One migration and its version row, in a transaction.
MigrateApply(r) ==
  /\ Migrating(r) /\ next[r] \in 1 .. Last
  /\ schema' = Append(schema, next[r])
  /\ next' = [next EXCEPT ![r] = @ + 1]
  /\ UNCHANGED <<service, auto, process, locker, rolledBack>>

MigrateDone(r) ==
  /\ Migrating(r) /\ next[r] > Last
  /\ next' = [next EXCEPT ![r] = 0]
  /\ locker' = IF locker = r THEN NoReplica ELSE locker
  /\ Proceed(r)
  /\ UNCHANGED <<service, auto, starts, open, working, requests, signalled, cancelled, late,
                 schema, rolledBack>>

\* The signal has cancelled ctx: Up fails, which is fatal.
MigrateCancelled(r) == Migrating(r) /\ r \in signalled /\ Exit(r)

\* cmd/migrate down, under the same lock.
RollBack ==
  /\ locker = NoReplica /\ schema # <<>>
  /\ schema' = SubSeq(schema, 1, Len(schema) - 1)
  /\ rolledBack' = TRUE
  /\ UNCHANGED <<service, auto, process, locker, next>>

-----------------------------------------------------------------------------
(* Serving                                                                 *)

\* The server accepts a request, a probe included.
Request(r) ==
  /\ At(r, Do("serve"))
  /\ requests[r] < MaxRequests
  /\ requests' = [requests EXCEPT ![r] = @ + 1]
  /\ UNCHANGED <<service, auto, starts, todo, open, working, signalled, cancelled, late, database>>

Respond(r) ==
  /\ requests[r] > 0
  /\ requests' = [requests EXCEPT ![r] = @ - 1]
  /\ UNCHANGED <<service, auto, starts, todo, open, working, signalled, cancelled, late, database>>

WorkerReturns(r, w) ==
  /\ r \in cancelled /\ w \in working[r]
  /\ working' = [working EXCEPT ![r] = @ \ {w}]
  /\ UNCHANGED <<service, auto, starts, todo, open, requests, signalled, cancelled, late, database>>

\* The relay has finished its batch, or was waiting for the next one.
RelayReturns(r) == WorkerReturns(r, "relay")

\* The consumer has finished its message: Consume returns.
ConsumerReturns(r) == WorkerReturns(r, "consumer")

-----------------------------------------------------------------------------
(* The shutdown                                                            *)

\* The select: the signal, or the listener fails.
LeaveServing(r) ==
  /\ At(r, Do("serve"))
  /\ Proceed(r)
  /\ UNCHANGED <<service, auto, starts, open, working, requests, signalled, cancelled, late, database>>
Stopping(r) == r \in signalled /\ LeaveServing(r)
ListenerFails(r) == r \notin signalled /\ LeaveServing(r)

\* httpServer.Shutdown: the requests have finished, or shutdownTimeout has
\* passed and they run on.
Drain(r) ==
  /\ At(r, Do("drain"))
  /\ late' = IF requests[r] > 0 THEN late \cup {r} ELSE late
  /\ Proceed(r)
  /\ UNCHANGED <<service, auto, starts, open, working, requests, signalled, cancelled, database>>

\* Mutant: the workers are not told to stop.
StopNobody(r) ==
  /\ At(r, Do("stop"))
  /\ Proceed(r)
  /\ UNCHANGED <<service, auto, starts, open, working, requests, signalled, cancelled, late, database>>

StopWorkers(r) ==
  /\ At(r, Do("stop"))
  /\ cancelled' = cancelled \cup {r}
  /\ Proceed(r)
  /\ UNCHANGED <<service, auto, starts, open, working, requests, signalled, late, database>>

\* Mutant: the workers are told to stop, but nobody waits for them.
WaitForNobody(r) ==
  /\ At(r, Do("wait"))
  /\ Proceed(r)
  /\ UNCHANGED <<service, auto, starts, open, working, requests, signalled, cancelled, late, database>>

\* workers.Wait.
Wait(r) ==
  /\ At(r, Do("wait"))
  /\ working[r] = {}
  /\ Proceed(r)
  /\ UNCHANGED <<service, auto, starts, open, working, requests, signalled, cancelled, late, database>>

CloseOne(r) ==
  /\ AtOne(r, "close")
  /\ open' = [open EXCEPT ![r] = @ \ {Head(todo[r])[2]}]
  /\ Proceed(r)
  /\ UNCHANGED <<service, auto, starts, working, requests, signalled, cancelled, late, database>>

Return(r) == At(r, Do("return")) /\ Exit(r)

\* logger.Fatal in the start, or the process is killed.
Die(r) == Running(r) /\ Exit(r)

\* What the main goroutine does next by itself.
MainStep(r) ==
  \/ OpenDatabase(r) \/ OpenProducer(r) \/ OpenCache(r) \/ OpenConsumer(r)
  \/ Bootstrap(r) \/ GoWorker(r)
  \/ MigrateSkip(r) \/ MigrateLock(r) \/ MigrateApply(r) \/ MigrateDone(r) \/ MigrateCancelled(r)
  \/ Stopping(r) \/ Drain(r) \/ StopWorkers(r) \/ Wait(r) \/ CloseOne(r) \/ Return(r)

ProcessNext ==
  \/ RollBack
  \/ \E r \in Replica :
       \/ Start(r) \/ Signal(r) \/ MainStep(r) \/ Die(r)
       \/ Request(r) \/ Respond(r) \/ ListenerFails(r)
       \/ RelayReturns(r) \/ ConsumerReturns(r)

ProcessSpec == ProcessInit /\ [][ProcessNext]_processVars

\* A step succeeds or fails in the end, and so does a worker's batch; no
\* request ever has to.
FairProcessSpec ==
  /\ ProcessSpec
  /\ \A r \in Replica :
       /\ WF_processVars(MainStep(r))
       /\ WF_processVars(RelayReturns(r)) /\ WF_processVars(ConsumerReturns(r))

-----------------------------------------------------------------------------
(* Properties                                                              *)

ProcessTypeOK ==
  /\ service \in Service /\ auto \in BOOLEAN /\ starts \in 0 .. MaxStarts
  /\ DOMAIN todo = Replica
  /\ \A r \in Replica : \E p \in {Program[service], Job} : \E n \in 1 .. Len(p) + 1 :
       todo[r] = SubSeq(p, n, Len(p))
  /\ open \in [Replica -> SUBSET Resource]
  /\ working \in [Replica -> SUBSET Worker]
  /\ requests \in [Replica -> 0 .. MaxRequests]
  /\ signalled \subseteq Replica /\ cancelled \subseteq Replica /\ late \subseteq Replica
  /\ schema \in Seq(1 .. Last)
  /\ locker \in Replica \cup {NoReplica}
  /\ next \in [Replica -> 0 .. Last + 1]
  /\ rolledBack \in BOOLEAN

\* What a request or a worker uses: a probe asks every client of the service.
Opened(p) == {p[n][2] : n \in {m \in DOMAIN p : p[m][1] = "open"}}
Uses(w) == CASE w = "relay" -> {"database", "producer"}
             [] w = "consumer" -> {"database", "consumer"}
             [] OTHER -> Opened(Program[service]) \ {"consumer"}

\* Nothing is used before it is opened or after it is closed: the workers
\* have ended before their clients are closed, and a request in flight has all
\* of them, and the relay that delivers its outbox rows, unless the shutdown
\* has stopped waiting for it.
UsesWhatIsOpen ==
  \A r \in Replica :
    /\ \A w \in working[r] : Uses(w) \subseteq open[r]
    /\ requests[r] > 0 /\ r \notin late =>
         Uses("request") \subseteq open[r] /\ "relay" \in working[r] /\ r \notin cancelled

\* However many replicas start, die and start again, each migration is applied
\* once and in order; a request or a worker of a replica that migrates never
\* sees an older schema, unless somebody rolled it back.
SchemaIsReady ==
  /\ \A n \in DOMAIN schema : schema[n] = n
  /\ \A r \in Replica :
       auto /\ ~rolledBack /\ (requests[r] > 0 \/ working[r] # {})
         => Len(schema) = Last

\* A replica that is told to stop does, whether it is still starting, whatever
\* the others do, and however long its requests take.
ShutsDown == \A r \in Replica : r \in signalled ~> ~Running(r)
=============================================================================
