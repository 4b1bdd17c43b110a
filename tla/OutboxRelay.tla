---------------------------- MODULE OutboxRelay ----------------------------
(***************************************************************************)
(* The transactional outbox of the four Go services: transactions that     *)
(* insert into outbox_message, and the OutboxRelay each replica runs to    *)
(* publish the committed rows to Kafka.  The services hold identical       *)
(* copies of this code (internal/adapters/kafka/outbox-relay.go and        *)
(* internal/adapters/repository/outbox-repository.go).                     *)
(*                                                                         *)
(* One topic is modelled; a key always lands in the same partition, so     *)
(* only the order of one key's records means anything.                     *)
(***************************************************************************)
EXTENDS Integers, Sequences, FiniteSets

CONSTANTS
  Id,         \* outbox_message ids, handed out in increasing order
  Key,        \* message keys: users, customers, appointments
  NoKey,      \* null
  Relay,      \* replicas, each running one relay
  Batch,      \* outboxRelayBatchSize
  MaxFaults   \* bound: lost acks, failed publishes and updates, crashes

ASSUME OutboxAssumption ==
  /\ Id \subseteq Nat
  /\ NoKey \notin Key
  /\ Batch \in Nat \ {0}
  /\ MaxFaults \in Nat

VARIABLES
  key,         \* message_key of the row with each id, NoKey if none
  state,       \* the row's transaction
  published,   \* ids whose published_at is set
  log,         \* the topic: ids in the order the broker appended them
  pc,          \* each relay's control state
  todo,        \* the rest of the relay's batch
  done,        \* published in relayOnce: ids acked but not marked yet
  faults

table == <<key, state>>
relays == <<pc, todo, done>>
vars == <<key, state, published, log, pc, todo, done, faults>>

TxState == {"free", "open", "committed", "aborted"}

Sent == {log[n] : n \in DOMAIN log}

Init ==
  /\ key = [i \in Id |-> NoKey]
  /\ state = [i \in Id |-> "free"]
  /\ published = {}
  /\ log = <<>>
  /\ pc = [r \in Relay |-> "idle"]
  /\ todo = [r \in Relay |-> {}]
  /\ done = [r \in Relay |-> {}]
  /\ faults = 0

-----------------------------------------------------------------------------
(* The writers                                                             *)

\* OutboxRepository.Create in a transaction that has already written, and so
\* locked, the user, customer or appointment the event is keyed by: no other
\* transaction can be between its insert and its end for the same key.
Insert(i, k) ==
  /\ state[i] = "free"
  /\ \A j \in Id : /\ j < i => state[j] # "free"
                   /\ j > i => state[j] = "free"
                   /\ state[j] = "open" => key[j] # k
  /\ key' = [key EXCEPT ![i] = k]
  /\ state' = [state EXCEPT ![i] = "open"]
  /\ UNCHANGED <<published, log, relays, faults>>

\* Identity values are not in commit order: a row with a smaller id can
\* appear after one with a larger id was published.
Commit(i) ==
  /\ state[i] = "open"
  /\ state' = [state EXCEPT ![i] = "committed"]
  /\ UNCHANGED <<key, published, log, relays, faults>>

Rollback(i) ==
  /\ state[i] = "open"
  /\ state' = [state EXCEPT ![i] = "aborted"]
  /\ UNCHANGED <<key, published, log, relays, faults>>

-----------------------------------------------------------------------------
(* The relay                                                               *)

\* Mutant: a cursor (WHERE id > the last published) for published_at IS NULL.
PendingAfterLast == {i \in Id : state[i] = "committed" /\ \A j \in published : j < i}

\* WHERE published_at IS NULL, in a READ COMMITTED statement.
Pending == {i \in Id : state[i] = "committed" /\ i \notin published}

\* FetchUnpublished: the first Batch rows by id.
Fetch(r) ==
  /\ pc[r] = "idle"
  /\ Pending # {}
  /\ \E B \in SUBSET Pending :
       /\ B = Pending \/ Cardinality(B) = Batch
       /\ Cardinality(B) <= Batch
       /\ \A i \in B, j \in Pending \ B : i < j
       /\ todo' = [todo EXCEPT ![r] = B]
  /\ done' = [done EXCEPT ![r] = {}]
  /\ pc' = [pc EXCEPT ![r] = "sending"]
  /\ UNCHANGED <<table, published, log, faults>>

First(S, i) == i \in S /\ \A j \in S : i <= j

\* Publish, acked by the broker; then the next message, or MarkPublished.
Send(r) ==
  /\ pc[r] = "sending"
  /\ \E i \in Id :
       /\ First(todo[r], i)
       /\ log' = Append(log, i)
       /\ todo' = [todo EXCEPT ![r] = @ \ {i}]
       /\ done' = [done EXCEPT ![r] = @ \cup {i}]
       /\ pc' = [pc EXCEPT ![r] = IF todo[r] = {i} THEN "marking" ELSE "sending"]
  /\ UNCHANGED <<table, published, faults>>

Fault == faults < MaxFaults /\ faults' = faults + 1

\* The broker appended the record but the ack was lost: the producer's own
\* retry (Send) or its last attempt's error (GiveUp) follows.
SendUnacked(r) ==
  /\ pc[r] = "sending"
  /\ \E i \in Id : First(todo[r], i) /\ log' = Append(log, i)
  /\ Fault
  /\ UNCHANGED <<table, published, relays>>

\* Mutant: continue instead of break after a failed publish.
GiveUpSkips(r) ==
  /\ pc[r] = "sending"
  /\ \E i \in Id :
       /\ First(todo[r], i)
       /\ todo' = [todo EXCEPT ![r] = @ \ {i}]
       /\ pc' = [pc EXCEPT ![r] = IF todo[r] = {i} THEN "marking" ELSE "sending"]
  /\ Fault
  /\ UNCHANGED <<table, published, log, done>>

\* Publish returned an error: break, and mark what was sent so far.
GiveUp(r) ==
  /\ pc[r] = "sending"
  /\ pc' = [pc EXCEPT ![r] = "marking"]
  /\ Fault
  /\ UNCHANGED <<table, published, log, todo, done>>

\* The end of a pass.
Idle(r) ==
  /\ pc' = [pc EXCEPT ![r] = "idle"]
  /\ todo' = [todo EXCEPT ![r] = {}]
  /\ done' = [done EXCEPT ![r] = {}]

\* Mutant: the whole batch is marked, not only what was acked.
MarkBatch(r) ==
  /\ pc[r] = "marking"
  /\ published' = published \cup done[r] \cup todo[r]
  /\ Idle(r)
  /\ UNCHANGED <<table, log, faults>>

\* MarkPublished.
Mark(r) ==
  /\ pc[r] = "marking"
  /\ published' = published \cup done[r]
  /\ Idle(r)
  /\ UNCHANGED <<table, log, faults>>

\* MarkPublished failed, or the process died anywhere in a pass: what was
\* sent stays sent and nothing is marked.
Crash(r) ==
  /\ pc[r] # "idle"
  /\ Idle(r)
  /\ Fault
  /\ UNCHANGED <<table, published, log>>

-----------------------------------------------------------------------------

Next ==
  \/ \E i \in Id : Commit(i) \/ Rollback(i) \/ \E k \in Key : Insert(i, k)
  \/ \E r \in Relay :
       Fetch(r) \/ Send(r) \/ SendUnacked(r) \/ GiveUp(r) \/ Mark(r) \/ Crash(r)

Spec == Init /\ [][Next]_vars

\* The ticker keeps every relay going; faults end, or nothing can be promised.
FairSpec == Spec /\ \A r \in Relay : WF_vars(Fetch(r) \/ Send(r) \/ Mark(r))

-----------------------------------------------------------------------------
(* Properties                                                              *)

\* Only a relay in a pass has a batch, and one that is sending has something
\* left to send.
TypeOK ==
  /\ key \in [Id -> Key \cup {NoKey}]
  /\ state \in [Id -> TxState]
  /\ published \in SUBSET Id
  /\ log \in Seq(Id)
  /\ pc \in [Relay -> {"idle", "sending", "marking"}]
  /\ todo \in [Relay -> SUBSET Id]
  /\ done \in [Relay -> SUBSET Id]
  /\ faults \in 0 .. MaxFaults
  /\ \A i \in Id : state[i] = "free" <=> key[i] = NoKey
  /\ \A r \in Relay : /\ pc[r] = "idle" => todo[r] = {} /\ done[r] = {}
                      /\ pc[r] = "sending" => todo[r] # {}

\* A row leaves the relay's view only once the broker has it: whatever fails
\* between publishing and marking, no event is lost.
MarkedWasSent == published \subseteq Sent

\* The consumers see a committed-only, per-key ordered, at-least-once log,
\* with any number of replicas relaying the same table at once and failing
\* anywhere.
written == [i \in Id |-> IF state[i] = "committed" THEN key[i] ELSE NoKey]
Log == INSTANCE KeyedLog WITH written <- written, seen <- log
IsAKeyedLog == Log!Spec

\* Every committed row is published and marked in the end, also one whose id
\* is smaller than ids published before it committed.
EveryRowPublished == \A i \in Id : state[i] = "committed" ~> i \in published
-----------------------------------------------------------------------------
(* The inductive invariant behind MarkedWasSent and IsAKeyedLog.           *)

\* Rows of one key are inserted, and end, in the order of their ids.
KeysInOrder ==
  \A i, j \in Id :
    (i < j /\ key[i] = key[j] /\ key[i] # NoKey) => state[i] \in {"committed", "aborted"}

\* What relays hold or have sent is committed; what they acked is sent.
OnlyCommitted ==
  /\ \A i \in Sent : state[i] = "committed"
  /\ \A r \in Relay : /\ done[r] \subseteq Sent
                      /\ \A i \in todo[r] : state[i] = "committed"

\* No relay holds, and the topic does not have, a row without the earlier
\* rows of its key.
Before(i) == {j \in Id : j < i /\ state[j] = "committed" /\ key[j] = key[i]}
NothingSkipped ==
  /\ \A i \in Sent : Before(i) \subseteq Sent
  /\ \A r \in Relay : \A i \in todo[r] : Before(i) \subseteq todo[r] \cup Sent

IInv == TypeOK /\ KeysInOrder /\ OnlyCommitted /\ MarkedWasSent /\ NothingSkipped
=============================================================================
