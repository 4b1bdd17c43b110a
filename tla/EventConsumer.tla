--------------------------- MODULE EventConsumer ---------------------------
(***************************************************************************)
(* A Go service's Kafka consumer group on one partition: vehicle-service   *)
(* copying ServiceCompleted events into the service history.  The group    *)
(* library (sarama) and the broker's group coordinator are modelled from   *)
(* how the consumer uses them: a claim starts at the committed offset, the *)
(* handler runs one message at a time, and a background committer sends    *)
(* the highest offset marked so far.                                       *)
(***************************************************************************)
EXTENDS Integers, Sequences

CONSTANTS
  Appointment,  \* appointments ServiceCompleted events are about
  Known,        \* those whose vehicle this service knows
  Member,       \* replicas in the consumer group
  NoMember,     \* null
  MaxLog,       \* bound: messages in the partition
  MaxFaults     \* bound: handler errors, lost claims and crashes

ASSUME ConsumerAssumption ==
  /\ Known \subseteq Appointment
  /\ NoMember \notin Member
  /\ MaxLog \in Nat
  /\ MaxFaults \in Nat

VARIABLES
  log,        \* the partition: appointments, repeated when a relay repeats
  history,    \* vehicle_service_history's committed rows, by appointment_id,
              \* which is UNIQUE
  committed,  \* the group's offset: messages up to it are not read again
  owner,      \* the member the coordinator assigned the partition to
  pc,         \* a member's claim: none, waiting, handling, inserted, handled
  pos,        \* the message its loop is at
  marked,     \* the highest offset its session marked
  failed,     \* messages whose handler met a fault: a database error
  faults

claims == <<pc, pos, marked>>
vars == <<log, history, committed, owner, claims, failed, faults>>

Init ==
  /\ log = <<>>
  /\ history = {}
  /\ committed = 0
  /\ owner = NoMember
  /\ pc = [m \in Member |-> "none"]
  /\ pos = [m \in Member |-> 0]
  /\ marked = [m \in Member |-> 0]
  /\ failed = {}
  /\ faults = 0

Fault == faults < MaxFaults /\ faults' = faults + 1

\* scheduler-service's relay appends; the same event may come again.
Produce(a) ==
  /\ Len(log) < MaxLog
  /\ log' = Append(log, a)
  /\ UNCHANGED <<history, committed, owner, claims, failed, faults>>

-----------------------------------------------------------------------------
(* Group membership                                                        *)

\* Mutant: Offsets.Initial = OffsetNewest.
AssignNewest(m) ==
  /\ owner = NoMember
  /\ pc[m] = "none"
  /\ owner' = m
  /\ pc' = [pc EXCEPT ![m] = "waiting"]
  /\ pos' = [pos EXCEPT ![m] = (IF committed = 0 THEN Len(log) ELSE committed) + 1]
  /\ marked' = [marked EXCEPT ![m] = committed]
  /\ UNCHANGED <<log, history, committed, failed, faults>>

\* A new session claims the partition, from the committed offset or, with
\* none committed, from the oldest message.
Assign(m) ==
  /\ owner = NoMember
  /\ pc[m] = "none"
  /\ owner' = m
  /\ pc' = [pc EXCEPT ![m] = "waiting"]
  /\ pos' = [pos EXCEPT ![m] = committed + 1]
  /\ marked' = [marked EXCEPT ![m] = committed]
  /\ UNCHANGED <<log, history, committed, failed, faults>>

\* The coordinator gives up on a member that still runs: its handler goes on
\* but its commits are refused from now on.
Expel(m) ==
  /\ owner = m
  /\ owner' = NoMember
  /\ Fault
  /\ UNCHANGED <<log, history, committed, claims, failed>>

\* The session's context is cancelled: the loop ends, and a row that is not
\* committed is rolled back.
Leave(m) ==
  /\ owner # m
  /\ pc[m] # "none"
  /\ pc' = [pc EXCEPT ![m] = "none"]
  /\ UNCHANGED <<log, history, committed, owner, pos, marked, failed, faults>>

\* The process dies anywhere; what it had not committed is rolled back.
Crash(m) ==
  /\ owner = m
  /\ owner' = NoMember
  /\ pc' = [pc EXCEPT ![m] = "none"]
  /\ Fault
  /\ UNCHANGED <<log, history, committed, pos, marked, failed>>

-----------------------------------------------------------------------------
(* ConsumeClaim                                                            *)

\* Mutant: the message is marked before it is handled.
DeliverMarks(m) ==
  /\ pc[m] = "waiting"
  /\ pos[m] <= Len(log)
  /\ pc' = [pc EXCEPT ![m] = "handling"]
  /\ marked' = [marked EXCEPT ![m] = pos[m]]
  /\ UNCHANGED <<log, history, committed, owner, pos, failed, faults>>

Deliver(m) ==
  /\ pc[m] = "waiting"
  /\ pos[m] <= Len(log)
  /\ pc' = [pc EXCEPT ![m] = "handling"]
  /\ UNCHANGED <<log, history, committed, owner, pos, marked, failed, faults>>

\* The appointment of the message a member is at.
Subject(m) == log[pos[m]]

\* Another member's INSERT for the same appointment that is not committed yet:
\* the unique index makes this one wait for it.
Contended(m) == \E o \in Member \ {m} : pc[o] = "inserted" /\ Subject(o) = Subject(m)

\* Mutant: an INSERT without ON CONFLICT, for which a row that is there is an
\* error: the message is left unmarked.
RecordPlain(m) ==
  /\ pc[m] = "handling"
  /\ ~Contended(m)
  /\ IF Subject(m) \in history
     THEN /\ pc' = [pc EXCEPT ![m] = "waiting"]
          /\ pos' = [pos EXCEPT ![m] = @ + 1]
     ELSE /\ pc' = [pc EXCEPT ![m] = IF Subject(m) \in Known THEN "inserted" ELSE "handled"]
          /\ pos' = pos
  /\ UNCHANGED <<log, history, committed, owner, marked, failed, faults>>

\* INSERT ... ON CONFLICT (appointment_id) DO NOTHING: with no row there is
\* one of its own, not committed yet; with one there is nothing to do.  The
\* foreign key refuses an unknown vehicle: ErrNotFound, a message to skip.
Record(m) ==
  /\ pc[m] = "handling"
  /\ ~Contended(m)
  /\ pc' = [pc EXCEPT ![m] = IF Subject(m) \in Known \ history THEN "inserted" ELSE "handled"]
  /\ UNCHANGED <<log, history, committed, owner, pos, marked, failed, faults>>

\* The row is committed, and the handler returns nil.
RecordCommit(m) ==
  /\ pc[m] = "inserted"
  /\ history' = history \cup {Subject(m)}
  /\ pc' = [pc EXCEPT ![m] = "handled"]
  /\ UNCHANGED <<log, committed, owner, pos, marked, failed, faults>>

\* The handler returned nil: MarkMessage, which never moves backwards.
Mark(m) ==
  /\ pc[m] = "handled"
  /\ marked' = [marked EXCEPT ![m] = IF pos[m] > @ THEN pos[m] ELSE @]
  /\ pc' = [pc EXCEPT ![m] = "waiting"]
  /\ pos' = [pos EXCEPT ![m] = @ + 1]
  /\ UNCHANGED <<log, history, committed, owner, failed, faults>>

\* The handler met a fault and returned it, with its row rolled back or
\* committed: the error is logged and the loop goes on with the next message.
HandlerError(m) ==
  /\ pc[m] \in {"handling", "inserted", "handled"}
  /\ failed' = failed \cup {pos[m]}
  /\ pc' = [pc EXCEPT ![m] = "waiting"]
  /\ pos' = [pos EXCEPT ![m] = @ + 1]
  /\ Fault
  /\ UNCHANGED <<log, history, committed, owner, marked>>

\* The background committer, which the coordinator refuses once the claim is
\* lost.
AutoCommit(m) ==
  /\ owner = m
  /\ marked[m] > committed
  /\ committed' = marked[m]
  /\ UNCHANGED <<log, history, owner, claims, failed, faults>>

-----------------------------------------------------------------------------

Loop(m) == Deliver(m) \/ Record(m) \/ RecordCommit(m) \/ Mark(m)
Step(m) == Assign(m) \/ Leave(m) \/ Loop(m) \/ AutoCommit(m)

Next ==
  \/ \E a \in Appointment : Produce(a)
  \/ \E m \in Member : Step(m) \/ Expel(m) \/ Crash(m) \/ HandlerError(m)

Spec == Init /\ [][Next]_vars

\* Consumers and their committers keep running; a session that lost its claim
\* ends.
FairSpec ==
  /\ Spec
  /\ \A m \in Member : WF_vars(Leave(m)) /\ WF_vars(Loop(m)) /\ WF_vars(AutoCommit(m))
  /\ WF_vars(\E m \in Member : Assign(m))

-----------------------------------------------------------------------------
(* Properties                                                              *)

TypeOK ==
  /\ log \in Seq(Appointment) /\ Len(log) <= MaxLog
  /\ history \in SUBSET Known
  /\ committed \in 0 .. MaxLog
  /\ owner \in Member \cup {NoMember}
  /\ pc \in [Member -> {"none", "waiting", "handling", "inserted", "handled"}]
  /\ pos \in [Member -> 0 .. MaxLog + 1]
  /\ marked \in [Member -> 0 .. MaxLog]
  /\ failed \in SUBSET (1 .. MaxLog)
  /\ faults \in 0 .. MaxFaults
  /\ owner \in Member => pc[owner] # "none"
  /\ \A m \in Member : pc[m] \in {"handling", "inserted", "handled"} => pos[m] \in DOMAIN log
  /\ \A m \in Member : pc[m] = "inserted" => Subject(m) \in Known

\* The message had its whole effect: its row is there, or it is one the
\* handler skips.
Handled(n) == n \in DOMAIN log /\ (log[n] \in Known => log[n] \in history)
Settled(n) == Handled(n) \/ n \in failed

\* An offset is committed past a message only when it was handled or its
\* handler reported an error: crashes, lost claims and members that do not
\* know they were expelled lose nothing.
AckedWasHandled == \A n \in 1 .. committed : Settled(n)

\* Every message is handled in the end, also one that arrived before the
\* group first joined, unless its handler reported an error.
EveryMessageHandled ==
  \A n \in 1 .. MaxLog : n <= Len(log) ~> Settled(n)

\* A redelivery is answered like the first delivery: however often a message
\* was repeated by the relay or read again after a crash or by two members at
\* once, the group's offset passes it in the end, unless its handler met a
\* fault.
EveryMessageAcked ==
  \A n \in 1 .. MaxLog : n <= Len(log) ~> (committed >= n \/ n \in failed)

-----------------------------------------------------------------------------
(* The inductive invariant behind AckedWasHandled.                         *)

\* Whatever a session has gone past, marked or not, is settled.
PastIsSettled ==
  \A m \in Member :
    pc[m] # "none" => /\ marked[m] < pos[m]
                      /\ \A n \in 1 .. MaxLog : n < pos[m] => Settled(n)
                      /\ pc[m] = "handled" => Handled(pos[m])

IInv == TypeOK /\ AckedWasHandled /\ PastIsSettled
=============================================================================
