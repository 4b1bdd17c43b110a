------------------------- MODULE OutboxRelayProofs -------------------------
(***************************************************************************)
(* Proofs about OutboxRelay: its inductive invariant, that no marked row   *)
(* was lost, and that the topic is a committed-only, per-key ordered log,  *)
(* for any number of rows, keys, replicas and faults and any batch size.   *)
(***************************************************************************)
EXTENDS OutboxRelay, SequenceTheorems, FiniteSetTheorems, TLAPS

\* The broker appends one record at the end.
LEMMA AppendSent ==
  ASSUME NEW i \in Id, log \in Seq(Id), log' = Append(log, i)
  PROVE  log' \in Seq(Id) /\ Sent' = Sent \cup {i}
<1>1. /\ log' \in Seq(Id) /\ Len(log') = Len(log) + 1 /\ log'[Len(log) + 1] = i
      /\ \A n \in 1 .. Len(log) : log'[n] = log[n]
  BY AppendProperties
<1>2. DOMAIN log' = 1 .. Len(log) + 1 /\ DOMAIN log = 1 .. Len(log) /\ Len(log) \in Nat
  BY <1>1, LenProperties
<1>3. ASSUME NEW x \in Sent' PROVE x \in Sent \cup {i}
  <2>1. PICK n \in 1 .. Len(log) + 1 : x = log'[n]
    BY <1>2, <1>3 DEF Sent
  <2>2. n \in 1 .. Len(log) \/ n = Len(log) + 1
    BY <1>2, <2>1
  <2> QED
    BY <1>1, <1>2, <2>1, <2>2 DEF Sent
<1>4. ASSUME NEW x \in Sent \cup {i} PROVE x \in Sent'
  <2>1. CASE x = i
    BY <1>1, <1>2, <2>1 DEF Sent
  <2>2. CASE x \in Sent
    <3>1. PICK n \in 1 .. Len(log) : x = log[n]
      BY <1>2, <2>2 DEF Sent
    <3> QED
      BY <1>1, <1>2, <3>1 DEF Sent
  <2> QED
    BY <1>4, <2>1, <2>2
<1> QED
  BY <1>1, <1>3, <1>4

\* An empty table, an empty topic, every relay between two passes.
LEMMA InitInv == Init => IInv
<1> SUFFICES ASSUME Init PROVE IInv
  OBVIOUS
<1>1. Sent = {}
  BY DEF Init, Sent
<1>2. TypeOK
  BY OutboxAssumption DEF Init, TypeOK, TxState
<1> QED
  BY <1>1, <1>2 DEF Init, IInv, KeysInOrder, OnlyCommitted, MarkedWasSent, NothingSkipped

\* An insert opens the last row of its key: no committed or held row changes,
\* and none of them comes after it.
LEMMA InsertInv ==
  ASSUME NEW i \in Id, NEW k \in Key, IInv, Insert(i, k)
  PROVE  IInv'
<1> USE DEF IInv
<1>1. /\ state[i] = "free" /\ key' = [key EXCEPT ![i] = k] /\ state' = [state EXCEPT ![i] = "open"]
      /\ \A j \in Id : /\ j < i => state[j] # "free"
                       /\ j > i => state[j] = "free"
                       /\ state[j] = "open" => key[j] # k
      /\ UNCHANGED <<published, log, pc, todo, done, faults>>
  BY DEF Insert, relays
<1>2. Sent' = Sent
  BY <1>1 DEF Sent
<1>3. TypeOK'
  BY <1>1, OutboxAssumption DEF TypeOK, TxState
<1>4. KeysInOrder'
  BY <1>1, OutboxAssumption DEF KeysInOrder, TypeOK, TxState
<1>5. OnlyCommitted'
  BY <1>1, <1>2 DEF OnlyCommitted, TypeOK
<1>6. \A j \in Id : state[j] = "committed" => Before(j)' = Before(j)
  BY <1>1 DEF Before, TypeOK
<1>7. NothingSkipped'
  <2>1. Sent \subseteq Id
    BY DEF Sent, TypeOK
  <2> QED
    BY <1>1, <1>2, <1>6, <2>1 DEF NothingSkipped, OnlyCommitted, TypeOK
<1> QED
  BY <1>1, <1>2, <1>3, <1>4, <1>5, <1>7 DEF MarkedWasSent

\* A transaction ends.  A row that becomes visible comes after the visible
\* rows of its key, so it is missing before none of them.
LEMMA EndInv ==
  ASSUME NEW i \in Id, IInv, Commit(i) \/ Rollback(i)
  PROVE  IInv'
<1> USE DEF IInv
<1>1. /\ state[i] = "open"
      /\ state' = [state EXCEPT ![i] = "committed"] \/ state' = [state EXCEPT ![i] = "aborted"]
      /\ UNCHANGED <<key, published, log, pc, todo, done, faults>>
  BY DEF Commit, Rollback, relays
<1>2. Sent' = Sent /\ Sent \subseteq Id
  BY <1>1 DEF Sent, TypeOK
<1>3. TypeOK'
  BY <1>1 DEF TypeOK, TxState
<1>4. KeysInOrder'
  BY <1>1 DEF KeysInOrder, TypeOK
<1>5. OnlyCommitted'
  BY <1>1, <1>2 DEF OnlyCommitted, TypeOK
<1>6. \A j \in Id : state[j] = "committed" => Before(j)' = Before(j)
  <2> SUFFICES ASSUME NEW j \in Id, state[j] = "committed", NEW x \in Id
               PROVE  x \in Before(j)' <=> x \in Before(j)
    BY DEF Before
  <2>1. CASE x # i
    BY <1>1, <2>1 DEF Before, TypeOK
  <2>2. CASE x = i
    <3>1. ~(i < j /\ key[i] = key[j])
      BY <1>1 DEF KeysInOrder, TypeOK
    <3> QED
      BY <1>1, <2>2, <3>1 DEF Before
  <2> QED
    BY <2>1, <2>2
<1>7. NothingSkipped'
  BY <1>1, <1>2, <1>6 DEF NothingSkipped, OnlyCommitted, TypeOK
<1> QED
  BY <1>1, <1>2, <1>3, <1>4, <1>5, <1>7 DEF MarkedWasSent

\* A batch is a prefix of the pending rows, so the earlier rows of a key are
\* in it or were already published, hence sent.
LEMMA FetchInv ==
  ASSUME NEW r \in Relay, IInv, Fetch(r)
  PROVE  IInv'
<1> USE DEF IInv
<1>1. PICK B \in SUBSET Pending :
        /\ B = Pending \/ Cardinality(B) = Batch
        /\ Cardinality(B) <= Batch
        /\ \A i \in B, j \in Pending \ B : i < j
        /\ todo' = [todo EXCEPT ![r] = B]
  BY DEF Fetch
<1>2. /\ Pending # {} /\ pc' = [pc EXCEPT ![r] = "sending"] /\ done' = [done EXCEPT ![r] = {}]
      /\ UNCHANGED <<key, state, published, log, faults>>
  BY DEF Fetch, table
<1>3. B # {}
  <2>1. CASE B = Pending
    BY <1>2, <2>1
  <2>2. CASE Cardinality(B) = Batch
    BY <2>2, OutboxAssumption, FS_EmptySet
  <2> QED
    BY <1>1, <2>1, <2>2
<1>4. Pending \subseteq Id /\ \A i \in Pending : state[i] = "committed"
  BY DEF Pending
<1>5. Sent' = Sent /\ \A i \in Id : Before(i)' = Before(i)
  BY <1>2 DEF Sent, Before
<1>6. TypeOK'
  BY <1>1, <1>2, <1>3, <1>4 DEF TypeOK
<1>7. KeysInOrder' /\ MarkedWasSent'
  BY <1>2, <1>5 DEF KeysInOrder, MarkedWasSent
<1>8. OnlyCommitted'
  BY <1>1, <1>2, <1>4, <1>5 DEF OnlyCommitted, TypeOK
<1>9. \A i \in B : Before(i) \subseteq B \cup Sent
  <2> SUFFICES ASSUME NEW i \in B, NEW j \in Before(i), j \notin B
               PROVE  j \in Sent
    OBVIOUS
  <2>1. j \in Id /\ j < i /\ state[j] = "committed" /\ i \in Id
    BY <1>4 DEF Before
  <2>2. j \notin Pending
    BY <1>1, <2>1, OutboxAssumption
  <2> QED
    BY <2>1, <2>2 DEF Pending, MarkedWasSent
<1>10. NothingSkipped'
  <2>1. Sent \subseteq Id /\ \A q \in Relay : todo[q] \subseteq Id
    BY DEF Sent, TypeOK
  <2>2. \A i \in Sent' : Before(i)' \subseteq Sent'
    BY <1>5, <2>1 DEF NothingSkipped
  <2>3. \A q \in Relay : \A i \in todo'[q] : Before(i)' \subseteq todo'[q] \cup Sent'
    <3> SUFFICES ASSUME NEW q \in Relay PROVE \A i \in todo'[q] : Before(i)' \subseteq todo'[q] \cup Sent'
      OBVIOUS
    <3>1. CASE q = r
      BY <1>1, <1>4, <1>5, <1>9, <3>1 DEF TypeOK
    <3>2. CASE q # r
      BY <1>1, <1>5, <2>1, <3>2 DEF NothingSkipped, TypeOK
    <3> QED
      BY <3>1, <3>2
  <2> QED
    BY <2>2, <2>3 DEF NothingSkipped
<1> QED
  BY <1>6, <1>7, <1>8, <1>10

\* A relay sends the first row of its batch: the earlier rows of its key are
\* not in the batch any more, so they are in the topic.
LEMMA SendInv ==
  ASSUME NEW r \in Relay, IInv, Send(r) \/ SendUnacked(r)
  PROVE  IInv'
<1> USE DEF IInv
<1>1. PICK i \in Id : /\ First(todo[r], i) /\ log' = Append(log, i)
                      /\ \/ /\ todo' = [todo EXCEPT ![r] = @ \ {i}]
                            /\ done' = [done EXCEPT ![r] = @ \cup {i}]
                            /\ pc' = [pc EXCEPT ![r] = IF todo[r] = {i} THEN "marking" ELSE "sending"]
                            /\ UNCHANGED faults
                         \/ faults' \in 0 .. MaxFaults /\ UNCHANGED <<pc, todo, done>>
  BY OutboxAssumption DEF Send, SendUnacked, Fault, relays, TypeOK
<1>2. pc[r] = "sending" /\ UNCHANGED <<key, state, published>>
  BY DEF Send, SendUnacked, table
<1>3. log' \in Seq(Id) /\ Sent' = Sent \cup {i}
  BY <1>1, AppendSent DEF TypeOK
<1>4. /\ Sent \subseteq Id
      /\ i \in todo[r] /\ \A j \in todo[r] : j \in Id /\ i <= j
  BY <1>1 DEF Sent, TypeOK, First
<1>5. \A j \in Id : Before(j)' = Before(j)
  BY <1>2 DEF Before
<1>6. \A q \in Relay : /\ todo[q] \subseteq todo'[q] \cup {i} /\ todo'[q] \subseteq todo[q]
                       /\ done'[q] \subseteq done[q] \cup {i}
  BY <1>1 DEF TypeOK
<1>7. TypeOK'
  <2>1. /\ pc' \in [Relay -> {"idle", "sending", "marking"}]
        /\ todo' \in [Relay -> SUBSET Id] /\ done' \in [Relay -> SUBSET Id]
        /\ faults' \in 0 .. MaxFaults
    <3>1. pc' \in [Relay -> {"idle", "sending", "marking"}]
      BY <1>1 DEF TypeOK
    <3>2. todo' \in [Relay -> SUBSET Id]
      BY <1>1 DEF TypeOK
    <3>3. done' \in [Relay -> SUBSET Id]
      BY <1>1 DEF TypeOK
    <3>4. faults' \in 0 .. MaxFaults
      BY <1>1 DEF TypeOK
    <3> QED
      BY <3>1, <3>2, <3>3, <3>4
  <2>2. \A q \in Relay : /\ pc'[q] = "idle" => todo'[q] = {} /\ done'[q] = {}
                         /\ pc'[q] = "sending" => todo'[q] # {}
    <3> SUFFICES ASSUME NEW q \in Relay
                 PROVE  /\ pc'[q] = "idle" => todo'[q] = {} /\ done'[q] = {}
                        /\ pc'[q] = "sending" => todo'[q] # {}
      OBVIOUS
    <3>1. CASE q # r
      <4>1. pc'[q] = pc[q] /\ todo'[q] = todo[q] /\ done'[q] = done[q]
        BY <1>1, <3>1 DEF TypeOK
      <4> QED
        BY <4>1 DEF TypeOK
    <3>2. CASE q = r
      <4>1. \/ /\ pc'[r] = IF todo[r] = {i} THEN "marking" ELSE "sending"
               /\ todo'[r] = todo[r] \ {i}
            \/ pc'[r] = pc[r] /\ todo'[r] = todo[r]
        BY <1>1 DEF TypeOK
      <4> QED
        BY <1>2, <1>4, <3>2, <4>1
    <3> QED
      BY <3>1, <3>2
  <2> QED
    BY <1>2, <1>3, <2>1, <2>2 DEF TypeOK
<1>8. KeysInOrder' /\ MarkedWasSent'
  BY <1>2, <1>3 DEF KeysInOrder, MarkedWasSent
<1>9. OnlyCommitted'
  BY <1>2, <1>3, <1>4, <1>6 DEF OnlyCommitted
<1>10. Before(i) \subseteq Sent
  <2> SUFFICES ASSUME NEW j \in Before(i) PROVE j \in Sent
    OBVIOUS
  <2>1. j \in todo[r] \cup Sent
    BY <1>4 DEF NothingSkipped
  <2>2. j \notin todo[r]
    BY <1>4, OutboxAssumption DEF Before
  <2> QED
    BY <2>1, <2>2
<1>11. \A x \in Sent' : Before(x)' \subseteq Sent'
  BY <1>3, <1>4, <1>5, <1>10 DEF NothingSkipped
<1>12. \A q \in Relay : \A x \in todo'[q] : Before(x)' \subseteq todo'[q] \cup Sent'
  <2> SUFFICES ASSUME NEW q \in Relay, NEW x \in todo'[q]
               PROVE  Before(x)' \subseteq todo'[q] \cup Sent'
    OBVIOUS
  <2>1. x \in todo[q] /\ x \in Id
    BY <1>6 DEF TypeOK
  <2>2. Before(x) \subseteq todo[q] \cup Sent
    BY <2>1 DEF NothingSkipped
  <2> QED
    BY <1>3, <1>5, <1>6, <2>1, <2>2
<1> QED
  BY <1>7, <1>8, <1>9, <1>11, <1>12 DEF NothingSkipped

\* The end of a pass, complete or not: only acked rows are marked.
LEMMA PassEndInv ==
  ASSUME NEW r \in Relay, IInv, GiveUp(r) \/ Mark(r) \/ Crash(r)
  PROVE  IInv'
<1> USE DEF IInv
<1>1. /\ \/ pc' = [pc EXCEPT ![r] = "marking"] /\ UNCHANGED <<todo, done>>
         \/ /\ pc' = [pc EXCEPT ![r] = "idle"]
            /\ todo' = [todo EXCEPT ![r] = {}] /\ done' = [done EXCEPT ![r] = {}]
      /\ faults' \in 0 .. MaxFaults
      /\ UNCHANGED <<key, state, log>>
      /\ published' \in {published, published \cup done[r]}
  BY OutboxAssumption DEF GiveUp, Mark, Crash, Idle, Fault, table, relays, TypeOK
<1>2. Sent' = Sent /\ Sent \subseteq Id /\ \A j \in Id : Before(j)' = Before(j)
  BY <1>1 DEF Sent, Before, TypeOK
<1>3. \A q \in Relay : todo'[q] \in {todo[q], {}} /\ done'[q] \in {done[q], {}}
  BY <1>1 DEF TypeOK
<1>4. TypeOK'
  BY <1>1 DEF TypeOK
<1>5. KeysInOrder'
  BY <1>1 DEF KeysInOrder
<1>6. OnlyCommitted'
  BY <1>1, <1>2, <1>3 DEF OnlyCommitted
<1>7. MarkedWasSent'
  BY <1>1, <1>2 DEF MarkedWasSent, OnlyCommitted
<1>8. \A i \in Sent' : Before(i)' \subseteq Sent'
  BY <1>2 DEF NothingSkipped
<1>9. \A q \in Relay : \A i \in todo'[q] : Before(i)' \subseteq todo'[q] \cup Sent'
  <2> SUFFICES ASSUME NEW q \in Relay, NEW i \in todo'[q]
               PROVE  Before(i)' \subseteq todo'[q] \cup Sent'
    OBVIOUS
  <2>1. todo'[q] = todo[q] /\ i \in todo[q] /\ i \in Id
    BY <1>3 DEF TypeOK
  <2> QED
    BY <1>2, <2>1 DEF NothingSkipped
<1> QED
  BY <1>4, <1>5, <1>6, <1>7, <1>8, <1>9 DEF NothingSkipped

\* Every step keeps the invariant.
LEMMA NextInv == IInv /\ [Next]_vars => IInv'
<1> SUFFICES ASSUME IInv, [Next]_vars PROVE IInv'
  OBVIOUS
<1>1. ASSUME NEW i \in Id, NEW k \in Key, Insert(i, k) PROVE IInv'
  BY <1>1, InsertInv
<1>2. ASSUME NEW i \in Id, Commit(i) \/ Rollback(i) PROVE IInv'
  BY <1>2, EndInv
<1>3. ASSUME NEW r \in Relay, Fetch(r) PROVE IInv'
  BY <1>3, FetchInv
<1>4. ASSUME NEW r \in Relay, Send(r) \/ SendUnacked(r) PROVE IInv'
  BY <1>4, SendInv
<1>5. ASSUME NEW r \in Relay, GiveUp(r) \/ Mark(r) \/ Crash(r) PROVE IInv'
  BY <1>5, PassEndInv
<1>6. CASE UNCHANGED vars
  BY <1>6 DEF vars, IInv, TypeOK, KeysInOrder, OnlyCommitted, MarkedWasSent, NothingSkipped, Sent, Before
<1> QED
  BY <1>1, <1>2, <1>3, <1>4, <1>5, <1>6 DEF Next

-----------------------------------------------------------------------------

\* The inductive invariant holds in every reachable state.
THEOREM Invariant == Spec => []IInv
<1>1. Init => IInv
  BY InitInv
<1>2. IInv /\ [Next]_vars => IInv'
  BY NextInv
<1> QED
  BY <1>1, <1>2, PTL DEF Spec

\* The outbox table and the relays' locals are well formed.
THEOREM TypeCorrect == Spec => []TypeOK
<1>1. IInv => TypeOK
  BY DEF IInv
<1> QED
  BY <1>1, Invariant, PTL

\* A row whose published_at is set is in the topic: an event is never lost
\* between the table and the broker, whatever a relay fails at.
THEOREM NothingLost == Spec => []MarkedWasSent
<1>1. IInv => MarkedWasSent
  BY DEF IInv
<1> QED
  BY <1>1, Invariant, PTL

\* Consumers see a committed-only, per-key ordered, at-least-once log.
THEOREM ImplementsKeyedLog == Spec => IsAKeyedLog
<1>1. Init => Log!Init
  BY DEF Init, Log!Init, written
<1>2. IInv /\ [Next]_vars => [Log!Next]_(Log!kvars)
  <2> SUFFICES ASSUME IInv, [Next]_vars PROVE [Log!Next]_(Log!kvars)
    OBVIOUS
  <2> USE DEF IInv
  <2>1. ASSUME NEW i \in Id, NEW k \in Key, Insert(i, k) PROVE UNCHANGED Log!kvars
    <3>1. written' = written
      BY <2>1 DEF Insert, written, TypeOK
    <3> QED
      BY <2>1, <3>1 DEF Insert, Log!kvars
  <2>2. ASSUME NEW i \in Id, Commit(i) PROVE Log!Next
    <3>1. /\ state[i] = "open" /\ state' = [state EXCEPT ![i] = "committed"] /\ UNCHANGED <<key, log>>
      BY <2>2 DEF Commit
    <3>2. key[i] \in Key
      BY <3>1 DEF TypeOK
    <3>3. written[i] = NoKey /\ written' = [written EXCEPT ![i] = key[i]]
      BY <3>1 DEF written, TypeOK
    <3>4. \A j \in Id : written[j] = key[i] => j < i
      <4> SUFFICES ASSUME NEW j \in Id, written[j] = key[i] PROVE j < i
        OBVIOUS
      <4>1. state[j] = "committed" /\ key[j] = key[i]
        BY <3>2, OutboxAssumption DEF written
      <4>2. ~(i < j)
        BY <3>1, <3>2, <4>1, OutboxAssumption DEF KeysInOrder
      <4> QED
        BY <3>1, <4>1, <4>2, OutboxAssumption
    <3>5. Log!Write(i, key[i])
      BY <3>1, <3>3, <3>4 DEF Log!Write
    <3> QED
      BY <3>2, <3>5 DEF Log!Next
  <2>3. ASSUME NEW i \in Id, Rollback(i) PROVE UNCHANGED Log!kvars
    <3>1. written' = written
      BY <2>3 DEF Rollback, written, TypeOK
    <3> QED
      BY <2>3, <3>1 DEF Rollback, Log!kvars
  <2>4. ASSUME NEW r \in Relay, Send(r) \/ SendUnacked(r) PROVE Log!Next
    <3>1. PICK i \in Id : First(todo[r], i) /\ log' = Append(log, i)
      BY <2>4 DEF Send, SendUnacked
    <3>2. UNCHANGED <<key, state>>
      BY <2>4 DEF Send, SendUnacked, table
    <3>3. state[i] = "committed" /\ key[i] # NoKey
      BY <3>1 DEF First, OnlyCommitted, TypeOK
    <3>4. \A j \in Log!Earlier(i) : Log!Visible(j)
      <4> SUFFICES ASSUME NEW j \in Log!Earlier(i) PROVE Log!Visible(j)
        OBVIOUS
      <4>1. j \in Before(i) /\ j \in Id /\ i \in todo[r]
        BY <3>1, <3>3 DEF Log!Earlier, written, Before, First
      <4>2. j \in todo[r] \cup Sent
        BY <4>1 DEF NothingSkipped
      <4>3. j \notin todo[r]
        BY <3>1, <4>1, OutboxAssumption DEF First, Before
      <4> QED
        BY <4>2, <4>3 DEF Sent, Log!Visible
    <3>5. written[i] # NoKey /\ UNCHANGED written
      BY <3>2, <3>3 DEF written
    <3>6. Log!Deliver(i)
      BY <3>1, <3>4, <3>5 DEF Log!Deliver
    <3> QED
      BY <3>6 DEF Log!Next
  <2>5. ASSUME NEW r \in Relay, Fetch(r) \/ GiveUp(r) \/ Mark(r) \/ Crash(r)
        PROVE  UNCHANGED Log!kvars
    BY <2>5 DEF Fetch, GiveUp, Mark, Crash, table, Log!kvars, written
  <2>6. CASE UNCHANGED vars
    BY <2>6 DEF vars, Log!kvars, written
  <2> QED
    BY <2>1, <2>2, <2>3, <2>4, <2>5, <2>6 DEF Next
<1> QED
  BY <1>1, <1>2, Invariant, PTL DEF Spec, IsAKeyedLog, Log!Spec
=============================================================================
