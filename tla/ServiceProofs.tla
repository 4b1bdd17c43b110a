--------------------------- MODULE ServiceProofs ---------------------------
(***************************************************************************)
(* What every Go service has besides its own rows: the Kafka consumer      *)
(* (EventConsumer), the listings (Listing) and the process itself          *)
(* (Lifecycle).  They share no variable; each section has the inductive    *)
(* invariant of one of them and what follows from it.                      *)
(***************************************************************************)
EXTENDS EventConsumer, Listing, Lifecycle,
        SequenceTheorems, FiniteSetTheorems, WellFoundedInduction, TLAPS

-----------------------------------------------------------------------------
(* EventConsumer: nothing but an error of the handler loses a message.     *)

\* A settled message stays settled while the partition, the history and the
\* reported errors only grow.
LEMMA SettledStays ==
  ASSUME history \subseteq history', failed \subseteq failed',
         \A i \in DOMAIN log : i \in DOMAIN log' /\ log'[i] = log[i],
         NEW n
  PROVE  (Handled(n) => Handled(n)') /\ (Settled(n) => Settled(n)')
BY DEF Handled, Settled

LEMMA InitInv == Init => IInv
<1> SUFFICES ASSUME Init PROVE IInv
  OBVIOUS
<1>1. TypeOK
  BY ConsumerAssumption DEF Init, TypeOK
<1> QED
  BY <1>1 DEF Init, IInv, AckedWasHandled, PastIsSettled

\* A new message is at the end: every message already there keeps its place.
LEMMA ProduceInv ==
  ASSUME NEW a \in Appointment, IInv, Produce(a)
  PROVE  IInv'
<1> USE DEF IInv
<1>1. /\ Len(log) < MaxLog /\ log' = Append(log, a)
      /\ UNCHANGED <<history, committed, owner, pc, pos, marked, failed, faults>>
  BY DEF Produce, claims
<1>2. log \in Seq(Appointment)
  BY DEF TypeOK
<1>3. /\ log' \in Seq(Appointment) /\ Len(log') = Len(log) + 1
      /\ \A n \in 1 .. Len(log) : log'[n] = log[n]
  BY <1>1, <1>2, AppendProperties
<1>4. /\ Len(log) \in Nat /\ DOMAIN log = 1 .. Len(log) /\ DOMAIN log' = 1 .. Len(log) + 1
  BY <1>2, <1>3, LenProperties
<1>5. \A i \in DOMAIN log : i \in DOMAIN log' /\ log'[i] = log[i]
  BY <1>3, <1>4
<1>6. \A n : (Handled(n) => Handled(n)') /\ (Settled(n) => Settled(n)')
  BY <1>1, <1>5, SettledStays
<1>7. Len(log') <= MaxLog
  BY <1>1, <1>3, <1>4, ConsumerAssumption
<1>8. TypeOK'
  <2>1. \A q \in Member : pc'[q] = "inserted" => Subject(q)' \in Known
    BY <1>1, <1>5 DEF TypeOK, Subject
  <2> QED
    BY <1>1, <1>3, <1>5, <1>7, <2>1 DEF TypeOK
<1> QED
  BY <1>1, <1>6, <1>8 DEF AckedWasHandled, PastIsSettled

\* A session starts right after the committed offset.
LEMMA AssignInv ==
  ASSUME NEW m \in Member, IInv, Assign(m)
  PROVE  IInv'
<1> USE DEF IInv
<1>1. /\ owner' = m
      /\ pc' = [pc EXCEPT ![m] = "waiting"]
      /\ pos' = [pos EXCEPT ![m] = committed + 1]
      /\ marked' = [marked EXCEPT ![m] = committed]
      /\ UNCHANGED <<log, history, committed, failed, faults>>
  BY DEF Assign
<1>2. \A n : (Handled(n)' <=> Handled(n)) /\ (Settled(n)' <=> Settled(n))
  BY <1>1 DEF Handled, Settled
<1>3. committed \in 0 .. MaxLog /\ committed + 1 \in 0 .. MaxLog + 1
  BY ConsumerAssumption DEF TypeOK
<1>4. TypeOK'
  <2>1. \A q \in Member : pc'[q] = "inserted" => Subject(q)' \in Known
    BY <1>1 DEF TypeOK, Subject
  <2> QED
    BY <1>1, <1>3, <2>1, ConsumerAssumption DEF TypeOK
<1>5. PastIsSettled'
  <2> SUFFICES ASSUME NEW q \in Member, pc'[q] # "none"
               PROVE  /\ marked'[q] < pos'[q]
                      /\ \A n \in 1 .. MaxLog : n < pos'[q] => Settled(n)
                      /\ pc'[q] = "handled" => Handled(pos[q])'
    BY <1>1, <1>2 DEF PastIsSettled
  <2>1. CASE q = m
    BY <1>1, <1>3, <2>1, ConsumerAssumption DEF TypeOK, AckedWasHandled
  <2>2. CASE q # m
    BY <1>1, <1>2, <2>2 DEF TypeOK, PastIsSettled
  <2> QED
    BY <2>1, <2>2
<1> QED
  BY <1>1, <1>2, <1>4, <1>5 DEF AckedWasHandled

\* Losing or ending a claim forgets a session; delivering only moves it on.
LEMMA ClaimInv ==
  ASSUME NEW m \in Member, IInv, Expel(m) \/ Leave(m) \/ Crash(m) \/ Deliver(m)
  PROVE  IInv'
<1> USE DEF IInv
<1>1. UNCHANGED <<log, history, committed, pos, marked, failed>>
  BY DEF Expel, Leave, Crash, Deliver, claims
<1>2. \A n : (Handled(n)' <=> Handled(n)) /\ (Settled(n)' <=> Settled(n))
  BY <1>1 DEF Handled, Settled
<1>3. TypeOK'
  <2>1. faults' \in 0 .. MaxFaults
    BY ConsumerAssumption DEF TypeOK, Expel, Leave, Crash, Deliver, Fault
  <2>2. /\ owner' \in Member \cup {NoMember}
        /\ pc' \in [Member -> {"none", "waiting", "handling", "inserted", "handled"}]
        /\ owner' \in Member => pc'[owner'] # "none"
    BY ConsumerAssumption DEF TypeOK, Expel, Leave, Crash, Deliver, claims
  <2>3. \A q \in Member : pc'[q] \in {"handling", "inserted", "handled"} => pos'[q] \in DOMAIN log'
    <3>1. CASE Deliver(m)
      <4>1. pos[m] \in DOMAIN log
        <5>1. pos[m] \in 0 .. MaxLog + 1 /\ pos[m] <= Len(log) /\ marked[m] < pos[m] /\ marked[m] \in 0 .. MaxLog
          BY <3>1 DEF TypeOK, Deliver, PastIsSettled
        <5>2. DOMAIN log = 1 .. Len(log) /\ Len(log) \in Nat
          BY LenProperties DEF TypeOK
        <5> QED
          BY <5>1, <5>2, ConsumerAssumption
      <4> QED
        BY <1>1, <3>1, <4>1 DEF TypeOK, Deliver
    <3>2. CASE Expel(m) \/ Leave(m) \/ Crash(m)
      BY <1>1, <3>2 DEF TypeOK, Expel, Leave, Crash, claims
    <3> QED
      BY <3>1, <3>2
  <2>4. \A q \in Member : pc'[q] = "inserted" => Subject(q)' \in Known
    BY <1>1 DEF TypeOK, Expel, Leave, Crash, Deliver, claims, Subject
  <2> QED
    BY <1>1, <2>1, <2>2, <2>3, <2>4 DEF TypeOK
<1>4. \A q \in Member : /\ pc'[q] # "none" => pc[q] # "none"
                        /\ pc'[q] = "handled" => pc[q] = "handled"
  BY DEF TypeOK, Expel, Leave, Crash, Deliver, claims
<1> QED
  BY <1>1, <1>2, <1>3, <1>4 DEF AckedWasHandled, PastIsSettled

\* The message at hand is handled once its row, if it needs one, is
\* committed.
LEMMA RecordInv ==
  ASSUME NEW m \in Member, IInv, Record(m) \/ RecordCommit(m)
  PROVE  IInv'
<1> USE DEF IInv
<1>1. /\ pc[m] \in {"handling", "inserted"} /\ pos[m] \in DOMAIN log
      /\ UNCHANGED <<log, committed, owner, pos, marked, failed, faults>>
      /\ \A q \in Member : q # m => pc'[q] = pc[q]
  BY DEF Record, RecordCommit, TypeOK
<1>2. /\ pc' \in [Member -> {"none", "waiting", "handling", "inserted", "handled"}]
      /\ pc'[m] \in {"inserted", "handled"}
      /\ history' \in SUBSET Known /\ history \subseteq history'
      /\ pc'[m] = "inserted" => Subject(m) \in Known
      /\ pc'[m] = "handled" => (Subject(m) \in Known => Subject(m) \in history')
  BY <1>1 DEF Record, RecordCommit, TypeOK
<1>3. \A n : (Handled(n) => Handled(n)') /\ (Settled(n) => Settled(n)')
  BY <1>1, <1>2, SettledStays
<1>4. pc'[m] = "handled" => Handled(pos[m])'
  BY <1>1, <1>2 DEF Handled, Subject
<1>5. TypeOK'
  <2>1. \A q \in Member : pc'[q] \in {"handling", "inserted", "handled"} => pos'[q] \in DOMAIN log'
    BY <1>1 DEF TypeOK
  <2>2. \A q \in Member : pc'[q] = "inserted" => Subject(q)' \in Known
    BY <1>1, <1>2 DEF TypeOK, Subject
  <2>3. owner' \in Member => pc'[owner'] # "none"
    BY <1>1, <1>2 DEF TypeOK
  <2> QED
    BY <1>1, <1>2, <2>1, <2>2, <2>3 DEF TypeOK
<1>6. PastIsSettled'
  <2> SUFFICES ASSUME NEW q \in Member, pc'[q] # "none"
               PROVE  /\ marked'[q] < pos'[q]
                      /\ \A n \in 1 .. MaxLog : n < pos'[q] => Settled(n)'
                      /\ pc'[q] = "handled" => Handled(pos[q])'
    BY DEF PastIsSettled
  <2>1. CASE q = m
    BY <1>1, <1>3, <1>4, <2>1 DEF PastIsSettled
  <2>2. CASE q # m
    BY <1>1, <1>3, <2>2 DEF PastIsSettled
  <2> QED
    BY <2>1, <2>2
<1> QED
  BY <1>1, <1>2, <1>3, <1>5, <1>6 DEF AckedWasHandled

\* The loop goes on past a message that is settled.
LEMMA LoopInv ==
  ASSUME NEW m \in Member, IInv, Mark(m) \/ HandlerError(m)
  PROVE  IInv'
<1> USE DEF IInv
<1>1. /\ pc[m] \in {"handling", "inserted", "handled"} /\ pos[m] \in DOMAIN log
      /\ pc' = [pc EXCEPT ![m] = "waiting"]
      /\ pos' = [pos EXCEPT ![m] = pos[m] + 1]
      /\ UNCHANGED <<log, history, committed, owner>>
  BY DEF Mark, HandlerError, TypeOK
<1>2. pos[m] \in 1 .. MaxLog
  <2>1. DOMAIN log = 1 .. Len(log) /\ Len(log) \in Nat /\ Len(log) <= MaxLog
    BY LenProperties DEF TypeOK
  <2> QED
    BY <1>1, <2>1, ConsumerAssumption
<1>3. failed \subseteq failed' /\ failed' \in SUBSET (1 .. MaxLog) /\ faults' \in 0 .. MaxFaults
  <2>1. CASE Mark(m)
    BY <2>1 DEF Mark, TypeOK
  <2>2. CASE HandlerError(m)
    <3>1. failed' = failed \cup {pos[m]} /\ failed \in SUBSET (1 .. MaxLog)
      BY <2>2 DEF HandlerError, TypeOK
    <3>2. faults < MaxFaults /\ faults' = faults + 1 /\ faults \in 0 .. MaxFaults
      BY <2>2 DEF HandlerError, Fault, TypeOK
    <3>3. faults' \in 0 .. MaxFaults
      BY <3>2, ConsumerAssumption
    <3> QED
      BY <1>2, <3>1, <3>3
  <2> QED
    BY <2>1, <2>2
<1>4. \A n : (Handled(n) => Handled(n)') /\ (Settled(n) => Settled(n)')
  BY <1>1, <1>3, SettledStays
<1>5. ASSUME NEW n, n = pos[m] PROVE Settled(n)'
  <2>1. CASE Mark(m)
    BY <1>4, <1>5, <2>1 DEF Mark, PastIsSettled, Settled
  <2>2. CASE HandlerError(m)
    BY <1>5, <2>2 DEF HandlerError, Settled
  <2> QED
    BY <2>1, <2>2
<1>6. /\ marked' \in [Member -> 0 .. MaxLog]
      /\ marked'[m] <= pos[m]
      /\ \A q \in Member : q # m => marked'[q] = marked[q]
  <2>1. marked[m] < pos[m] /\ marked[m] \in 0 .. MaxLog
    BY <1>1 DEF PastIsSettled, TypeOK
  <2>2. CASE Mark(m)
    BY <1>2, <2>1, <2>2 DEF Mark, TypeOK
  <2>3. CASE HandlerError(m)
    BY <1>2, <2>1, <2>3 DEF HandlerError, TypeOK
  <2> QED
    BY <2>2, <2>3
<1>7. TypeOK'
  <2>1. pos' \in [Member -> 0 .. MaxLog + 1]
    BY <1>1, <1>2, ConsumerAssumption DEF TypeOK
  <2>2. \A q \in Member : pc'[q] \in {"handling", "inserted", "handled"} => pos'[q] \in DOMAIN log'
    BY <1>1 DEF TypeOK
  <2>3. pc' \in [Member -> {"none", "waiting", "handling", "inserted", "handled"}]
        /\ (owner' \in Member => pc'[owner'] # "none")
    BY <1>1 DEF TypeOK
  <2>4. \A q \in Member : pc'[q] = "inserted" => Subject(q)' \in Known
    BY <1>1 DEF TypeOK, Subject
  <2> QED
    BY <1>1, <1>3, <1>6, <2>1, <2>2, <2>3, <2>4 DEF TypeOK
<1>8. PastIsSettled'
  <2> SUFFICES ASSUME NEW q \in Member, pc'[q] # "none"
               PROVE  /\ marked'[q] < pos'[q]
                      /\ \A n \in 1 .. MaxLog : n < pos'[q] => Settled(n)'
                      /\ pc'[q] = "handled" => Handled(pos[q])'
    BY DEF PastIsSettled
  <2>1. CASE q = m
    <3>1. pos'[q] = pos[m] + 1 /\ pc'[q] = "waiting" /\ marked'[q] \in 0 .. MaxLog
      BY <1>1, <1>6, <2>1 DEF TypeOK
    <3>2. ASSUME NEW n \in 1 .. MaxLog, n < pos'[q] PROVE Settled(n)'
      <4>1. n < pos[m] \/ n = pos[m]
        BY <1>2, <3>1, <3>2
      <4>2. CASE n < pos[m]
        <5>1. Settled(n)
          BY <1>1, <4>2 DEF PastIsSettled
        <5> QED
          BY <1>4, <5>1
      <4>3. CASE n = pos[m]
        BY <1>5, <4>3
      <4> QED
        BY <4>1, <4>2, <4>3
    <3> QED
      BY <1>2, <1>6, <2>1, <3>1, <3>2
  <2>2. CASE q # m
    BY <1>1, <1>4, <1>6, <2>2 DEF TypeOK, PastIsSettled
  <2> QED
    BY <2>1, <2>2
<1> QED
  BY <1>1, <1>4, <1>7, <1>8 DEF AckedWasHandled

\* Only a live claim commits, and what it marked is settled.
LEMMA AutoCommitInv ==
  ASSUME NEW m \in Member, IInv, AutoCommit(m)
  PROVE  IInv'
<1> USE DEF IInv
<1>1. /\ pc[m] # "none" /\ committed' = marked[m]
      /\ UNCHANGED <<log, history, owner, pc, pos, marked, failed, faults>>
  BY DEF AutoCommit, claims, TypeOK
<1>2. \A n : (Handled(n)' <=> Handled(n)) /\ (Settled(n)' <=> Settled(n))
  BY <1>1 DEF Handled, Settled
<1>3. TypeOK'
  BY <1>1 DEF TypeOK, Subject
<1>4. AckedWasHandled'
  <2>1. marked[m] < pos[m] /\ marked[m] \in 0 .. MaxLog /\ pos[m] \in 0 .. MaxLog + 1
    BY <1>1 DEF TypeOK, PastIsSettled
  <2>2. \A n \in 1 .. marked[m] : n \in 1 .. MaxLog /\ n < pos[m]
    BY <2>1, ConsumerAssumption
  <2> QED
    BY <1>1, <1>2, <2>2 DEF AckedWasHandled, PastIsSettled
<1> QED
  BY <1>1, <1>2, <1>3, <1>4 DEF PastIsSettled

LEMMA NextInv == IInv /\ [Next]_vars => IInv'
<1> SUFFICES ASSUME IInv, [Next]_vars PROVE IInv'
  OBVIOUS
<1>1. ASSUME NEW a \in Appointment, Produce(a) PROVE IInv'
  BY <1>1, ProduceInv
<1>2. ASSUME NEW m \in Member, Assign(m) PROVE IInv'
  BY <1>2, AssignInv
<1>3. ASSUME NEW m \in Member, Expel(m) \/ Leave(m) \/ Crash(m) \/ Deliver(m) PROVE IInv'
  BY <1>3, ClaimInv
<1>4. ASSUME NEW m \in Member, Record(m) \/ RecordCommit(m) PROVE IInv'
  BY <1>4, RecordInv
<1>5. ASSUME NEW m \in Member, Mark(m) \/ HandlerError(m) PROVE IInv'
  BY <1>5, LoopInv
<1>6. ASSUME NEW m \in Member, AutoCommit(m) PROVE IInv'
  BY <1>6, AutoCommitInv
<1>7. CASE UNCHANGED vars
  BY <1>7 DEF vars, claims, IInv, TypeOK, Subject, AckedWasHandled, PastIsSettled,
              Handled, Settled
<1> QED
  BY <1>1, <1>2, <1>3, <1>4, <1>5, <1>6, <1>7 DEF Next, Step, Loop

\* The inductive invariant of the consumer group holds in every state.
THEOREM Invariant == Spec => []IInv
BY InitInv, NextInv, PTL DEF Spec

\* Offsets, positions and the log keep their types; only a live claim owns
\* the partition.
THEOREM TypeCorrect == Spec => []TypeOK
<1>1. IInv => TypeOK
  BY DEF IInv
<1> QED
  BY <1>1, Invariant, PTL

\* Crashes, expelled members and rebalances lose no message: the committed
\* offset passes one only when it was handled or its handler failed.
THEOREM NothingSilentlyLost == Spec => []AckedWasHandled
<1>1. IInv => AckedWasHandled
  BY DEF IInv
<1> QED
  BY <1>1, Invariant, PTL

-----------------------------------------------------------------------------
(* Listing: every page a client can get is sound, however old it is.       *)

\* A set of natural numbers that is not empty has a least element.
LEMMA LeastOf ==
  ASSUME NEW S \in SUBSET Nat, S # {}
  PROVE  \E x \in S : \A y \in S : x <= y
<1> DEFINE R == StrictSubsetOrdering(Nat)
           T == {1 .. x : x \in S}
<1>1. IsWellFoundedOn(R, FiniteSubsetsOf(Nat))
  BY FS_StrictSubsetOrderingWellFounded
<1>2. T \subseteq FiniteSubsetsOf(Nat) /\ T # {}
  <2>1. ASSUME NEW x \in S PROVE 1 .. x \in FiniteSubsetsOf(Nat)
    <3>1. x \in Int /\ IsFiniteSet(1 .. x) /\ 1 .. x \in SUBSET Nat
      BY FS_Interval
    <3> QED
      BY <3>1 DEF FiniteSubsetsOf
  <2> QED
    BY <2>1
<1>3. PICK t \in T : \A u \in T : ~(<<u, t>> \in R)
  <2> HIDE DEF R, T
  <2> QED
    BY <1>1, <1>2, WFMin
<1>4. PICK x \in S : t = 1 .. x
  OBVIOUS
<1>5. ASSUME NEW y \in S, y < x PROVE FALSE
  <2>1. 1 .. y \subseteq 1 .. x /\ x \in 1 .. x /\ x \notin 1 .. y /\ 1 .. x \subseteq Nat
    BY <1>5
  <2>2. 1 .. y \in SUBSET Nat /\ 1 .. x \in SUBSET Nat /\ 1 .. y # 1 .. x
    BY <2>1
  <2>3. <<1 .. y, t>> \in R
    BY <2>1, <2>2, <1>4 DEF StrictSubsetOrdering
  <2> QED
    BY <2>3, <1>3
<1> QED
  BY <1>5

\* A page read with cursor c at most a ticks ago: its rows are past the cursor
\* and were live then; a row that was live before is there, unless it is past
\* the last one; the last one is the cursor of the next page.
Sound(p, c, a) ==
  /\ \A i \in p.ids : i > c /\ (row[i] = "live" \/ (row[i] = "deleted" /\ age[i] <= a))
  /\ \A i \in Id :
       i > c /\ row[i] = "live" /\ age[i] > a /\ (p.more => i <= p.next) => i \in p.ids
  /\ p.more => p.next \in p.ids /\ \A i \in p.ids : i <= p.next

RowsOK == \A i \in Id : row[i] \in {"free", "drawn"} => age[i] = 0

\* Where a client is, and that the rows it must still get are past it.
WalkOK(w) ==
  /\ last[w] = cursor[w]
  /\ stage[w] = "idle" => cursor[w] = 0 /\ owed[w] = {}
  /\ stage[w] = "read" <=> read[w] # NoPage
  /\ \A i \in owed[w] : i > cursor[w] /\ row[i] = "live" /\ age[i] = Old

ReadOK(w) == read[w] # NoPage => Sound(read[w].page, cursor[w], read[w].age)
CacheOK(c) == cache[c] # NoPage => Sound(cache[c].page, c, cache[c].age + MaxFill)

ListingIInv ==
  /\ ListingTypeOK /\ RowsOK
  /\ \A w \in Client : WalkOK(w) /\ ReadOK(w)
  /\ \A c \in Cursor : CacheOK(c)

\* A page's last row is its greatest id: Max finds one.
LEMMA MaxOf ==
  ASSUME NEW S \in SUBSET Id, S # {}
  PROVE  Max(S) \in S /\ \A i \in S : i <= Max(S)
<1> DEFINE T == {MaxId - i : i \in S}
<1>0. MaxId \in Nat /\ \A i \in S : i \in Int /\ i <= MaxId
  BY ListingAssumption DEF Id
<1>1. T \in SUBSET Nat /\ T # {}
  BY <1>0
<1>2. PICK t \in T : \A u \in T : t <= u
  <2> HIDE DEF T
  <2> QED
    BY <1>1, LeastOf
<1>3. PICK x \in S : t = MaxId - x
  OBVIOUS
<1>4. \A i \in S : MaxId - x <= MaxId - i
  BY <1>2, <1>3
<1>5. \A i \in S : x >= i
  BY <1>0, <1>4
<1>6. Max(S) = CHOOSE m \in S : \A i \in S : m >= i
  BY DEF Max
<1>7. Max(S) \in S /\ \A i \in S : Max(S) >= i
  BY <1>5, <1>6
<1> QED
  BY <1>0, <1>7

\* What List returns: the live rows past the cursor, all of them, or the first
\* ones when there are more.
LEMMA ListFacts ==
  ASSUME NEW c \in Cursor
  PROVE  /\ List(c) \in Page
         /\ \A i \in List(c).ids : i > c /\ row[i] = "live"
         /\ \A i \in Id : i > c /\ row[i] = "live" /\ (List(c).more => i <= List(c).next)
                            => i \in List(c).ids
         /\ List(c).more => List(c).next \in List(c).ids
                            /\ \A i \in List(c).ids : i <= List(c).next
<1> DEFINE after == {i \in Id : i > c /\ row[i] = "live"}
           Below(i) == {j \in after : j < i}
           ids == Query(c)
           more == Cardinality(ids) > Limit
           kept == IF more THEN ids \ {Max(ids)} ELSE ids
<1>0. /\ MaxId \in Nat /\ Limit \in Nat \ {0} /\ c \in Nat
      /\ \A i \in Id : i \in Nat
  BY ListingAssumption DEF Id, Cursor
<1>1. ids = {i \in after : Cardinality(Below(i)) < Limit + 1}
  BY DEF Query
<1>2. List(c) = [ids |-> kept, more |-> more, next |-> IF more THEN Max(kept) ELSE 0]
      /\ more \in BOOLEAN
  BY DEF List
<1>3. ASSUME NEW S \in SUBSET Id
      PROVE  /\ IsFiniteSet(S) /\ Cardinality(S) \in Nat
             /\ \A T \in SUBSET S : Cardinality(T) <= Cardinality(S)
  <2>1. IsFiniteSet(Id)
    BY <1>0, FS_Interval DEF Id
  <2>2. IsFiniteSet(S)
    BY <2>1, FS_Subset
  <2> QED
    BY <2>2, FS_Subset, FS_CardinalityType
<1>4. /\ ids \in SUBSET after /\ after \in SUBSET Id /\ ids \in SUBSET Id /\ kept \in SUBSET ids
      /\ \A i \in Id : Below(i) \in SUBSET Id
  BY <1>1
<1>5. \A i \in after : i > c /\ row[i] = "live" /\ i \in Id
  OBVIOUS
<1>6. \A i \in Id : i > c /\ row[i] = "live" => i \in after
  OBVIOUS
\* Whoever is below a row of the query is in it.
<1>7. ASSUME NEW i \in after, NEW m \in ids, i < m PROVE i \in ids
  <2>1. Below(i) \in SUBSET Below(m) /\ m \in after /\ Cardinality(Below(m)) < Limit + 1
    BY <1>1, <1>0, <1>7, <1>4, <1>5
  <2>2. Cardinality(Below(i)) <= Cardinality(Below(m)) /\ Cardinality(Below(i)) \in Nat
        /\ Cardinality(Below(m)) \in Nat
    <3> HIDE DEF Below, after
    <3> QED
      BY <2>1, <1>3, <1>4, <1>5
  <2>3. Cardinality(Below(i)) < Limit + 1
    <3> HIDE DEF Below, after
    <3> QED
      BY <2>1, <2>2, <1>0
  <2> QED
    BY <2>3, <1>1
\* A query that has not more than Limit rows has them all.
<1>8. ASSUME ~more, NEW i \in after, i \notin ids PROVE FALSE
  <2> DEFINE missed == {j \in after : j \notin ids}
  <2>1. missed \in SUBSET Nat /\ missed # {}
    BY <1>0, <1>5, <1>8
  <2>2. PICK m \in missed : \A j \in missed : m <= j
    <3> HIDE DEF missed
    <3> QED
      BY <2>1, LeastOf
  <2>3. Below(m) \in SUBSET ids /\ m \in Id
    BY <2>2, <1>0, <1>5
  <2>4. ~(Cardinality(Below(m)) < Limit + 1)
    BY <1>1, <2>2
  <2> HIDE DEF missed, after, Below, ids
  <2>5. Cardinality(Below(m)) <= Cardinality(ids) /\ Cardinality(ids) \in Nat
        /\ Cardinality(Below(m)) \in Nat
    BY <2>3, <1>3, <1>4
  <2> QED
    BY <2>4, <2>5, <1>8, <1>0
<1> HIDE DEF after, Below, ids
<1>9. CASE more
  <2>1. ids # {} /\ Cardinality(ids) \in Nat /\ IsFiniteSet(ids) /\ Cardinality(ids) > Limit
    BY <1>9, <1>3, <1>4, <1>0, FS_EmptySet
  <2>2. Max(ids) \in ids /\ \A i \in ids : i <= Max(ids)
    BY <2>1, <1>4, MaxOf
  <2>3. kept = ids \ {Max(ids)}
    BY <1>9
  <2>4. kept # {}
    <3>1. Cardinality(ids \ {Max(ids)}) = Cardinality(ids) - 1
      BY <2>1, <2>2, FS_RemoveElement
    <3>2. Cardinality(ids \ {Max(ids)}) # 0
      BY <3>1, <2>1, <1>0
    <3> HIDE DEF more, kept
    <3> QED
      BY <3>2, <2>3, FS_EmptySet
  <2> HIDE DEF kept
  <2>5. Max(kept) \in kept /\ \A i \in kept : i <= Max(kept)
    BY <2>4, <1>4, MaxOf
  <2>6. /\ List(c).ids = kept /\ List(c).more = TRUE /\ List(c).next = Max(kept)
        /\ List(c) = [ids |-> kept, more |-> TRUE, next |-> Max(kept)]
    <3> HIDE DEF more
    <3>1. more = TRUE
      BY <1>2, <1>9
    <3>2. List(c) = [ids |-> kept, more |-> TRUE, next |-> Max(kept)]
      BY <1>2, <3>1
    <3> QED
      BY <3>2
  <2>7. List(c) \in Page
    <3> HIDE DEF more
    <3>1. kept \in SUBSET Id
      BY <1>4
    <3>2. Max(kept) \in Id
      BY <3>1, <2>5
    <3>3. Id \subseteq Cursor
      BY <1>0 DEF Cursor, Id
    <3> QED
      BY <2>6, <3>1, <3>2, <3>3 DEF Page
  <2>8. ASSUME NEW i \in after, i <= Max(kept) PROVE i \in kept
    <3>1. Max(kept) \in ids /\ Max(kept) # Max(ids) /\ Max(kept) <= Max(ids)
      BY <2>2, <2>3, <2>5
    <3>2. i \in Nat /\ Max(kept) \in Nat /\ Max(ids) \in Nat
      BY <3>1, <2>2, <1>0, <1>4
    <3>3. i \in ids
      BY <3>1, <3>2, <2>8, <1>7
    <3>4. i # Max(ids)
      BY <3>1, <3>2, <2>8
    <3> QED
      BY <3>3, <3>4, <2>3
  <2> QED
    BY <2>5, <2>6, <2>7, <2>8, <1>4, <1>5, <1>6
<1>10. CASE ~more
  <2>1. /\ List(c).ids = ids /\ List(c).more = FALSE
        /\ List(c) = [ids |-> ids, more |-> FALSE, next |-> 0]
    <3>1. kept = ids
      BY <1>10
    <3> HIDE DEF more, kept
    <3>2. more = FALSE
      BY <1>2, <1>10
    <3>3. List(c) = [ids |-> ids, more |-> FALSE, next |-> 0]
      BY <1>2, <3>1, <3>2
    <3> QED
      BY <3>3
  <2>2. List(c) \in Page
    BY <2>1, <1>4, <1>0 DEF Page, Cursor
  <2> QED
    BY <2>1, <2>2, <1>4, <1>5, <1>6, <1>8, <1>10
<1> QED
  BY <1>9, <1>10

\* A page with the time since it was read, or put in the cache.
LEMMA Entry ==
  ASSUME NEW p \in Page, NEW n \in Nat, NEW a \in 0 .. n
  PROVE  /\ [page |-> p, age |-> a] \in [page : Page, age : 0 .. n]
         /\ [page |-> p, age |-> a] # NoPage
         /\ [page |-> p, age |-> a].page = p /\ [page |-> p, age |-> a].age = a
<1>1. a \in Nat
  OBVIOUS
<1>2. /\ [page |-> p, age |-> a] \in [page : Page, age : 0 .. n]
      /\ [page |-> p, age |-> a] \in [page : Page, age : Nat]
  BY <1>1, Zenon
<1> QED
  BY <1>2, ListingAssumption

\* A page just read is sound.
LEMMA ListSound ==
  ASSUME ListingTypeOK, NEW c \in Cursor
  PROVE  Sound(List(c), c, 0)
<1> DEFINE p == List(c)
<1>1. /\ \A i \in p.ids : i > c /\ row[i] = "live"
      /\ \A i \in Id : i > c /\ row[i] = "live" /\ (p.more => i <= p.next) => i \in p.ids
      /\ p.more => p.next \in p.ids /\ \A i \in p.ids : i <= p.next
  BY ListFacts
<1> HIDE DEF p
<1>2. Sound(p, c, 0)
  BY <1>1 DEF Sound
<1> QED
  BY <1>2 DEF p

\* The older a page may be, the less is said of it.
LEMMA SoundLater ==
  ASSUME ListingTypeOK, NEW p \in Page, NEW c \in Cursor, NEW a \in Nat, NEW b \in Nat, a <= b,
         Sound(p, c, a)
  PROVE  Sound(p, c, b)
<1>1. p.ids \in SUBSET Id /\ \A i \in Id : age[i] \in Int
  BY ListingAssumption DEF Page, ListingTypeOK, Age
<1> QED
  BY <1>1 DEF Sound

\* A page stays sound when a row is drawn, committed or deleted.
LEMMA SoundRow ==
  ASSUME ListingTypeOK, RowsOK, NEW i \in Id, NEW to \in {"drawn", "live", "deleted"},
         row' = [row EXCEPT ![i] = to], row[i] # "deleted", to = "deleted" <=> row[i] = "live",
         to = "live" => row[i] = "drawn",
         to = "deleted" => age' = [age EXCEPT ![i] = 0],
         to # "deleted" => age' = age,
         NEW p \in Page, NEW c \in Cursor, NEW a \in Nat, Sound(p, c, a)
  PROVE  Sound(p, c, a)'
<1>1. p.ids \in SUBSET Id /\ \A j \in Id : age[j] \in Int
  BY ListingAssumption DEF Page, ListingTypeOK, Age
<1>2. /\ row'[i] = to
      /\ \A j \in Id : j # i => row'[j] = row[j] /\ age'[j] = age[j]
      /\ age'[i] = IF to = "deleted" THEN 0 ELSE age[i]
  <2>1. row'[i] = to /\ \A j \in Id : j # i => row'[j] = row[j]
    BY DEF ListingTypeOK
  <2>2. CASE to = "deleted"
    BY <2>1, <2>2 DEF ListingTypeOK
  <2>3. CASE to # "deleted"
    BY <2>1, <2>3
  <2> QED
    BY <2>2, <2>3
<1>0. to = "live" => row[i] = "drawn" /\ age[i] = 0
  BY DEF RowsOK
<1>3. ASSUME NEW j \in p.ids
      PROVE  j > c /\ (row'[j] = "live" \/ (row'[j] = "deleted" /\ age'[j] <= a))
  <2>1. j > c /\ (row[j] = "live" \/ (row[j] = "deleted" /\ age[j] <= a))
    BY DEF Sound
  <2>2. CASE j # i
    BY <2>1, <2>2, <1>1, <1>2
  <2>3. CASE j = i
    BY <2>1, <2>3, <1>1, <1>2
  <2> QED
    BY <2>2, <2>3
<1>4. ASSUME NEW j \in Id, j > c, row'[j] = "live", age'[j] > a, p.more => j <= p.next
      PROVE  j \in p.ids
  <2>1. CASE j # i
    BY <2>1, <1>2, <1>4 DEF Sound
  <2>2. CASE j = i
    BY <2>2, <1>0, <1>2, <1>4
  <2> QED
    BY <2>1, <2>2
<1> QED
  BY <1>3, <1>4 DEF Sound

\* And it is one tick older when time passes.
LEMMA SoundTick ==
  ASSUME ListingTypeOK, RowsOK, Tick,
         NEW p \in Page, NEW c \in Cursor, NEW a \in Nat, a < Stale, Sound(p, c, a)
  PROVE  Sound(p, c, a + 1)'
<1>1. /\ p.ids \in SUBSET Id /\ Old \in Nat /\ a + 1 < Old
      /\ \A j \in Id : age[j] \in Int /\ age[j] <= Old
  BY ListingAssumption DEF Page, ListingTypeOK, Age, Old, Stale
<1>2. /\ row' = row
      /\ \A j \in Id : age'[j] = IF row[j] \in {"live", "deleted"} /\ age[j] < Old
                                 THEN age[j] + 1 ELSE age[j]
  BY DEF Tick
<1>3. ASSUME NEW j \in p.ids
      PROVE  j > c /\ (row'[j] = "live" \/ (row'[j] = "deleted" /\ age'[j] <= a + 1))
  <2>1. j > c /\ (row[j] = "live" \/ (row[j] = "deleted" /\ age[j] <= a))
    BY DEF Sound
  <2> QED
    BY <2>1, <1>1, <1>2
<1>4. ASSUME NEW j \in Id, j > c, row'[j] = "live", age'[j] > a + 1, p.more => j <= p.next
      PROVE  j \in p.ids
  <2>1. row[j] = "live" /\ age[j] > a
    BY <1>1, <1>2, <1>4
  <2> QED
    BY <2>1, <1>4 DEF Sound
<1> QED
  BY <1>2, <1>3, <1>4 DEF Sound

\* A row is drawn, committed or deleted: every page stays sound, and no client
\* must still get a row that is gone.
LEMMA RowStep ==
  ASSUME ListingIInv, NEW i \in Id, Insert(i) \/ Commit(i) \/ Delete(i)
  PROVE  ListingIInv'
<1>1. /\ ListingTypeOK /\ RowsOK
      /\ \A w \in Client : WalkOK(w) /\ ReadOK(w)
      /\ \A c \in Cursor : CacheOK(c)
  BY DEF ListingIInv
<1>2. PICK to \in {"drawn", "live", "deleted"} :
        /\ row' = [row EXCEPT ![i] = to]
        /\ row[i] # "deleted" /\ (to = "deleted" <=> row[i] = "live")
        /\ to = "live" => row[i] = "drawn"
        /\ to = "drawn" => row[i] = "free"
        /\ to = "deleted" => age' = [age EXCEPT ![i] = 0]
        /\ to # "deleted" => age' = age
  BY DEF Insert, Commit, Delete
<1>3. /\ cache' = cache /\ stage' = stage /\ cursor' = cursor /\ read' = read /\ last' = last
      /\ owed' = IF to = "deleted" THEN [w \in Client |-> owed[w] \ {i}] ELSE owed
  BY <1>2 DEF Insert, Commit, Delete, walk
<1>4. ASSUME NEW p \in Page, NEW c \in Cursor, NEW a \in Nat, Sound(p, c, a)
      PROVE  Sound(p, c, a)'
  BY <1>1, <1>2, <1>4, SoundRow
<1>5. /\ row'[i] = to /\ \A j \in Id : j # i => row'[j] = row[j] /\ age'[j] = age[j]
      /\ to = "drawn" => age'[i] = 0
  BY <1>1, <1>2 DEF ListingTypeOK, RowsOK
<1>6. ListingTypeOK'
  <2>1. row' \in [Id -> {"free", "drawn", "live", "deleted"}]
    BY <1>1, <1>2 DEF ListingTypeOK
  <2>2. age' \in [Id -> Age]
    <3>1. 0 \in Age
      BY ListingAssumption DEF Age, Old, Stale
    <3> QED
      BY <3>1, <1>1, <1>2 DEF ListingTypeOK
  <2>3. owed' \in [Client -> SUBSET Id]
    BY <1>1, <1>3 DEF ListingTypeOK
  <2> QED
    BY <2>1, <2>2, <2>3, <1>1, <1>3 DEF ListingTypeOK
<1>7. RowsOK'
  BY <1>1, <1>2, <1>5 DEF RowsOK
<1>8. ASSUME NEW w \in Client PROVE WalkOK(w)' /\ ReadOK(w)'
  <2>1. /\ WalkOK(w) /\ ReadOK(w)
        /\ owed'[w] = IF to = "deleted" THEN owed[w] \ {i} ELSE owed[w]
    BY <1>1, <1>3 DEF ListingTypeOK
  <2>2. ASSUME NEW j \in owed'[w] PROVE j > cursor[w] /\ row'[j] = "live" /\ age'[j] = Old
    <3>1. j \in owed[w] /\ j \in Id /\ j > cursor[w] /\ row[j] = "live" /\ age[j] = Old
      BY <2>1, <2>2, <1>1 DEF WalkOK, ListingTypeOK
    <3>2. j # i
      BY <3>1, <2>1, <2>2, <1>2
    <3> QED
      BY <3>1, <3>2, <1>5
  <2>3. WalkOK(w)'
    BY <2>1, <2>2, <1>3 DEF WalkOK
  <2>4. ASSUME read[w] # NoPage PROVE Sound(read[w].page, cursor[w], read[w].age)'
    <3>1. read[w].page \in Page /\ read[w].age \in Nat /\ cursor[w] \in Cursor
      BY <2>4, <1>1, ListingAssumption DEF ListingTypeOK
    <3>2. Sound(read[w].page, cursor[w], read[w].age)
      BY <2>1, <2>4 DEF ReadOK
    <3> QED
      BY <3>1, <3>2, <1>4, <1>3
  <2> QED
    BY <2>3, <2>4, <1>3 DEF ReadOK
<1>9. ASSUME NEW c \in Cursor PROVE CacheOK(c)'
  <2>1. ASSUME cache[c] # NoPage PROVE Sound(cache[c].page, c, cache[c].age + MaxFill)'
    <3>1. cache[c].page \in Page /\ cache[c].age + MaxFill \in Nat
      BY <2>1, <1>1, ListingAssumption DEF ListingTypeOK
    <3>2. Sound(cache[c].page, c, cache[c].age + MaxFill)
      BY <2>1, <1>1 DEF CacheOK
    <3> QED
      BY <3>1, <3>2, <1>4, <1>3
  <2> QED
    BY <2>1, <1>3 DEF CacheOK
<1> QED
  BY <1>6, <1>7, <1>8, <1>9 DEF ListingIInv

\* Another client's request, and the pages in the cache, stay as sound as they
\* were when the rows do not change.
LEMMA SameRows ==
  ASSUME ListingIInv, UNCHANGED rows, NEW w \in Client,
         \A v \in Client \ {w} :
           /\ stage'[v] = stage[v] /\ cursor'[v] = cursor[v] /\ read'[v] = read[v]
           /\ last'[v] = last[v] /\ owed'[v] = owed[v],
         ListingTypeOK', WalkOK(w)', ReadOK(w)', \A c \in Cursor : CacheOK(c)'
  PROVE  ListingIInv'
<1>1. /\ ListingTypeOK /\ RowsOK
      /\ \A v \in Client : WalkOK(v) /\ ReadOK(v)
      /\ row' = row /\ age' = age
  BY DEF ListingIInv, rows
<1>2. RowsOK'
  BY <1>1 DEF RowsOK
<1>3. ASSUME NEW v \in Client \ {w} PROVE WalkOK(v)' /\ ReadOK(v)'
  BY <1>1, <1>3 DEF WalkOK, ReadOK, Sound
<1> QED
  BY <1>1, <1>2, <1>3 DEF ListingIInv

\* The cache stays sound when it does not change.
LEMMA SameCache ==
  ASSUME ListingIInv, UNCHANGED <<rows, cache>>
  PROVE  \A c \in Cursor : CacheOK(c)'
BY DEF ListingIInv, CacheOK, Sound, rows

\* A client's walk begins, or is over.
LEMMA IdleStep ==
  ASSUME ListingIInv, NEW w \in Client, Ask(w) \/ Fail(w)
  PROVE  ListingIInv'
<1>1. ListingTypeOK /\ RowsOK /\ WalkOK(w) /\ ReadOK(w)
  BY DEF ListingIInv
<1>2. UNCHANGED <<rows, cache>> /\ row' = row /\ age' = age /\ cache' = cache
  BY DEF Ask, Fail, rows
<1>3. \A c \in Cursor : CacheOK(c)'
  BY <1>2, SameCache
<1>4. CASE Ask(w)
  <2>1. /\ stage' = [stage EXCEPT ![w] = "asking"]
        /\ owed' = [owed EXCEPT ![w] = {i \in Id : row[i] = "live" /\ age[i] > Stale}]
        /\ cursor' = cursor /\ read' = read /\ last' = last /\ stage[w] = "idle"
    BY <1>4 DEF Ask
  <2>2. ListingTypeOK'
    BY <2>1, <1>1, <1>2 DEF ListingTypeOK, Stage
  <2>3. \A i \in owed'[w] : i > cursor[w] /\ row[i] = "live" /\ age[i] = Old
    <3>1. owed'[w] = {i \in Id : row[i] = "live" /\ age[i] > Stale} /\ cursor[w] = 0
      BY <2>1, <1>1 DEF ListingTypeOK, WalkOK
    <3>2. \A i \in Id : i > 0 /\ age[i] \in 0 .. Old /\ Old = Stale + 1 /\ Stale \in Nat
      BY <1>1, ListingAssumption DEF ListingTypeOK, Age, Id, Old, Stale
    <3> QED
      BY <3>1, <3>2
  <2>4. WalkOK(w)'
    BY <2>1, <2>3, <1>1, <1>2 DEF WalkOK, ListingTypeOK
  <2>5. ReadOK(w)'
    BY <2>1, <1>1, <1>2 DEF ReadOK, Sound
  <2>6. \A v \in Client \ {w} :
          /\ stage'[v] = stage[v] /\ cursor'[v] = cursor[v] /\ read'[v] = read[v]
          /\ last'[v] = last[v] /\ owed'[v] = owed[v]
    BY <2>1, <1>1 DEF ListingTypeOK
  <2> QED
    BY <2>2, <2>4, <2>5, <2>6, <1>2, <1>3, SameRows
<1>5. CASE Fail(w)
  <2>1. /\ stage' = [stage EXCEPT ![w] = "idle"] /\ cursor' = [cursor EXCEPT ![w] = 0]
        /\ last' = [last EXCEPT ![w] = 0] /\ owed' = [owed EXCEPT ![w] = {}]
        /\ read' = [read EXCEPT ![w] = NoPage]
    BY <1>5 DEF Fail, Over
  <2>2. 0 \in Cursor
    BY ListingAssumption DEF Cursor
  <2>3. ListingTypeOK'
    BY <2>1, <2>2, <1>1, <1>2 DEF ListingTypeOK, Stage
  <2>4. WalkOK(w)' /\ ReadOK(w)'
    BY <2>1, <1>1 DEF WalkOK, ReadOK, ListingTypeOK
  <2>5. \A v \in Client \ {w} :
          /\ stage'[v] = stage[v] /\ cursor'[v] = cursor[v] /\ read'[v] = read[v]
          /\ last'[v] = last[v] /\ owed'[v] = owed[v]
    BY <2>1, <1>1 DEF ListingTypeOK
  <2> QED
    BY <2>3, <2>4, <2>5, <1>2, <1>3, SameRows
<1> QED
  BY <1>4, <1>5

\* A client gets a page: what it must still get is past the page's last row.
LEMMA AnsweredStep ==
  ASSUME ListingIInv, NEW w \in Client, stage[w] # "idle",
         NEW p \in Page, NEW a \in 0 .. Stale, Sound(p, cursor[w], a), Answered(w, p),
         read' = [read EXCEPT ![w] = NoPage]
  PROVE  /\ row' = row /\ age' = age
         /\ stage' \in [Client -> Stage] /\ cursor' \in [Client -> Cursor]
         /\ last' \in [Client -> Cursor] /\ owed' \in [Client -> SUBSET Id]
         /\ read' \in [Client -> [page : Page, age : 0 .. MaxFill] \cup {NoPage}]
         /\ WalkOK(w)' /\ ReadOK(w)'
         /\ \A v \in Client \ {w} :
              /\ stage'[v] = stage[v] /\ cursor'[v] = cursor[v] /\ read'[v] = read[v]
              /\ last'[v] = last[v] /\ owed'[v] = owed[v]
<1>1. /\ ListingTypeOK /\ RowsOK /\ WalkOK(w)
      /\ row' = row /\ age' = age /\ read'[w] = NoPage
      /\ cursor[w] \in Cursor /\ owed[w] \in SUBSET Id
  BY DEF ListingIInv, ListingTypeOK, Answered, rows
<1>2. CASE p.more
  <2>1. /\ stage' = [stage EXCEPT ![w] = "asking"] /\ cursor' = [cursor EXCEPT ![w] = p.next]
        /\ last' = [last EXCEPT ![w] = Max(p.ids)] /\ owed' = [owed EXCEPT ![w] = @ \ p.ids]
    BY <1>2 DEF Answered
  <2>2. p.next \in p.ids /\ (\A i \in p.ids : i <= p.next) /\ p.ids \in SUBSET Id
        /\ p.next \in Cursor
    BY <1>2 DEF Sound, Page
  <2>3. Max(p.ids) = p.next
    <3>1. Max(p.ids) \in p.ids /\ \A i \in p.ids : i <= Max(p.ids)
      BY <2>2, MaxOf
    <3>2. \A i \in Id : i \in Int
      BY DEF Id
    <3> HIDE DEF Id
    <3> QED
      BY <3>1, <3>2, <2>2
  <2>4. /\ stage'[w] = "asking" /\ cursor'[w] = p.next /\ last'[w] = p.next
        /\ owed'[w] = owed[w] \ p.ids
    BY <2>1, <2>3, <1>1 DEF ListingTypeOK
  <2>5. ASSUME NEW i \in owed'[w] PROVE i > p.next /\ row[i] = "live" /\ age[i] = Old
    <3>1. /\ i \in Id /\ i \notin p.ids /\ i > cursor[w] /\ row[i] = "live" /\ age[i] = Old
      BY <2>4, <2>5, <1>1 DEF WalkOK
    <3>2. age[i] > a /\ i \in Int /\ p.next \in Int
      BY <3>1, <2>2, ListingAssumption DEF Old, Stale, Id, Cursor
    <3> QED
      BY <3>1, <3>2, <1>2 DEF Sound
  <2>6. WalkOK(w)' /\ ReadOK(w)'
    BY <2>4, <2>5, <1>1 DEF WalkOK, ReadOK
  <2> QED
    BY <2>1, <2>2, <2>3, <2>6, <1>1 DEF ListingTypeOK, Stage
<1>3. CASE ~p.more
  <2>1. /\ stage' = [stage EXCEPT ![w] = "idle"] /\ cursor' = [cursor EXCEPT ![w] = 0]
        /\ last' = [last EXCEPT ![w] = 0] /\ owed' = [owed EXCEPT ![w] = {}]
    BY <1>3 DEF Answered, Over
  <2>2. 0 \in Cursor
    BY ListingAssumption DEF Cursor
  <2>3. WalkOK(w)' /\ ReadOK(w)'
    BY <2>1, <1>1 DEF WalkOK, ReadOK, ListingTypeOK
  <2> QED
    BY <2>1, <2>2, <2>3, <1>1 DEF ListingTypeOK, Stage
<1> QED
  BY <1>2, <1>3

\* A page of the cache is never staler than Stale.
LEMMA HitStep ==
  ASSUME ListingIInv, NEW w \in Client, Hit(w)
  PROVE  ListingIInv'
<1>1. /\ ListingTypeOK /\ WalkOK(w) /\ stage[w] = "asking" /\ read[w] = NoPage
      /\ cursor[w] \in Cursor /\ cache[cursor[w]] # NoPage
      /\ Answered(w, cache[cursor[w]].page) /\ cache' = cache /\ read' = read
  BY DEF ListingIInv, Hit, Key, ListingTypeOK, WalkOK
<1>2. PICK p \in Page, a \in 0 .. Stale : p = cache[cursor[w]].page /\ Sound(p, cursor[w], a)
  <2>1. cache[cursor[w]] \in [page : Page, age : 0 .. TTL] /\ CacheOK(cursor[w])
    BY <1>1 DEF ListingTypeOK, ListingIInv
  <2>2. cache[cursor[w]].page \in Page /\ cache[cursor[w]].age + MaxFill \in 0 .. Stale
    BY <2>1, ListingAssumption DEF Stale
  <2> QED
    BY <2>1, <2>2, <1>1 DEF CacheOK
<1>3. read' = [read EXCEPT ![w] = NoPage]
  BY <1>1 DEF ListingTypeOK
<1>4. /\ row' = row /\ age' = age
      /\ stage' \in [Client -> Stage] /\ cursor' \in [Client -> Cursor]
      /\ last' \in [Client -> Cursor] /\ owed' \in [Client -> SUBSET Id]
      /\ WalkOK(w)' /\ ReadOK(w)'
      /\ \A v \in Client \ {w} :
           /\ stage'[v] = stage[v] /\ cursor'[v] = cursor[v] /\ read'[v] = read[v]
           /\ last'[v] = last[v] /\ owed'[v] = owed[v]
  BY <1>1, <1>2, <1>3, AnsweredStep
<1>5. ListingTypeOK'
  BY <1>1, <1>4 DEF ListingTypeOK
<1>6. \A c \in Cursor : CacheOK(c)'
  BY <1>1, <1>4, SameCache DEF rows
<1> QED
  BY <1>4, <1>5, <1>6, SameRows DEF rows

\* A request reads its page.
LEMMA MissStep ==
  ASSUME ListingIInv, NEW w \in Client, Miss(w)
  PROVE  ListingIInv'
<1>1. /\ ListingTypeOK /\ WalkOK(w) /\ stage[w] = "asking" /\ cursor[w] \in Cursor
      /\ row' = row /\ age' = age /\ cache' = cache
      /\ cursor' = cursor /\ last' = last /\ owed' = owed
      /\ stage' = [stage EXCEPT ![w] = "read"]
  BY DEF ListingIInv, Miss, ListingTypeOK, rows
<1>2. PICK c \in Cursor : c = cursor[w]
  BY <1>1
<1>3. PICK p \in Page : p = List(c) /\ Sound(p, c, 0)
  BY <1>1, ListFacts, ListSound
<1>4. read' = [read EXCEPT ![w] = [page |-> p, age |-> 0]]
  BY <1>2, <1>3 DEF Miss
<1>5. PICK a \in 0 .. MaxFill : a = 0
  BY ListingAssumption
<1>6. PICK r \in [page : Page, age : 0 .. MaxFill] :
        r # NoPage /\ read' = [read EXCEPT ![w] = r] /\ r.page = p /\ r.age = 0
  <2>1. read' = [read EXCEPT ![w] = [page |-> p, age |-> a]] /\ MaxFill \in Nat
    BY <1>4, <1>5, ListingAssumption
  <2>2. /\ [page |-> p, age |-> a] \in [page : Page, age : 0 .. MaxFill]
        /\ [page |-> p, age |-> a] # NoPage
        /\ [page |-> p, age |-> a].page = p /\ [page |-> p, age |-> a].age = a
    BY <2>1, Entry
  <2> QED
    BY <2>1, <2>2, <1>5
<1>7. /\ read'[w] = r /\ stage'[w] = "read" /\ read' \in [Client -> [page : Page, age : 0 .. MaxFill] \cup {NoPage}]
      /\ \A v \in Client \ {w} : stage'[v] = stage[v] /\ read'[v] = read[v]
  BY <1>1, <1>6 DEF ListingTypeOK
<1>8. ListingTypeOK'
  BY <1>1, <1>7 DEF ListingTypeOK, Stage
<1>9. WalkOK(w)'
  BY <1>1, <1>6, <1>7 DEF WalkOK
<1>10. Sound(p, c, 0)'
  BY <1>1, <1>3 DEF Sound
<1>11. ReadOK(w)'
  BY <1>1, <1>2, <1>6, <1>7, <1>10 DEF ReadOK
<1>12. \A c1 \in Cursor : CacheOK(c1)'
  BY <1>1, SameCache DEF rows
<1> QED
  BY <1>1, <1>7, <1>8, <1>9, <1>11, <1>12, SameRows DEF rows

\* A request's page goes to the cache and to its client.
LEMMA FillStep ==
  ASSUME ListingIInv, NEW w \in Client, Fill(w)
  PROVE  ListingIInv'
<1>1. /\ ListingTypeOK /\ WalkOK(w) /\ ReadOK(w) /\ stage[w] = "read" /\ read[w] # NoPage
      /\ cursor[w] \in Cursor /\ Answered(w, read[w].page)
      /\ read' = [read EXCEPT ![w] = NoPage]
      /\ read[w] \in [page : Page, age : 0 .. MaxFill]
  BY DEF ListingIInv, Fill, ListingTypeOK, WalkOK
<1>2. PICK p \in Page, a \in 0 .. MaxFill :
        p = read[w].page /\ a = read[w].age /\ Sound(p, cursor[w], a)
  BY <1>1 DEF ReadOK
<1>3. a \in 0 .. Stale /\ a \in Nat /\ MaxFill \in Nat /\ a <= MaxFill /\ 0 \in 0 .. TTL
  BY ListingAssumption DEF Stale
<1>4. /\ row' = row /\ age' = age
      /\ stage' \in [Client -> Stage] /\ cursor' \in [Client -> Cursor]
      /\ last' \in [Client -> Cursor] /\ owed' \in [Client -> SUBSET Id]
      /\ read' \in [Client -> [page : Page, age : 0 .. MaxFill] \cup {NoPage}]
      /\ WalkOK(w)' /\ ReadOK(w)'
      /\ \A v \in Client \ {w} :
           /\ stage'[v] = stage[v] /\ cursor'[v] = cursor[v] /\ read'[v] = read[v]
           /\ last'[v] = last[v] /\ owed'[v] = owed[v]
  BY <1>1, <1>2, <1>3, AnsweredStep
<1>5. CASE cache' = cache
  <2>1. ListingTypeOK'
    BY <1>1, <1>4, <1>5 DEF ListingTypeOK
  <2>2. \A c \in Cursor : CacheOK(c)'
    BY <1>4, <1>5, SameCache DEF rows
  <2> QED
    BY <1>4, <2>1, <2>2, SameRows DEF rows
<1>6. CASE cache' = [cache EXCEPT ![cursor[w]] = [page |-> p, age |-> 0]]
  <2>1. PICK r \in [page : Page, age : 0 .. TTL] :
          r = [page |-> p, age |-> 0] /\ r.page = p /\ r.age = 0
    <3>1. PICK b \in 0 .. TTL : b = 0
      BY <1>3
    <3>2. TTL \in Nat
      BY ListingAssumption
    <3>3. /\ [page |-> p, age |-> b] \in [page : Page, age : 0 .. TTL]
          /\ [page |-> p, age |-> b].page = p /\ [page |-> p, age |-> b].age = b
      BY <3>2, Entry
    <3> QED
      BY <3>1, <3>3
  <2>2. PICK k \in Cursor : k = cursor[w]
    BY <1>1
  <2>3. /\ cache' \in [Cursor -> [page : Page, age : 0 .. TTL] \cup {NoPage}]
        /\ cache'[k] = r
        /\ \A c \in Cursor \ {k} : cache'[c] = cache[c]
    <3>1. cache' = [cache EXCEPT ![k] = r]
      BY <1>6, <2>1, <2>2
    <3> QED
      BY <3>1, <2>1, <1>1 DEF ListingTypeOK
  <2>4. ListingTypeOK'
    BY <1>1, <1>4, <2>3 DEF ListingTypeOK
  <2>5. ASSUME NEW c \in Cursor PROVE CacheOK(c)'
    <3>1. CASE c = k
      <4>1. Sound(p, k, MaxFill)
        BY <1>1, <1>2, <1>3, <2>2, SoundLater
      <4>2. Sound(p, k, MaxFill)'
        BY <4>1, <1>4 DEF Sound
      <4>3. 0 + MaxFill = MaxFill
        BY <1>3
      <4> QED
        BY <3>1, <2>1, <4>2, <4>3, <2>3 DEF CacheOK
    <3>2. CASE c # k
      <4>1. CacheOK(c) /\ cache'[c] = cache[c]
        BY <3>2, <2>3 DEF ListingIInv
      <4> QED
        BY <4>1, <1>4 DEF CacheOK, Sound
    <3> QED
      BY <3>1, <3>2
  <2> QED
    BY <1>4, <2>4, <2>5, SameRows DEF rows
<1> QED
  BY <1>2, <1>5, <1>6 DEF Fill, Key

\* Time passes: a request is not older than MaxFill, a page in the cache not
\* older than TTL.
LEMMA TickStep ==
  ASSUME ListingIInv, Tick
  PROVE  ListingIInv'
<1>1. /\ ListingTypeOK /\ RowsOK
      /\ \A w \in Client : WalkOK(w) /\ ReadOK(w)
      /\ \A c \in Cursor : CacheOK(c)
      /\ row' = row /\ stage' = stage /\ cursor' = cursor /\ last' = last /\ owed' = owed
  BY DEF ListingIInv, Tick
<1>2. TTL \in Nat \ {0} /\ MaxFill \in Nat /\ Stale = TTL + MaxFill /\ Old \in Nat
  BY ListingAssumption DEF Old, Stale
<1>3. ASSUME NEW i \in Id
      PROVE  age'[i] = IF row[i] \in {"live", "deleted"} /\ age[i] < Old
                       THEN age[i] + 1 ELSE age[i]
  BY DEF Tick
<1>4. age' \in [Id -> Age]
  <2>1. \A i \in Id : (IF row[i] \in {"live", "deleted"} /\ age[i] < Old
                       THEN age[i] + 1 ELSE age[i]) \in Age
    BY <1>1, <1>2 DEF ListingTypeOK, Age
  <2> QED
    BY <2>1 DEF Tick
<1>5. RowsOK'
  BY <1>1, <1>3 DEF RowsOK
<1>6. ASSUME NEW w \in Client
      PROVE  /\ read'[w] = IF read[w] = NoPage THEN NoPage ELSE [read[w] EXCEPT !.age = @ + 1]
             /\ read[w] # NoPage => read[w].age < MaxFill
  BY <1>1 DEF Tick, Older, ListingTypeOK
<1>7. ASSUME NEW w \in Client, read[w] # NoPage
      PROVE  /\ read'[w] \in [page : Page, age : 0 .. MaxFill] /\ read'[w] # NoPage
             /\ Sound(read[w].page, cursor[w], read[w].age)'
  <2>1. PICK r \in [page : Page, age : 0 .. MaxFill] : r = read[w]
    BY <1>1, <1>7 DEF ListingTypeOK
  <2>2. r.page \in Page /\ r.age \in 0 .. MaxFill /\ r.age < MaxFill
    BY <2>1, <1>6, <1>7
  <2>3. read'[w] = [page |-> r.page, age |-> r.age + 1]
    BY <1>6, <1>7, <2>1
  <2>4. PICK c \in Cursor : c = cursor[w]
    BY <1>1 DEF ListingTypeOK
  <2>5. r.age \in Nat /\ r.age < Stale /\ r.age + 1 \in 0 .. MaxFill /\ r.age + 1 \in Nat
    BY <2>2, <1>2
  <2>6. PICK p \in Page, a \in Nat : p = r.page /\ a = r.age
    BY <2>2, <2>5
  <2>7. Sound(p, c, a)
    BY <1>1, <1>7, <2>1, <2>4, <2>6 DEF ReadOK
  <2>8. Sound(p, c, a + 1)'
    BY <1>1, <2>5, <2>6, <2>7, SoundTick
  <2>9. PICK b \in 0 .. MaxFill : b = a + 1
    BY <2>5, <2>6
  <2>10. /\ read'[w] = [page |-> p, age |-> b]
         /\ Sound(p, c, b)'
    BY <2>3, <2>6, <2>8, <2>9
  <2>11. /\ read'[w] \in [page : Page, age : 0 .. MaxFill] /\ read'[w] # NoPage
         /\ read'[w].page = p /\ read'[w].age = b
    BY <2>10, <1>2, Entry
  <2> QED
    BY <2>4, <2>10, <2>11, <1>1
<1>8. ASSUME NEW w \in Client PROVE WalkOK(w)' /\ ReadOK(w)'
  <2>1. read'[w] # NoPage <=> read[w] # NoPage
    BY <1>6, <1>7
  <2>2. ASSUME NEW i \in owed[w] PROVE i > cursor[w] /\ row[i] = "live" /\ age'[i] = Old
    <3>1. i \in Id /\ i > cursor[w] /\ row[i] = "live" /\ age[i] = Old
      BY <1>1 DEF WalkOK, ListingTypeOK
    <3> QED
      BY <3>1, <1>3, <1>2
  <2>3. WalkOK(w)'
    BY <2>1, <2>2, <1>1 DEF WalkOK
  <2>4. ReadOK(w)'
    BY <2>1, <1>1, <1>7 DEF ReadOK
  <2> QED
    BY <2>3, <2>4
<1>9. ASSUME NEW c \in Cursor
      PROVE  cache'[c] = IF cache[c] # NoPage /\ cache[c].age = TTL THEN NoPage
                         ELSE IF cache[c] = NoPage THEN NoPage
                         ELSE [cache[c] EXCEPT !.age = @ + 1]
  BY DEF Tick, Older
<1>10. ASSUME NEW c \in Cursor, cache'[c] # NoPage
       PROVE  /\ cache'[c] \in [page : Page, age : 0 .. TTL]
              /\ Sound(cache[c].page, c, cache[c].age + MaxFill)'
  <2>1. PICK r \in [page : Page, age : 0 .. TTL] : r = cache[c] /\ r.age # TTL
    BY <1>1, <1>9, <1>10 DEF ListingTypeOK
  <2>2. PICK p \in Page, a \in 0 .. TTL : p = r.page /\ a = r.age
    BY <2>1
  <2>3. cache'[c] = [page |-> p, age |-> a + 1]
    BY <1>9, <1>10, <2>1, <2>2
  <2>4. /\ a \in Nat /\ a + MaxFill \in Nat /\ a + MaxFill < Stale /\ a + 1 \in 0 .. TTL
        /\ (a + MaxFill) + 1 = (a + 1) + MaxFill
    BY <2>1, <2>2, <1>2
  <2>5. Sound(p, c, a + MaxFill)
    BY <1>1, <1>10, <1>9, <2>1, <2>2 DEF CacheOK
  <2>6. Sound(p, c, (a + MaxFill) + 1)'
    BY <1>1, <2>4, <2>5, SoundTick
  <2>7. PICK b \in 0 .. TTL : b = a + 1
    BY <2>4
  <2>8. cache'[c] = [page |-> p, age |-> b] /\ Sound(p, c, b + MaxFill)'
    BY <2>3, <2>4, <2>6, <2>7
  <2>9. /\ cache'[c] \in [page : Page, age : 0 .. TTL]
        /\ cache'[c].page = p /\ cache'[c].age = b
    BY <2>8, <1>2, Entry
  <2> QED
    BY <2>8, <2>9
<1>11. ASSUME NEW c \in Cursor PROVE CacheOK(c)'
  BY <1>10 DEF CacheOK
<1>12. ListingTypeOK'
  <2>1. cache' \in [Cursor -> [page : Page, age : 0 .. TTL] \cup {NoPage}]
    <3>1. DOMAIN cache' = Cursor /\ cache' = [c \in Cursor |-> cache'[c]]
      BY DEF Tick
    <3> QED
      BY <3>1, <1>10
  <2>2. read' \in [Client -> [page : Page, age : 0 .. MaxFill] \cup {NoPage}]
    <3>1. DOMAIN read' = Client /\ read' = [w \in Client |-> read'[w]]
      BY DEF Tick
    <3> QED
      BY <3>1, <1>6, <1>7
  <2> QED
    BY <2>1, <2>2, <1>1, <1>4 DEF ListingTypeOK
<1> QED
  BY <1>5, <1>8, <1>11, <1>12 DEF ListingIInv

\* A table with any rows, and nobody reading it.
LEMMA ListingInitInv == ListingInit => ListingIInv
<1> SUFFICES ASSUME ListingInit PROVE ListingIInv
  OBVIOUS
<1>1. 0 \in Cursor /\ Old \in Age /\ 0 \in Age
  BY ListingAssumption DEF Cursor, Age, Old, Stale
<1>2. PICK n \in Cursor : row = [i \in Id |-> IF i <= n THEN "live" ELSE "free"]
  BY DEF ListingInit
<1>3. age = [i \in Id |-> IF row[i] = "live" THEN Old ELSE 0]
  BY DEF ListingInit
<1>4. ListingTypeOK
  <2>1. row \in [Id -> {"free", "drawn", "live", "deleted"}]
    BY <1>2
  <2>2. age \in [Id -> Age]
    BY <1>1, <1>3
  <2> QED
    BY <1>1, <2>1, <2>2 DEF ListingInit, ListingTypeOK, Stage
<1>5. RowsOK
  BY <1>3 DEF RowsOK
<1>6. \A w \in Client : WalkOK(w) /\ ReadOK(w)
  BY DEF ListingInit, WalkOK, ReadOK
<1>7. \A c \in Cursor : CacheOK(c)
  BY DEF ListingInit, CacheOK
<1> QED
  BY <1>4, <1>5, <1>6, <1>7 DEF ListingIInv

\* Every step of the table, of a request and of time keeps the pages sound.
LEMMA ListingNextInv == ListingIInv /\ [ListingNext]_listingVars => ListingIInv'
<1> SUFFICES ASSUME ListingIInv, [ListingNext]_listingVars PROVE ListingIInv'
  OBVIOUS
<1>1. ASSUME NEW i \in Id, Insert(i) \/ Commit(i) \/ Delete(i) PROVE ListingIInv'
  BY <1>1, RowStep
<1>2. ASSUME NEW w \in Client, Ask(w) \/ Fail(w) PROVE ListingIInv'
  BY <1>2, IdleStep
<1>3. ASSUME NEW w \in Client, Hit(w) PROVE ListingIInv'
  BY <1>3, HitStep
<1>4. ASSUME NEW w \in Client, Miss(w) PROVE ListingIInv'
  BY <1>4, MissStep
<1>5. ASSUME NEW w \in Client, Fill(w) PROVE ListingIInv'
  BY <1>5, FillStep
<1>6. CASE Tick
  BY <1>6, TickStep
<1>7. CASE UNCHANGED listingVars
  BY <1>7 DEF listingVars, rows, walk, ListingIInv, ListingTypeOK, RowsOK, WalkOK, ReadOK, CacheOK, Sound
<1> QED
  BY <1>1, <1>2, <1>3, <1>4, <1>5, <1>6, <1>7 DEF ListingNext

\* The inductive invariant of the listings, for any number of rows and clients,
\* any limit, any TTL and any time a request takes to fill the cache.
THEOREM ListingInvariant == ListingSpec => []ListingIInv
BY ListingInitInv, ListingNextInv, PTL DEF ListingSpec

\* The pages a client can get are sound, and no staler than Stale.
LEMMA AnswersSound ==
  ASSUME ListingIInv, NEW w \in Client, NEW p \in Answers(w)
  PROVE  p \in Page /\ \E a \in 0 .. Stale : Sound(p, cursor[w], a)
<1>1. ListingTypeOK /\ WalkOK(w) /\ ReadOK(w) /\ cursor[w] \in Cursor
  BY DEF ListingIInv, ListingTypeOK
<1>2. CASE stage[w] = "asking"
  <2>1. cache[cursor[w]] # NoPage /\ p = cache[cursor[w]].page
    BY <1>2 DEF Answers, Key
  <2>2. cache[cursor[w]] \in [page : Page, age : 0 .. TTL] /\ CacheOK(cursor[w])
    BY <2>1, <1>1 DEF ListingTypeOK, ListingIInv
  <2>3. cache[cursor[w]].page \in Page /\ cache[cursor[w]].age + MaxFill \in 0 .. Stale
    BY <2>2, ListingAssumption DEF Stale
  <2> QED
    BY <2>1, <2>2, <2>3 DEF CacheOK
<1>3. CASE stage[w] # "asking"
  <2>1. read[w] # NoPage /\ p = read[w].page
    BY <1>3 DEF Answers
  <2>2. read[w] \in [page : Page, age : 0 .. MaxFill]
    BY <2>1, <1>1 DEF ListingTypeOK
  <2>3. read[w].page \in Page /\ read[w].age \in 0 .. Stale
    BY <2>2, ListingAssumption DEF Stale
  <2> QED
    BY <2>1, <2>3, <1>1 DEF ReadOK
<1> QED
  BY <1>2, <1>3

\* A walk misses no row that was there long enough before it began and is still
\* there, whatever is inserted or deleted meanwhile (GetCustomers, ListVehicles).
THEOREM NoRowIsMissed == ListingSpec => []WalkIsComplete
<1>1. ListingIInv => WalkIsComplete
  <2> SUFFICES ASSUME ListingIInv, NEW w \in Client, NEW p \in Answers(w),
                      NEW i \in owed[w], p.more => i <= p.next
               PROVE  i \in p.ids
    BY DEF WalkIsComplete
  <2>1. PICK a \in 0 .. Stale : Sound(p, cursor[w], a)
    BY AnswersSound
  <2>2. i \in Id /\ i > cursor[w] /\ row[i] = "live" /\ age[i] = Old
    BY DEF ListingIInv, WalkOK, ListingTypeOK
  <2>3. Old > a
    BY ListingAssumption DEF Old, Stale
  <2> QED
    BY <2>1, <2>2, <2>3 DEF Sound
<1> QED
  BY <1>1, ListingInvariant, PTL

\* A client gets every row at most once, in the order of the ids, and none that
\* has been dead for longer than a page can be old.
THEOREM NoRowTwice == ListingSpec => []WalkIsTrue
<1>1. ListingIInv => WalkIsTrue
  <2> SUFFICES ASSUME ListingIInv, NEW w \in Client, NEW p \in Answers(w), NEW i \in p.ids
               PROVE  i > last[w] /\ (row[i] = "live" \/ (row[i] = "deleted" /\ age[i] <= Stale))
    BY DEF WalkIsTrue
  <2>1. PICK a \in 0 .. Stale : Sound(p, cursor[w], a)
    BY AnswersSound
  <2>2. last[w] = cursor[w] /\ i \in Id /\ age[i] \in Int /\ Stale \in Int
    BY AnswersSound, ListingAssumption DEF ListingIInv, WalkOK, Page, ListingTypeOK, Age, Stale, Old
  <2>3. i > cursor[w] /\ (row[i] = "live" \/ (row[i] = "deleted" /\ age[i] <= a))
    BY <2>1 DEF Sound
  <2> QED
    BY <2>2, <2>3
<1> QED
  BY <1>1, ListingInvariant, PTL

\* Types of the listing's state.
THEOREM ListingTypeCorrect == ListingSpec => []ListingTypeOK
<1>1. ListingIInv => ListingTypeOK
  BY DEF ListingIInv
<1> QED
  BY <1>1, ListingInvariant, PTL

-----------------------------------------------------------------------------
(* Lifecycle: the order of the programs keeps every client that is used   *)
(* open and the schema complete.                                           *)

\* What a main goroutine with the program p has done when it is at step n.
Did(p, n, kind) == \E m \in 1 .. n - 1 : p[m][1] = kind
DidTo(p, n, kind, what) == \E m \in 1 .. n - 1 : p[m][1] = kind /\ p[m][2] = what

\* What the safety of a service needs of the order of its program.
WellOrdered(p) ==
  \A n \in 1 .. Len(p) :
    /\ p[n][1] = "go" =>
         /\ p[n][2] \in Worker /\ \A what \in Uses(p[n][2]) : DidTo(p, n, "open", what)
         /\ Did(p, n, "migrate") /\ ~Did(p, n, "wait")
    /\ p[n][1] = "serve" =>
         /\ \A m \in 1 .. Len(p) : p[m][1] = "open" => m < n
         /\ DidTo(p, n, "go", "relay") /\ Did(p, n, "migrate") /\ ~Did(p, n, "drain")
    /\ p[n][1] \in {"stop", "wait"} => Did(p, n, "drain")
    /\ p[n][1] = "close" /\ p # Job => Did(p, n, "wait")
    /\ p[n][1] \in {"go", "serve"} => p # Job
    /\ p[n][1] # "return" => n < Len(p)

\* A process with the program p at step n: what it has opened is open until its
\* workers have ended; its workers run until they are cancelled, and none runs
\* after the wait; a request that outlives the drain is late; who migrates
\* holds the lock and is at the first migration that is missing.
AtStep(r, p, n) ==
  /\ p # Job /\ ~Did(p, n, "wait") =>
       \A what \in Resource : DidTo(p, n, "open", what) => what \in open[r]
  /\ \A w \in working[r] : DidTo(p, n, "go", w)
  /\ Did(p, n, "wait") => working[r] = {}
  /\ r \in cancelled <=> Did(p, n, "stop")
  /\ r \notin cancelled => \A w \in Worker : DidTo(p, n, "go", w) => w \in working[r]
  /\ requests[r] > 0 =>
       (Did(p, n, "serve") \/ p[n][1] = "serve") /\ (Did(p, n, "drain") => r \in late)
  /\ next[r] # 0 => Migrating(r)
  /\ auto /\ ~rolledBack /\ p # Job /\ Did(p, n, "migrate") => Len(schema) = Last

Gone(r) ==
  /\ todo[r] = <<>> /\ open[r] = {} /\ working[r] = {} /\ requests[r] = 0
  /\ r \notin cancelled /\ next[r] = 0

ProcessOK(r) ==
  \/ Gone(r)
  \/ \E p \in {Program[service], Job} : \E n \in 1 .. Len(p) :
       todo[r] = SubSeq(p, n, Len(p)) /\ AtStep(r, p, n)

SchemaOK ==
  /\ Len(schema) <= Last /\ \A n \in DOMAIN schema : schema[n] = n
  /\ \A r \in Replica : next[r] # 0 => locker = r /\ next[r] = Len(schema) + 1

ProcessIInv == ProcessTypeOK /\ SchemaOK /\ \A r \in Replica : ProcessOK(r)

\* The steps of the programs.
Steps == {Do(what) : what \in {"migrate", "bootstrap", "serve", "drain", "stop", "wait", "return"}}
         \cup {Open(what) : what \in Resource} \cup {Close(what) : what \in Resource}
         \cup {Go(w) : w \in Worker}

\* What a program is made of.
LEMMA StepsAre ==
  /\ \A k \in {"migrate", "bootstrap", "serve", "drain", "stop", "wait", "return"} : Do(k) \in Steps
  /\ \A x \in Resource : Open(x) \in Steps /\ Close(x) \in Steps
  /\ \A w \in Worker : Go(w) \in Steps
BY DEF Steps

\* identity-service opens, starts, stops and closes in order.
LEMMA IdentityOrdered ==
  /\ Identity \in Seq(Steps) /\ Identity # Job /\ WellOrdered(Identity)
<1> DEFINE p == Identity
<1>1. /\ Len(p) = 14 /\ p[14][1] = "return"
      /\ p[1][1] = "open" /\ p[1][2] = "database" /\ p[2][1] = "migrate"
      /\ p[3][1] = "open" /\ p[3][2] = "producer" /\ p[4][1] = "open"
      /\ p[5][1] = "bootstrap" /\ p[6][1] = "go" /\ p[6][2] = "relay" /\ p[7][1] = "serve"
      /\ p[8][1] = "drain" /\ p[9][1] = "stop" /\ p[10][1] = "wait"
  BY DEF Identity, Open, Close, Do, Go
<1>2. \A n \in 11 .. 13 : p[n][1] = "close"
  BY DEF Identity, Open, Close, Do, Go
<1>3. p \in Seq(Steps)
  BY StepsAre DEF Identity, Resource, Worker
<1>4. Len(Job) = 4
  BY DEF Job, Open, Close, Do
<1> HIDE DEF p
<1>5. ASSUME NEW n \in 1 .. 14
      PROVE  /\ p[n][1] = "open" <=> n \in {1, 3, 4}
             /\ p[n][1] = "go" <=> n = 6
             /\ p[n][1] = "serve" <=> n = 7
             /\ p[n][1] = "drain" <=> n = 7 + 1
             /\ p[n][1] = "stop" <=> n = 7 + 2
             /\ p[n][1] = "wait" <=> n = 7 + 3
             /\ p[n][1] = "close" => n > 7 + 3
             /\ p[n][1] = "migrate" <=> n = 2
             /\ p[n][1] = "return" <=> n = 14
  BY <1>1, <1>2
<1>6. p # Job
  BY <1>1, <1>4
<1>7. /\ Uses("relay") = {"database", "producer"} /\ Uses("consumer") = {"database", "consumer"}
      /\ "relay" \in Worker /\ "consumer" \in Worker
  BY DEF Uses, Worker
<1>8. ASSUME NEW n \in 1 .. 14, n >= 6
      PROVE  Did(p, n, "migrate") /\ DidTo(p, n, "open", "database") /\ DidTo(p, n, "open", "producer")
  <2>1. 1 \in 1 .. n - 1 /\ 2 \in 1 .. n - 1 /\ 3 \in 1 .. n - 1
    BY <1>8
  <2> QED
    BY <2>1, <1>1 DEF Did, DidTo
<1>9. ASSUME NEW n \in 1 .. 14
      PROVE  /\ Did(p, n, "wait") <=> n > 7 + 3
             /\ Did(p, n, "drain") <=> n > 7 + 1
  BY <1>5, <1>1 DEF Did
<1>10. DidTo(p, 7, "go", "relay")
  BY <1>1 DEF DidTo
<1>11. WellOrdered(p)
  BY <1>1, <1>5, <1>6, <1>7, <1>8, <1>9, <1>10 DEF WellOrdered
<1> QED
  BY <1>3, <1>6, <1>11 DEF p

\* So do vehicle-service and customer-service, which have the same program.
LEMMA VehicleOrdered ==
  /\ Vehicle \in Seq(Steps) /\ Vehicle # Job /\ WellOrdered(Vehicle)
<1> DEFINE p == Vehicle
<1>1. /\ Len(p) = 16 /\ p[16][1] = "return"
      /\ p[1][1] = "open" /\ p[1][2] = "database" /\ p[2][1] = "migrate"
      /\ p[3][1] = "open" /\ p[3][2] = "producer" /\ p[4][1] = "open"
      /\ p[5][1] = "go" /\ p[5][2] = "relay" /\ p[6][1] = "open" /\ p[6][2] = "consumer"
      /\ p[7][1] = "go" /\ p[7][2] = "consumer" /\ p[8][1] = "serve"
      /\ p[9][1] = "drain" /\ p[10][1] = "stop" /\ p[11][1] = "wait"
  BY DEF Vehicle, Open, Close, Do, Go
<1>2. \A n \in 12 .. 15 : p[n][1] = "close"
  BY DEF Vehicle, Open, Close, Do, Go
<1>3. p \in Seq(Steps)
  BY StepsAre DEF Vehicle, Resource, Worker
<1>4. Len(Job) = 4
  BY DEF Job, Open, Close, Do
<1> HIDE DEF p
<1>5. ASSUME NEW n \in 1 .. 16
      PROVE  /\ p[n][1] = "open" <=> n \in {1, 3, 4, 6}
             /\ p[n][1] = "go" <=> n \in {5, 7}
             /\ p[n][1] = "serve" <=> n = 8
             /\ p[n][1] = "drain" <=> n = 8 + 1
             /\ p[n][1] = "stop" <=> n = 8 + 2
             /\ p[n][1] = "wait" <=> n = 8 + 3
             /\ p[n][1] = "close" => n > 8 + 3
             /\ p[n][1] = "migrate" <=> n = 2
             /\ p[n][1] = "return" <=> n = 16
  BY <1>1, <1>2
<1>6. p # Job
  BY <1>1, <1>4
<1>7. /\ Uses("relay") = {"database", "producer"} /\ Uses("consumer") = {"database", "consumer"}
      /\ "relay" \in Worker /\ "consumer" \in Worker
  BY DEF Uses, Worker
<1>8. ASSUME NEW n \in 1 .. 16, n >= 5
      PROVE  Did(p, n, "migrate") /\ DidTo(p, n, "open", "database") /\ DidTo(p, n, "open", "producer")
  <2>1. 1 \in 1 .. n - 1 /\ 2 \in 1 .. n - 1 /\ 3 \in 1 .. n - 1
    BY <1>8
  <2> QED
    BY <2>1, <1>1 DEF Did, DidTo
<1>9. ASSUME NEW n \in 1 .. 16
      PROVE  /\ Did(p, n, "wait") <=> n > 8 + 3
             /\ Did(p, n, "drain") <=> n > 8 + 1
  BY <1>5, <1>1 DEF Did
<1>10. DidTo(p, 8, "go", "relay") /\ DidTo(p, 7, "open", "consumer")
  BY <1>1 DEF DidTo
<1>11. WellOrdered(p)
  BY <1>1, <1>5, <1>6, <1>7, <1>8, <1>9, <1>10 DEF WellOrdered
<1> QED
  BY <1>3, <1>6, <1>11 DEF p

\* So does scheduler-service.
LEMMA SchedulerOrdered ==
  /\ Scheduler \in Seq(Steps) /\ Scheduler # Job /\ WellOrdered(Scheduler)
<1> DEFINE p == Scheduler
<1>1. /\ Len(p) = 11 /\ p[11][1] = "return"
      /\ p[1][1] = "open" /\ p[1][2] = "database" /\ p[2][1] = "migrate"
      /\ p[3][1] = "open" /\ p[3][2] = "producer"
      /\ p[4][1] = "go" /\ p[4][2] = "relay" /\ p[5][1] = "serve"
      /\ p[6][1] = "drain" /\ p[7][1] = "stop" /\ p[8][1] = "wait"
  BY DEF Scheduler, Open, Close, Do, Go
<1>2. \A n \in 9 .. 10 : p[n][1] = "close"
  BY DEF Scheduler, Open, Close, Do, Go
<1>3. p \in Seq(Steps)
  BY StepsAre DEF Scheduler, Resource, Worker
<1>4. Len(Job) = 4
  BY DEF Job, Open, Close, Do
<1> HIDE DEF p
<1>5. ASSUME NEW n \in 1 .. 11
      PROVE  /\ p[n][1] = "open" <=> n \in {1, 3}
             /\ p[n][1] = "go" <=> n = 4
             /\ p[n][1] = "serve" <=> n = 5
             /\ p[n][1] = "drain" <=> n = 5 + 1
             /\ p[n][1] = "stop" <=> n = 5 + 2
             /\ p[n][1] = "wait" <=> n = 5 + 3
             /\ p[n][1] = "close" => n > 5 + 3
             /\ p[n][1] = "migrate" <=> n = 2
             /\ p[n][1] = "return" <=> n = 11
  BY <1>1, <1>2
<1>6. p # Job
  BY <1>1, <1>4
<1>7. /\ Uses("relay") = {"database", "producer"} /\ Uses("consumer") = {"database", "consumer"}
      /\ "relay" \in Worker /\ "consumer" \in Worker
  BY DEF Uses, Worker
<1>8. ASSUME NEW n \in 1 .. 11, n >= 4
      PROVE  Did(p, n, "migrate") /\ DidTo(p, n, "open", "database") /\ DidTo(p, n, "open", "producer")
  <2>1. 1 \in 1 .. n - 1 /\ 2 \in 1 .. n - 1 /\ 3 \in 1 .. n - 1
    BY <1>8
  <2> QED
    BY <2>1, <1>1 DEF Did, DidTo
<1>9. ASSUME NEW n \in 1 .. 11
      PROVE  /\ Did(p, n, "wait") <=> n > 5 + 3
             /\ Did(p, n, "drain") <=> n > 5 + 1
  BY <1>5, <1>1 DEF Did
<1>10. DidTo(p, 5, "go", "relay")
  BY <1>1 DEF DidTo
<1>11. WellOrdered(p)
  BY <1>1, <1>5, <1>6, <1>7, <1>8, <1>9, <1>10 DEF WellOrdered
<1> QED
  BY <1>3, <1>6, <1>11 DEF p

\* cmd/migrate starts no worker and serves no request.
LEMMA JobOrdered == Job \in Seq(Steps) /\ WellOrdered(Job)
<1>1. /\ Len(Job) = 4 /\ Job[1][1] = "open" /\ Job[2][1] = "migrate"
      /\ Job[3][1] = "close" /\ Job[4][1] = "return"
  BY DEF Job, Open, Close, Do
<1>2. Job \in Seq(Steps)
  BY StepsAre DEF Job, Resource
<1>3. \A n \in 1 .. 4 : n = 1 \/ n = 2 \/ n = 3 \/ n = 4
  OBVIOUS
<1>4. WellOrdered(Job)
  BY <1>1, <1>3 DEF WellOrdered
<1> QED
  BY <1>2, <1>4

\* Whatever a process runs is well ordered.
LEMMA ProgramsOrdered ==
  ASSUME ProcessTypeOK, NEW p \in {Program[service], Job}
  PROVE  p \in Seq(Steps) /\ WellOrdered(p)
<1>1. service \in {"identity", "vehicle", "customer", "scheduler"}
  BY LifecycleAssumption DEF ProcessTypeOK, Program
<1>2. Program[service] \in {Identity, Vehicle, Scheduler}
  BY <1>1 DEF Program, Customer
<1> QED
  BY <1>2, IdentityOrdered, VehicleOrdered, SchedulerOrdered, JobOrdered

\* One step on, a main goroutine has done one thing more.
LEMMA DidNext ==
  ASSUME NEW p, NEW n \in Nat \ {0}
  PROVE  /\ \A kind : Did(p, n + 1, kind) <=> Did(p, n, kind) \/ p[n][1] = kind
         /\ \A kind, what : DidTo(p, n + 1, kind, what)
              <=> DidTo(p, n, kind, what) \/ (p[n][1] = kind /\ p[n][2] = what)
<1>1. \A m : m \in 1 .. (n + 1) - 1 <=> m \in 1 .. n - 1 \/ m = n
  OBVIOUS
<1> QED
  BY <1>1 DEF Did, DidTo

\* Where a running process is, and what is left of its program.
LEMMA Position ==
  ASSUME ProcessIInv, NEW r \in Replica, Running(r) \/ ~Gone(r)
  PROVE  \E p \in {Program[service], Job} : \E n \in 1 .. Len(p) :
           /\ Running(r) /\ p \in Seq(Steps) /\ WellOrdered(p) /\ AtStep(r, p, n)
           /\ todo[r] = SubSeq(p, n, Len(p))
           /\ n \in Nat \ {0} /\ Head(todo[r]) = p[n]
           /\ n < Len(p) => n + 1 \in 1 .. Len(p) /\ Tail(todo[r]) = SubSeq(p, n + 1, Len(p))
<1>1. ProcessOK(r) /\ ~Gone(r)
  BY DEF ProcessIInv, Running, Gone
<1>2. PICK p \in {Program[service], Job} : \E n \in 1 .. Len(p) :
        todo[r] = SubSeq(p, n, Len(p)) /\ AtStep(r, p, n)
  BY <1>1 DEF ProcessOK
<1>3. PICK n \in 1 .. Len(p) : todo[r] = SubSeq(p, n, Len(p)) /\ AtStep(r, p, n)
  BY <1>2
<1>4. p \in Seq(Steps) /\ WellOrdered(p)
  BY ProgramsOrdered DEF ProcessIInv
<1>5. Len(p) \in Nat /\ n \in Nat \ {0} /\ n <= Len(p)
  BY <1>4, LenProperties
<1> DEFINE t == SubSeq(p, n, Len(p))
<1>6. /\ t \in Seq(Steps) /\ Len(t) = Len(p) - n + 1
      /\ \A i \in 1 .. Len(p) - n + 1 : t[i] = p[n + i - 1]
  BY <1>4, <1>5, SubSeqProperties
<1>7. t # <<>> /\ Head(t) = t[1] /\ t[1] = p[n]
  <2>1. Len(t) \in Nat \ {0} /\ 1 \in 1 .. Len(p) - n + 1 /\ n + 1 - 1 = n
    BY <1>5, <1>6
  <2>2. t[1] = p[n]
    BY <2>1, <1>6
  <2> HIDE DEF t
  <2>3. t # <<>>
    BY <2>1, EmptySeq
  <2> QED
    BY <2>2, <2>3, <1>6, HeadTailProperties
<1>8. ASSUME n < Len(p)
      PROVE  n + 1 \in 1 .. Len(p) /\ Tail(t) = SubSeq(p, n + 1, Len(p))
  <2>1. n + 1 \in 1 .. Len(p)
    BY <1>5, <1>8
  <2>2. /\ Tail(t) \in Seq(Steps) /\ Len(Tail(t)) = Len(p) - n
        /\ \A i \in 1 .. Len(p) - n : Tail(t)[i] = t[i + 1]
    BY <1>5, <1>6, <1>7, HeadTailProperties
  <2>3. /\ SubSeq(p, n + 1, Len(p)) \in Seq(Steps) /\ Len(SubSeq(p, n + 1, Len(p))) = Len(p) - n
        /\ \A i \in 1 .. Len(p) - n : SubSeq(p, n + 1, Len(p))[i] = p[n + i]
    BY <1>4, <1>5, <2>1, SubSeqProperties
  <2>4. ASSUME NEW i \in 1 .. Len(p) - n PROVE Tail(t)[i] = SubSeq(p, n + 1, Len(p))[i]
    <3>1. i + 1 \in 1 .. Len(p) - n + 1 /\ n + (i + 1) - 1 = n + i
      BY <1>5
    <3>2. t[i + 1] = p[n + i]
      BY <3>1, <1>6
    <3> HIDE DEF t
    <3> QED
      BY <3>2, <2>2, <2>3
  <2>5. Tail(t) = SubSeq(p, n + 1, Len(p))
    <3> HIDE DEF t
    <3> QED
      BY <2>2, <2>3, <2>4, SeqEqual
  <2> QED
    BY <2>1, <2>5
<1> QED
  BY <1>3, <1>4, <1>5, <1>7, <1>8 DEF Running

\* A process the step is not about stays as it was.
Keeps(s) ==
  /\ todo'[s] = todo[s] /\ open'[s] = open[s] /\ working'[s] = working[s]
  /\ requests'[s] = requests[s] /\ next'[s] = next[s]
  /\ (s \in cancelled' <=> s \in cancelled) /\ (s \in late' <=> s \in late)

\* The schema a process waits for stays complete, unless it is rolled back.
SchemaStays ==
  /\ service' = service /\ auto' = auto
  /\ ~rolledBack' => ~rolledBack /\ (Len(schema) = Last => Len(schema') = Last)

\* Nor is anything different for it.
LEMMA KeptOK ==
  ASSUME NEW s \in Replica, ProcessOK(s), Keeps(s), SchemaStays
  PROVE  ProcessOK(s)'
<1>1. CASE Gone(s)
  BY <1>1 DEF ProcessOK, Gone, Keeps
<1>2. ASSUME NEW p \in {Program[service], Job}, NEW n \in 1 .. Len(p),
             todo[s] = SubSeq(p, n, Len(p)), AtStep(s, p, n)
      PROVE  ProcessOK(s)'
  <2>1. Migrating(s) => Migrating(s)'
    BY DEF Migrating, At, Running, Keeps, SchemaStays
  <2>2. AtStep(s, p, n)'
    BY <1>2, <2>1 DEF AtStep, Keeps, SchemaStays
  <2>3. todo'[s] = SubSeq(p, n, Len(p)) /\ p \in {Program[service'], Job}
    BY <1>2 DEF Keeps, SchemaStays
  <2> QED
    BY <2>2, <2>3 DEF ProcessOK
<1> QED
  BY <1>1, <1>2 DEF ProcessOK

\* A main goroutine goes on to its next step.
LEMMA Advance ==
  ASSUME ProcessTypeOK, NEW r \in Replica, NEW p \in {Program[service], Job}, NEW n \in Nat,
         n + 1 \in 1 .. Len(p), Tail(todo[r]) = SubSeq(p, n + 1, Len(p)),
         Proceed(r), service' = service, AtStep(r, p, n + 1)'
  PROVE  ProcessOK(r)' /\ \A s \in Replica \ {r} : todo'[s] = todo[s]
<1>1. todo' = [todo EXCEPT ![r] = Tail(@)]
  BY DEF Proceed
<1> QED
  BY <1>1 DEF ProcessOK, ProcessTypeOK

\* A step of r's main goroutine by which it goes on: what it does to r's state
\* depends on the step's kind.
GoesOn(r, kind, what) ==
  /\ Running(r) /\ Head(todo[r])[1] = kind /\ kind # "return"
  /\ kind \in {"open", "go"} => Head(todo[r])[2] = what
  /\ Proceed(r)
  /\ UNCHANGED <<service, auto, schema, rolledBack>>
  /\ next[r] = 0 \/ (kind = "migrate" /\ next[r] > Last)
  /\ next'[r] = 0
  /\ kind = "migrate" => ~auto \/ next[r] > Last
  /\ kind # "close" => open[r] \subseteq open'[r] /\ (kind = "open" => what \in open'[r])
  /\ working'[r] = IF kind = "go" THEN working[r] \cup {what} ELSE working[r]
  /\ kind = "wait" => working[r] = {}
  /\ r \in cancelled' <=> r \in cancelled \/ kind = "stop"
  /\ requests'[r] = requests[r] /\ (r \in late => r \in late')
  /\ kind = "drain" /\ requests[r] > 0 => r \in late'
  /\ \A s \in Replica \ {r} :
       /\ open'[s] = open[s] /\ working'[s] = working[s] /\ requests'[s] = requests[s]
       /\ next'[s] = next[s] /\ (s \in cancelled' <=> s \in cancelled) /\ (s \in late' <=> s \in late)

\* It keeps every process in order.
LEMMA GoesOnOK ==
  ASSUME ProcessIInv, NEW r \in Replica, NEW kind, NEW what, GoesOn(r, kind, what)
  PROVE  \A s \in Replica : ProcessOK(s)'
<1>1. ProcessTypeOK /\ SchemaOK /\ \A s \in Replica : ProcessOK(s)
  BY DEF ProcessIInv
<1>2. PICK p \in {Program[service], Job} : \E n \in 1 .. Len(p) :
        /\ p \in Seq(Steps) /\ WellOrdered(p) /\ AtStep(r, p, n)
        /\ todo[r] = SubSeq(p, n, Len(p))
        /\ n \in Nat \ {0} /\ Head(todo[r]) = p[n]
        /\ n < Len(p) => n + 1 \in 1 .. Len(p) /\ Tail(todo[r]) = SubSeq(p, n + 1, Len(p))
  BY Position DEF GoesOn
<1>3. PICK n \in 1 .. Len(p) :
        /\ p \in Seq(Steps) /\ WellOrdered(p) /\ AtStep(r, p, n)
        /\ todo[r] = SubSeq(p, n, Len(p))
        /\ n \in Nat \ {0} /\ Head(todo[r]) = p[n]
        /\ n < Len(p) => n + 1 \in 1 .. Len(p) /\ Tail(todo[r]) = SubSeq(p, n + 1, Len(p))
  BY <1>2
<1>4. p[n][1] = kind /\ (kind \in {"open", "go"} => p[n][2] = what)
  BY <1>3 DEF GoesOn
<1>5. n + 1 \in 1 .. Len(p) /\ Tail(todo[r]) = SubSeq(p, n + 1, Len(p)) /\ n \in Nat
  BY <1>3, <1>4 DEF WellOrdered, GoesOn
<1>6. /\ \A k : Did(p, n + 1, k) <=> Did(p, n, k) \/ kind = k
      /\ \A k \in {"open", "go"} : \A x :
           DidTo(p, n + 1, k, x) <=> DidTo(p, n, k, x) \/ (kind = k /\ what = x)
  BY <1>3, <1>4, DidNext
<1>7. auto /\ kind = "migrate" => Len(schema) = Last
  <2> SUFFICES ASSUME auto, kind = "migrate" PROVE Len(schema) = Last
    OBVIOUS
  <2>1. next[r] > Last /\ next[r] \in Nat /\ Last \in Nat
    BY <1>1, LifecycleAssumption DEF GoesOn, ProcessTypeOK
  <2>2. next[r] = Len(schema) + 1 /\ Len(schema) <= Last /\ Len(schema) \in Nat
    BY <1>1, <2>1, LenProperties, LifecycleAssumption DEF SchemaOK, ProcessTypeOK
  <2> QED
    BY <2>1, <2>2
<1>8. AtStep(r, p, n + 1)'
  <2>1. (p # Job /\ ~Did(p, n + 1, "wait") =>
          \A x \in Resource : DidTo(p, n + 1, "open", x) => x \in open[r])'
    <3>1. p # Job /\ ~Did(p, n + 1, "wait") =>
            ~Did(p, n, "wait") /\ kind # "close"
            /\ \A x \in Resource : DidTo(p, n + 1, "open", x) => x \in open[r] \/ (kind = "open" /\ what = x)
      BY <1>3, <1>4, <1>6 DEF AtStep, WellOrdered
    <3>2. p # Job /\ ~Did(p, n + 1, "wait") =>
            \A x \in Resource : DidTo(p, n + 1, "open", x) => x \in open'[r]
      BY <3>1 DEF GoesOn
    <3> QED
      BY <3>2 DEF Did, DidTo
  <2>2. (\A w \in working[r] : DidTo(p, n + 1, "go", w))'
    <3>1. \A w \in working'[r] : DidTo(p, n + 1, "go", w)
      BY <1>3, <1>6 DEF AtStep, GoesOn
    <3> QED
      BY <3>1 DEF DidTo
  <2>3. (Did(p, n + 1, "wait") => working[r] = {})'
    <3>1. Did(p, n + 1, "wait") => working'[r] = {}
      BY <1>3, <1>4, <1>6 DEF AtStep, GoesOn, WellOrdered
    <3> QED
      BY <3>1 DEF Did
  <2>4. (r \in cancelled <=> Did(p, n + 1, "stop"))'
    <3>1. r \in cancelled' <=> Did(p, n + 1, "stop")
      BY <1>3, <1>6 DEF AtStep, GoesOn
    <3> QED
      BY <3>1 DEF Did
  <2>5. (r \notin cancelled => \A w \in Worker : DidTo(p, n + 1, "go", w) => w \in working[r])'
    <3>1. r \notin cancelled' => \A w \in Worker : DidTo(p, n + 1, "go", w) => w \in working'[r]
      BY <1>3, <1>6 DEF AtStep, GoesOn
    <3> QED
      BY <3>1 DEF DidTo
  <2>6. (requests[r] > 0 => (Did(p, n + 1, "serve") \/ p[n + 1][1] = "serve")
                            /\ (Did(p, n + 1, "drain") => r \in late))'
    <3>1. requests[r] > 0 => Did(p, n + 1, "serve") /\ (Did(p, n + 1, "drain") => r \in late')
      BY <1>3, <1>4, <1>6 DEF AtStep, GoesOn
    <3>2. requests'[r] = requests[r]
      BY DEF GoesOn
    <3> QED
      BY <3>1, <3>2 DEF Did
  <2>7. (next[r] # 0 => Migrating(r))'
    BY DEF GoesOn
  <2>8. (auto /\ ~rolledBack /\ p # Job /\ Did(p, n + 1, "migrate") => Len(schema) = Last)'
    <3>1. auto /\ ~rolledBack /\ p # Job /\ Did(p, n + 1, "migrate") => Len(schema) = Last
      BY <1>3, <1>6, <1>7 DEF AtStep
    <3> QED
      BY <3>1 DEF Did, GoesOn
  <2> QED
    BY <2>1, <2>2, <2>3, <2>4, <2>5, <2>6, <2>7, <2>8 DEF AtStep
<1>9. ProcessOK(r)' /\ \A s \in Replica \ {r} : todo'[s] = todo[s]
  BY <1>1, <1>5, <1>8, Advance DEF GoesOn
<1>10. ASSUME NEW s \in Replica \ {r} PROVE ProcessOK(s)'
  <2>1. Keeps(s) /\ SchemaStays
    BY <1>9 DEF Keeps, SchemaStays, GoesOn
  <2> QED
    BY <2>1, <1>1, KeptOK
<1> QED
  BY <1>9, <1>10

\* The types of everything but what is left of the programs.
OtherTypesOK ==
  /\ service \in Service /\ auto \in BOOLEAN /\ starts \in 0 .. MaxStarts
  /\ DOMAIN todo = Replica
  /\ open \in [Replica -> SUBSET Resource]
  /\ working \in [Replica -> SUBSET Worker]
  /\ requests \in [Replica -> 0 .. MaxRequests]
  /\ signalled \subseteq Replica /\ cancelled \subseteq Replica /\ late \subseteq Replica
  /\ schema \in Seq(1 .. Last)
  /\ locker \in Replica \cup {NoReplica}
  /\ next \in [Replica -> 0 .. Last + 1]
  /\ rolledBack \in BOOLEAN

\* What is left of a program is the end of one.
LEMMA TypesOK == OtherTypesOK /\ (\A s \in Replica : ProcessOK(s)) => ProcessTypeOK
<1> SUFFICES ASSUME OtherTypesOK, \A s \in Replica : ProcessOK(s) PROVE ProcessTypeOK
  OBVIOUS
<1>1. ASSUME NEW s \in Replica
      PROVE  \E p \in {Program[service], Job} : \E n \in 1 .. Len(p) + 1 :
               todo[s] = SubSeq(p, n, Len(p))
  <2>1. CASE Gone(s)
    <3>1. Job \in Seq(Steps) /\ Len(Job) \in Nat
      BY JobOrdered, LenProperties
    <3>2. Len(Job) + 1 \in 1 .. Len(Job) + 1 /\ Len(Job) \in Len(Job) .. Len(Job)
      BY <3>1
    <3>3. SubSeq(Job, Len(Job) + 1, Len(Job)) = <<>>
      BY <3>1
    <3> QED
      BY <2>1, <3>2, <3>3 DEF Gone
  <2>2. CASE ~Gone(s)
    <3>1. PICK p \in {Program[service], Job} : \E n \in 1 .. Len(p) :
            todo[s] = SubSeq(p, n, Len(p)) /\ AtStep(s, p, n)
      BY <2>2 DEF ProcessOK
    <3>2. PICK n \in 1 .. Len(p) : todo[s] = SubSeq(p, n, Len(p))
      BY <3>1
    <3>3. Len(p) \in Nat
      <4>1. service \in {"identity", "vehicle", "customer", "scheduler"}
        BY LifecycleAssumption DEF OtherTypesOK, Program
      <4>2. Program[service] \in {Identity, Vehicle, Scheduler}
        BY <4>1 DEF Program, Customer
      <4> QED
        BY <4>2, IdentityOrdered, VehicleOrdered, SchedulerOrdered, JobOrdered, LenProperties
    <3>4. n \in 1 .. Len(p) + 1
      BY <3>3
    <3> QED
      BY <3>2, <3>4
  <2> QED
    BY <2>1, <2>2
<1> QED
  BY <1>1 DEF OtherTypesOK, ProcessTypeOK

\* So it is in the next state.
LEMMA InvariantNext ==
  OtherTypesOK' /\ SchemaOK' /\ (\A s \in Replica : ProcessOK(s)') => ProcessIInv'
<1>1. (OtherTypesOK /\ SchemaOK /\ \A s \in Replica : ProcessOK(s)) => ProcessIInv
  BY TypesOK DEF ProcessIInv
<1>2. ((OtherTypesOK /\ SchemaOK /\ \A s \in Replica : ProcessOK(s)) => ProcessIInv)'
  BY <1>1, PTL
<1> QED
  BY <1>2

\* The steps by which a main goroutine goes on and migrates nothing.
LEMMA PlainStep ==
  ASSUME ProcessIInv, NEW r \in Replica,
         \/ OpenDatabase(r) \/ OpenProducer(r) \/ OpenCache(r) \/ OpenConsumer(r)
         \/ Bootstrap(r) \/ GoWorker(r) \/ MigrateSkip(r) \/ LeaveServing(r)
         \/ Drain(r) \/ StopWorkers(r) \/ Wait(r) \/ CloseOne(r)
  PROVE  ProcessIInv'
<1>1. ProcessTypeOK /\ SchemaOK /\ \A s \in Replica : ProcessOK(s)
  BY DEF ProcessIInv
<1>2. /\ schema' = schema /\ locker' = locker /\ next' = next /\ rolledBack' = rolledBack
      /\ service' = service /\ auto' = auto /\ starts' = starts /\ signalled' = signalled
      /\ requests' = requests /\ Proceed(r) /\ Running(r)
  BY DEF OpenDatabase, OpenProducer, OpenCache, OpenConsumer, Connect, Bootstrap, GoWorker,
         MigrateSkip, LeaveServing, Drain, StopWorkers, Wait, CloseOne, database, At, AtOne
<1>3. SchemaOK'
  BY <1>1, <1>2 DEF SchemaOK
<1>4. DOMAIN todo' = Replica
  BY <1>1, <1>2 DEF Proceed, ProcessTypeOK
<1>5. ASSUME ~Migrating(r) PROVE next[r] = 0
  <2>1. PICK p \in {Program[service], Job} : \E n \in 1 .. Len(p) : AtStep(r, p, n)
    BY <1>2, Position
  <2> QED
    BY <2>1, <1>5 DEF AtStep
<1>6. /\ Open("database")[1] = "open" /\ Open("database")[2] = "database"
      /\ \A x : Open(x)[1] = "open" /\ Open(x)[2] = x
      /\ \A x : Do(x)[1] = x
  BY DEF Open, Do
<1>7. ASSUME NEW x \in Resource, Connect(r, x) PROVE ProcessIInv'
  <2>1. GoesOn(r, "open", x)
    <3>1. Head(todo[r])[1] = "open" /\ Head(todo[r])[2] = x /\ ~Migrating(r)
      BY <1>6, <1>7 DEF Connect, At, Migrating
    <3>2. open' = [open EXCEPT ![r] = @ \cup {x}]
      BY <1>7 DEF Connect
    <3> QED
      BY <3>1, <3>2, <1>1, <1>2, <1>5, <1>7 DEF Connect, GoesOn, ProcessTypeOK
  <2>2. OtherTypesOK'
    BY <1>1, <1>2, <1>4, <1>7 DEF Connect, OtherTypesOK, ProcessTypeOK
  <2> QED
    BY <2>1, <2>2, <1>3, GoesOnOK, InvariantNext
<1>8. CASE Bootstrap(r) \/ MigrateSkip(r) \/ LeaveServing(r)
  <2>0. MigrateSkip(r) => ~Migrating(r)
    <3>1. ~(3 > 3)
      OBVIOUS
    <3> QED
      BY <3>1, Zenon DEF MigrateSkip, Migrating
  <2>1. PICK kind \in {"bootstrap", "migrate", "serve"} :
          At(r, Do(kind)) /\ (kind = "migrate" => ~auto) /\ ~Migrating(r)
    BY <2>0, <1>6, <1>8 DEF Bootstrap, MigrateSkip, LeaveServing, At, Migrating
  <2>2. /\ open' = open /\ working' = working /\ cancelled' = cancelled /\ late' = late
    BY <1>8 DEF Bootstrap, MigrateSkip, LeaveServing
  <2>3. GoesOn(r, kind, kind)
    BY <2>1, <2>2, <1>2, <1>5, <1>6 DEF GoesOn, At
  <2>4. OtherTypesOK'
    BY <2>2, <1>1, <1>2, <1>4 DEF OtherTypesOK, ProcessTypeOK
  <2> QED
    BY <2>3, <2>4, <1>3, GoesOnOK, InvariantNext
<1>9. CASE GoWorker(r)
  <2>1. Head(todo[r])[1] = "go" /\ ~Migrating(r)
    BY <1>6, <1>9 DEF GoWorker, AtOne, At, Migrating
  <2>2. PICK w \in Worker : Head(todo[r])[2] = w
    <3>1. PICK p \in {Program[service], Job} : \E n \in 1 .. Len(p) :
            WellOrdered(p) /\ Head(todo[r]) = p[n]
      BY <1>2, Position
    <3> QED
      BY <3>1, <2>1 DEF WellOrdered
  <2>3. /\ working' = [working EXCEPT ![r] = @ \cup {w}]
        /\ open' = open /\ cancelled' = cancelled /\ late' = late
    BY <2>2, <1>9 DEF GoWorker
  <2>4. GoesOn(r, "go", w)
    BY <2>1, <2>2, <2>3, <1>1, <1>2, <1>5 DEF GoesOn, ProcessTypeOK
  <2>5. OtherTypesOK'
    BY <2>3, <1>1, <1>2, <1>4 DEF OtherTypesOK, ProcessTypeOK
  <2> QED
    BY <2>4, <2>5, <1>3, GoesOnOK, InvariantNext
<1>10. CASE Drain(r)
  <2>1. Head(todo[r])[1] = "drain" /\ ~Migrating(r)
    BY <1>6, <1>10 DEF Drain, At, Migrating
  <2>2. /\ late' = (IF requests[r] > 0 THEN late \cup {r} ELSE late)
        /\ open' = open /\ cancelled' = cancelled /\ working' = working
    BY <1>10 DEF Drain
  <2>3. GoesOn(r, "drain", "drain")
    BY <2>1, <2>2, <1>1, <1>2, <1>5 DEF GoesOn, ProcessTypeOK
  <2>4. OtherTypesOK'
    BY <2>2, <1>1, <1>2, <1>4 DEF OtherTypesOK, ProcessTypeOK
  <2> QED
    BY <2>3, <2>4, <1>3, GoesOnOK, InvariantNext
<1>11. CASE StopWorkers(r)
  <2>1. Head(todo[r])[1] = "stop" /\ ~Migrating(r)
    BY <1>6, <1>11 DEF StopWorkers, At, Migrating
  <2>2. /\ cancelled' = cancelled \cup {r}
        /\ open' = open /\ late' = late /\ working' = working
    BY <1>11 DEF StopWorkers
  <2>3. GoesOn(r, "stop", "stop")
    BY <2>1, <2>2, <1>1, <1>2, <1>5 DEF GoesOn, ProcessTypeOK
  <2>4. OtherTypesOK'
    BY <2>2, <1>1, <1>2, <1>4 DEF OtherTypesOK, ProcessTypeOK
  <2> QED
    BY <2>3, <2>4, <1>3, GoesOnOK, InvariantNext
<1>12. CASE Wait(r)
  <2>1. Head(todo[r])[1] = "wait" /\ ~Migrating(r)
    BY <1>6, <1>12 DEF Wait, At, Migrating
  <2>2. /\ working[r] = {} /\ cancelled' = cancelled
        /\ open' = open /\ late' = late /\ working' = working
    BY <1>12 DEF Wait
  <2>3. GoesOn(r, "wait", "wait")
    BY <2>1, <2>2, <1>1, <1>2, <1>5 DEF GoesOn, ProcessTypeOK
  <2>4. OtherTypesOK'
    BY <2>2, <1>1, <1>2, <1>4 DEF OtherTypesOK, ProcessTypeOK
  <2> QED
    BY <2>3, <2>4, <1>3, GoesOnOK, InvariantNext
<1>13. CASE CloseOne(r)
  <2>1. Head(todo[r])[1] = "close" /\ ~Migrating(r)
    BY <1>6, <1>13 DEF CloseOne, AtOne, At, Migrating
  <2>2. /\ open' = [open EXCEPT ![r] = @ \ {Head(todo[r])[2]}]
        /\ cancelled' = cancelled /\ late' = late /\ working' = working
    BY <1>13 DEF CloseOne
  <2>3. GoesOn(r, "close", "close")
    BY <2>1, <2>2, <1>1, <1>2, <1>5 DEF GoesOn, ProcessTypeOK
  <2>4. OtherTypesOK'
    BY <2>2, <1>1, <1>2, <1>4 DEF OtherTypesOK, ProcessTypeOK
  <2> QED
    BY <2>3, <2>4, <1>3, GoesOnOK, InvariantNext
<1> QED
  BY <1>7, <1>8, <1>9, <1>10, <1>11, <1>12, <1>13
     DEF OpenDatabase, OpenProducer, OpenCache, OpenConsumer, Resource

\* A process is gone, with its lock: nothing changes for the others.
LEMMA ExitStep ==
  ASSUME ProcessIInv, NEW r \in Replica, Exit(r)
  PROVE  ProcessIInv'
<1>1. ProcessTypeOK /\ SchemaOK /\ \A s \in Replica : ProcessOK(s)
  BY DEF ProcessIInv
<1>2. /\ todo' = [todo EXCEPT ![r] = <<>>] /\ open' = [open EXCEPT ![r] = {}]
      /\ working' = [working EXCEPT ![r] = {}] /\ requests' = [requests EXCEPT ![r] = 0]
      /\ signalled' = signalled \ {r} /\ cancelled' = cancelled \ {r} /\ late' = late \ {r}
      /\ locker' = (IF locker = r THEN NoReplica ELSE locker)
      /\ next' = [next EXCEPT ![r] = 0]
      /\ service' = service /\ auto' = auto /\ starts' = starts
      /\ schema' = schema /\ rolledBack' = rolledBack
  BY DEF Exit
<1>3. OtherTypesOK'
  <2>1. 0 \in 0 .. MaxRequests /\ 0 \in 0 .. Last + 1
    BY LifecycleAssumption
  <2> QED
    BY <2>1, <1>1, <1>2 DEF ProcessTypeOK, OtherTypesOK
<1>4. SchemaOK'
  BY <1>1, <1>2 DEF SchemaOK, ProcessTypeOK
<1>5. ProcessOK(r)'
  BY <1>1, <1>2 DEF ProcessOK, Gone, ProcessTypeOK
<1>6. ASSUME NEW s \in Replica \ {r} PROVE ProcessOK(s)'
  <2>1. Keeps(s) /\ SchemaStays
    BY <1>1, <1>2 DEF Keeps, SchemaStays, ProcessTypeOK
  <2> QED
    BY <2>1, <1>1, KeptOK
<1> QED
  BY <1>3, <1>4, <1>5, <1>6, InvariantNext

\* A process starts at the first step of its program.
LEMMA StartStep ==
  ASSUME ProcessIInv, NEW r \in Replica, Start(r)
  PROVE  ProcessIInv'
<1>1. ProcessTypeOK /\ SchemaOK /\ \A s \in Replica : ProcessOK(s)
  BY DEF ProcessIInv
<1>2. /\ open' = open /\ working' = working /\ requests' = requests /\ signalled' = signalled
      /\ cancelled' = cancelled /\ late' = late /\ service' = service /\ auto' = auto
      /\ starts' = starts + 1 /\ starts < MaxStarts
      /\ schema' = schema /\ locker' = locker /\ next' = next /\ rolledBack' = rolledBack
      /\ todo[r] = <<>>
  BY DEF Start, database, Running
<1>3. PICK p \in {Program[service], Job} : todo' = [todo EXCEPT ![r] = p]
  BY DEF Start
<1>4. OtherTypesOK'
  BY <1>1, <1>2, <1>3, LifecycleAssumption DEF ProcessTypeOK, OtherTypesOK
<1>5. SchemaOK'
  BY <1>1, <1>2 DEF SchemaOK
<1>6. Gone(r)
  <2>1. ASSUME NEW q \in {Program[service], Job}, NEW n \in 1 .. Len(q),
               todo[r] = SubSeq(q, n, Len(q))
        PROVE  FALSE
    <3>1. q \in Seq(Steps) /\ Len(q) \in Nat /\ n \in Int /\ n <= Len(q) /\ n >= 1
      BY <1>1, ProgramsOrdered, LenProperties
    <3>2. \A i \in n .. Len(q) : q[i] \in Steps
      BY <3>1, ElementOfSeq
    <3>3. Len(SubSeq(q, n, Len(q))) = Len(q) - n + 1
      BY <3>1, <3>2, SubSeqProperties
    <3>4. Len(<<>>) = 0
      OBVIOUS
    <3> QED
      BY <2>1, <3>1, <3>3, <3>4, <1>2
  <2> QED
    BY <2>1, <1>1 DEF ProcessOK
<1>7. p \in Seq(Steps) /\ Len(p) \in Nat /\ 1 \in 1 .. Len(p) /\ SubSeq(p, 1, Len(p)) = p
  <2>1. service \in {"identity", "vehicle", "customer", "scheduler"}
    BY <1>1, LifecycleAssumption DEF ProcessTypeOK, Program
  <2>2. Program[service] \in {Identity, Vehicle, Scheduler}
    BY <2>1 DEF Program, Customer
  <2>3. p \in Seq(Steps) /\ Len(p) \in Nat
    BY <1>1, ProgramsOrdered, LenProperties
  <2>4. Len(p) > 0
    <3>1. Len(Identity) = 14 /\ Len(Vehicle) = 16 /\ Len(Scheduler) = 11 /\ Len(Job) = 4
      BY DEF Identity, Vehicle, Scheduler, Job
    <3>2. p = Identity \/ p = Vehicle \/ p = Scheduler \/ p = Job
      BY <2>2
    <3>3. Len(p) = 14 \/ Len(p) = 16 \/ Len(p) = 11 \/ Len(p) = 4
      BY <3>1, <3>2, Zenon
    <3>4. \A k \in Nat : k = 14 \/ k = 16 \/ k = 11 \/ k = 4 => k > 0
      OBVIOUS
    <3> QED
      BY <3>3, <3>4, <2>3, Zenon
  <2>5. SubSeq(p, 1, Len(p)) = p
    <3>1. \A i \in 1 .. Len(p) : p[i] \in Steps
      BY <2>3, ElementOfSeq
    <3>2. /\ SubSeq(p, 1, Len(p)) \in Seq(Steps) /\ Len(SubSeq(p, 1, Len(p))) = Len(p)
          /\ \A i \in 1 .. Len(p) : SubSeq(p, 1, Len(p))[i] = p[i]
      BY <2>3, <2>4, <3>1, SubSeqProperties
    <3> QED
      BY <2>3, <3>2, SeqEqual
  <2> QED
    BY <2>3, <2>4, <2>5
<1>8. ProcessOK(r)'
  <2>1. \A kind : ~Did(p, 1, kind)
    BY DEF Did
  <2>2. \A kind, what : ~DidTo(p, 1, kind, what)
    BY DEF DidTo
  <2>3. AtStep(r, p, 1)'
    <3>1. AtStep(r, p, 1)
      BY <1>6, <2>1, <2>2 DEF AtStep, Gone
    <3>2. next'[r] = 0
      BY <1>2, <1>6 DEF Gone
    <3> QED
      BY <3>1, <3>2, <1>2 DEF AtStep
  <2>4. todo'[r] = SubSeq(p, 1, Len(p)) /\ p \in {Program[service'], Job}
    BY <1>1, <1>2, <1>3, <1>7 DEF ProcessTypeOK
  <2> QED
    BY <2>3, <2>4, <1>7 DEF ProcessOK
<1>9. ASSUME NEW s \in Replica \ {r} PROVE ProcessOK(s)'
  <2>1. Keeps(s) /\ SchemaStays
    BY <1>1, <1>2, <1>3 DEF Keeps, SchemaStays, ProcessTypeOK
  <2> QED
    BY <2>1, <1>1, KeptOK
<1> QED
  BY <1>4, <1>5, <1>8, <1>9, InvariantNext

\* A signal, a request, an answer and the end of a worker: no main goroutine moves.
LEMMA BesideStep ==
  ASSUME ProcessIInv, NEW r \in Replica,
         Signal(r) \/ Request(r) \/ Respond(r) \/ RelayReturns(r) \/ ConsumerReturns(r)
  PROVE  ProcessIInv'
<1>1. ProcessTypeOK /\ SchemaOK /\ \A s \in Replica : ProcessOK(s)
  BY DEF ProcessIInv
<1>2. /\ todo' = todo /\ open' = open /\ cancelled' = cancelled /\ late' = late
      /\ service' = service /\ auto' = auto /\ starts' = starts
      /\ schema' = schema /\ locker' = locker /\ next' = next /\ rolledBack' = rolledBack
  BY DEF Signal, Request, Respond, RelayReturns, ConsumerReturns, WorkerReturns, database
<1>3. SchemaOK'
  BY <1>1, <1>2 DEF SchemaOK
<1>4. SchemaStays
  BY <1>2 DEF SchemaStays
<1>5. CASE Signal(r)
  <2>1. working' = working /\ requests' = requests /\ signalled' = signalled \cup {r}
    BY <1>5 DEF Signal
  <2>2. OtherTypesOK'
    BY <2>1, <1>1, <1>2 DEF OtherTypesOK, ProcessTypeOK
  <2>3. \A s \in Replica : ProcessOK(s)'
    BY <2>1, <1>1, <1>2, <1>4, KeptOK DEF Keeps
  <2> QED
    BY <2>2, <2>3, <1>3, InvariantNext
<1>6. CASE Request(r) \/ Respond(r)
  <2>1. PICK k \in 0 .. MaxRequests : requests' = [requests EXCEPT ![r] = k]
    BY <1>1, <1>6, LifecycleAssumption DEF Request, Respond, ProcessTypeOK
  <2>2. working' = working /\ signalled' = signalled
    BY <1>6 DEF Request, Respond
  <2>3. OtherTypesOK'
    BY <2>1, <2>2, <1>1, <1>2 DEF OtherTypesOK, ProcessTypeOK
  <2>4. ~Gone(r) \/ Running(r)
    BY <1>6, <1>1 DEF Request, Respond, At, Gone, ProcessTypeOK
  <2>5. PICK p \in {Program[service], Job} : \E n \in 1 .. Len(p) :
          /\ WellOrdered(p) /\ AtStep(r, p, n)
          /\ todo[r] = SubSeq(p, n, Len(p)) /\ Head(todo[r]) = p[n]
    BY <2>4, Position
  <2>6. PICK n \in 1 .. Len(p) :
          /\ WellOrdered(p) /\ AtStep(r, p, n)
          /\ todo[r] = SubSeq(p, n, Len(p)) /\ Head(todo[r]) = p[n]
    BY <2>5
  <2>7. requests'[r] > 0 =>
          (Did(p, n, "serve") \/ p[n][1] = "serve") /\ (Did(p, n, "drain") => r \in late)
    <3>1. CASE Request(r)
      <4>1. p[n][1] = "serve"
        BY <2>6, <3>1 DEF Request, At, Do
      <4> QED
        BY <4>1, <2>6 DEF WellOrdered
    <3>2. CASE Respond(r)
      <4>1. requests[r] > 0
        BY <3>2 DEF Respond
      <4> QED
        BY <4>1, <2>6 DEF AtStep
    <3> QED
      BY <3>1, <3>2, <1>6
  <2>8. AtStep(r, p, n)'
    <3>1. Migrating(r)' <=> Migrating(r)
      BY <1>2 DEF Migrating, At, Running
    <3> QED
      BY <3>1, <2>2, <2>6, <2>7, <1>2 DEF AtStep
  <2>9. ProcessOK(r)'
    BY <2>6, <2>8, <1>2 DEF ProcessOK
  <2>10. ASSUME NEW s \in Replica \ {r} PROVE ProcessOK(s)'
    <3>1. Keeps(s)
      BY <1>1, <1>2, <2>1, <2>2 DEF Keeps, ProcessTypeOK
    <3> QED
      BY <3>1, <1>1, <1>4, KeptOK
  <2> QED
    BY <2>3, <2>9, <2>10, <1>3, InvariantNext
<1>7. CASE RelayReturns(r) \/ ConsumerReturns(r)
  <2>1. PICK w \in Worker : WorkerReturns(r, w)
    BY <1>7 DEF RelayReturns, ConsumerReturns, Worker
  <2>2. /\ r \in cancelled /\ w \in working[r] /\ working' = [working EXCEPT ![r] = @ \ {w}]
        /\ requests' = requests /\ signalled' = signalled
    BY <2>1 DEF WorkerReturns
  <2>3. OtherTypesOK'
    BY <2>2, <1>1, <1>2 DEF OtherTypesOK, ProcessTypeOK
  <2>4. ~Gone(r)
    BY <2>2 DEF Gone
  <2>5. PICK p \in {Program[service], Job} : \E n \in 1 .. Len(p) :
          AtStep(r, p, n) /\ todo[r] = SubSeq(p, n, Len(p))
    BY <2>4, Position
  <2>6. PICK n \in 1 .. Len(p) : AtStep(r, p, n) /\ todo[r] = SubSeq(p, n, Len(p))
    BY <2>5
  <2>7. AtStep(r, p, n)'
    <3>1. Migrating(r)' <=> Migrating(r)
      BY <1>2 DEF Migrating, At, Running
    <3>2. working'[r] = working[r] \ {w}
      BY <2>2, <1>1 DEF ProcessTypeOK
    <3> QED
      BY <3>1, <3>2, <2>2, <2>6, <1>2 DEF AtStep
  <2>8. ProcessOK(r)'
    BY <2>6, <2>7, <1>2 DEF ProcessOK
  <2>9. ASSUME NEW s \in Replica \ {r} PROVE ProcessOK(s)'
    <3>1. Keeps(s)
      BY <1>1, <1>2, <2>2 DEF Keeps, ProcessTypeOK
    <3> QED
      BY <3>1, <1>1, <1>4, KeptOK
  <2> QED
    BY <2>3, <2>8, <2>9, <1>3, InvariantNext
<1> QED
  BY <1>5, <1>6, <1>7

\* While nobody holds the lock nobody migrates, and while r migrates only r does.
LEMMA OneMigrates ==
  ASSUME SchemaOK, ProcessTypeOK
  PROVE  /\ locker = NoReplica => \A s \in Replica : next[s] = 0
         /\ \A r, s \in Replica : next[r] # 0 /\ next[s] # 0 => r = s
BY LifecycleAssumption DEF SchemaOK, ProcessTypeOK

\* Migrating moves no main goroutine but the one that is done.
LEMMA MigrateStep ==
  ASSUME ProcessIInv, NEW r \in Replica, MigrateLock(r) \/ MigrateApply(r) \/ MigrateDone(r)
  PROVE  ProcessIInv'
<1>1. ProcessTypeOK /\ SchemaOK /\ \A s \in Replica : ProcessOK(s)
  BY DEF ProcessIInv
<1>2. /\ Migrating(r) /\ service' = service /\ auto' = auto /\ rolledBack' = rolledBack
      /\ starts' = starts /\ open' = open /\ working' = working /\ requests' = requests
      /\ signalled' = signalled /\ cancelled' = cancelled /\ late' = late
  BY DEF MigrateLock, MigrateApply, MigrateDone, process
<1>3. /\ Len(schema) \in Nat /\ Len(schema) <= Last /\ Last \in Nat
      /\ schema \in Seq(1 .. Last) /\ \A s \in Replica : next[s] \in Nat
  BY <1>1, LenProperties, LifecycleAssumption DEF ProcessTypeOK, SchemaOK
<1>4. ASSUME todo' = todo, next'[r] # 0, SchemaStays,
             \A s \in Replica \ {r} : next'[s] = next[s]
      PROVE  \A s \in Replica : ProcessOK(s)'
  <2>1. ASSUME NEW s \in Replica \ {r} PROVE ProcessOK(s)'
    <3>1. Keeps(s)
      BY <1>2, <1>4 DEF Keeps
    <3> QED
      BY <3>1, <1>1, <1>4, KeptOK
  <2>2. Running(r)
    BY <1>2 DEF Migrating, At
  <2>3. PICK p \in {Program[service], Job} : \E n \in 1 .. Len(p) :
          AtStep(r, p, n) /\ todo[r] = SubSeq(p, n, Len(p))
    BY <2>2, Position
  <2>4. PICK n \in 1 .. Len(p) : AtStep(r, p, n) /\ todo[r] = SubSeq(p, n, Len(p))
    BY <2>3
  <2>5. Migrating(r)'
    BY <1>2, <1>4 DEF Migrating, At, Running
  <2>6. AtStep(r, p, n)'
    BY <2>4, <2>5, <1>2, <1>4 DEF AtStep, SchemaStays
  <2>7. ProcessOK(r)'
    BY <2>4, <2>6, <1>2, <1>4 DEF ProcessOK
  <2> QED
    BY <2>1, <2>7
<1>5. CASE MigrateLock(r)
  <2>1. /\ locker = NoReplica /\ locker' = r /\ next' = [next EXCEPT ![r] = Len(schema) + 1]
        /\ schema' = schema /\ todo' = todo
    BY <1>5 DEF MigrateLock, process
  <2>2. next'[r] = Len(schema) + 1 /\ \A s \in Replica \ {r} : next'[s] = next[s] /\ next[s] = 0
    BY <2>1, <1>1, OneMigrates DEF ProcessTypeOK
  <2>3. SchemaStays /\ next'[r] # 0
    BY <2>1, <2>2, <1>2, <1>3 DEF SchemaStays
  <2>4. OtherTypesOK'
    <3>1. Len(schema) + 1 \in 0 .. Last + 1
      BY <1>3
    <3> QED
      BY <3>1, <2>1, <1>1, <1>2 DEF OtherTypesOK, ProcessTypeOK
  <2>5. SchemaOK'
    BY <2>1, <2>2, <1>1, <1>3 DEF SchemaOK
  <2> QED
    BY <2>1, <2>2, <2>3, <2>4, <2>5, <1>4, InvariantNext
<1>6. CASE MigrateApply(r)
  <2>1. /\ next[r] \in 1 .. Last /\ schema' = Append(schema, next[r])
        /\ next' = [next EXCEPT ![r] = @ + 1] /\ locker' = locker /\ todo' = todo
    BY <1>6 DEF MigrateApply, process
  <2>2. next[r] = Len(schema) + 1 /\ locker = r /\ next[r] # 0
    BY <2>1, <1>1 DEF SchemaOK
  <2>3. next'[r] = Len(schema) + 2 /\ \A s \in Replica \ {r} : next'[s] = next[s] /\ next[s] = 0
    <3>1. next'[r] = next[r] + 1 /\ \A s \in Replica \ {r} : next'[s] = next[s]
      BY <2>1, <1>1 DEF ProcessTypeOK
    <3>2. \A s \in Replica \ {r} : next[s] = 0
      BY <2>2, <1>1 DEF SchemaOK
    <3> QED
      BY <3>1, <3>2, <2>2, <1>3
  <2>4. /\ schema' \in Seq(1 .. Last) /\ Len(schema') = Len(schema) + 1
        /\ schema'[Len(schema) + 1] = Len(schema) + 1
        /\ \A n \in 1 .. Len(schema) : schema'[n] = schema[n]
    BY <2>1, <2>2, <1>3, AppendProperties
  <2>5. SchemaStays /\ next'[r] # 0
    BY <2>1, <2>2, <2>3, <1>2, <1>3 DEF SchemaStays
  <2>6. OtherTypesOK'
    <3>1. next[r] + 1 \in 0 .. Last + 1
      BY <2>1, <1>3
    <3> QED
      BY <3>1, <2>1, <2>4, <1>1, <1>2 DEF OtherTypesOK, ProcessTypeOK
  <2>7. SchemaOK'
    <3>1. Len(schema') <= Last
      BY <2>1, <2>2, <2>4, <1>3
    <3>2. ASSUME NEW n \in DOMAIN schema' PROVE schema'[n] = n
      <4>1. DOMAIN schema' = 1 .. Len(schema) + 1 /\ DOMAIN schema = 1 .. Len(schema)
        BY <2>4, <1>3, LenProperties
      <4> QED
        BY <4>1, <2>4, <1>1, <1>3 DEF SchemaOK
    <3>3. \A s \in Replica : next'[s] # 0 => locker' = s /\ next'[s] = Len(schema') + 1
      BY <2>1, <2>2, <2>3, <2>4, <1>3
    <3> QED
      BY <3>1, <3>2, <3>3 DEF SchemaOK
  <2> QED
    BY <2>1, <2>3, <2>5, <2>6, <2>7, <1>4, InvariantNext
<1>7. CASE MigrateDone(r)
  <2>1. /\ next[r] > Last /\ next' = [next EXCEPT ![r] = 0] /\ Proceed(r) /\ schema' = schema
        /\ locker' = (IF locker = r THEN NoReplica ELSE locker)
    BY <1>7 DEF MigrateDone
  <2>2. Running(r) /\ Head(todo[r])[1] = "migrate"
    BY <1>2 DEF Migrating, At, Do
  <2>3. next'[r] = 0 /\ \A s \in Replica \ {r} : next'[s] = next[s]
    BY <2>1, <1>1 DEF ProcessTypeOK
  <2>4. GoesOn(r, "migrate", "migrate")
    BY <2>1, <2>2, <2>3, <1>2 DEF GoesOn
  <2>5. OtherTypesOK'
    <3>1. DOMAIN todo' = Replica
      BY <2>1, <1>1 DEF Proceed, ProcessTypeOK
    <3>2. next' \in [Replica -> 0 .. Last + 1]
      BY <2>1, <1>1, <1>3 DEF ProcessTypeOK
    <3> QED
      BY <3>1, <3>2, <2>1, <1>1, <1>2 DEF OtherTypesOK, ProcessTypeOK
  <2>6. SchemaOK'
    BY <2>1, <2>3, <1>1 DEF SchemaOK
  <2> QED
    BY <2>4, <2>5, <2>6, GoesOnOK, InvariantNext
<1> QED
  BY <1>5, <1>6, <1>7

\* Somebody rolls a migration back, which takes the lock that nobody holds.
LEMMA RollBackStep ==
  ASSUME ProcessIInv, RollBack
  PROVE  ProcessIInv'
<1>1. ProcessTypeOK /\ SchemaOK /\ \A s \in Replica : ProcessOK(s)
  BY DEF ProcessIInv
<1>2. /\ locker = NoReplica /\ schema # <<>> /\ rolledBack' = TRUE
      /\ schema' = SubSeq(schema, 1, Len(schema) - 1)
      /\ locker' = locker /\ next' = next /\ service' = service /\ auto' = auto
      /\ starts' = starts /\ todo' = todo /\ open' = open /\ working' = working
      /\ requests' = requests /\ signalled' = signalled /\ cancelled' = cancelled /\ late' = late
  BY DEF RollBack, process
<1>3. /\ schema \in Seq(1 .. Last) /\ Len(schema) \in Nat /\ Len(schema) >= 1
      /\ Len(schema) <= Last /\ Last \in Nat
      /\ DOMAIN schema = 1 .. Len(schema) /\ \A n \in 1 .. Len(schema) : schema[n] \in 1 .. Last
  BY <1>1, <1>2, LenProperties, EmptySeq, ElementOfSeq, LifecycleAssumption DEF ProcessTypeOK, SchemaOK
<1>4. /\ schema' \in Seq(1 .. Last) /\ Len(schema') = Len(schema) - 1
      /\ \A n \in 1 .. Len(schema) - 1 : schema'[n] = schema[n]
  <2>1. \A n \in 1 .. Len(schema) - 1 : schema[n] \in 1 .. Last
    BY <1>3
  <2> QED
    BY <2>1, <1>2, <1>3, SubSeqProperties
<1>5. SchemaOK'
  <2>1. DOMAIN schema' = 1 .. Len(schema) - 1
    BY <1>4, LenProperties
  <2>2. \A s \in Replica : next'[s] = 0
    BY <1>1, <1>2, OneMigrates
  <2>3. ASSUME NEW n \in DOMAIN schema' PROVE schema'[n] = n
    <3>1. n \in 1 .. Len(schema) - 1 /\ n \in 1 .. Len(schema)
      BY <2>1, <1>3
    <3>2. schema'[n] = schema[n] /\ n \in DOMAIN schema
      BY <3>1, <1>3, <1>4
    <3> QED
      BY <3>2, <1>1 DEF SchemaOK
  <2>4. Len(schema') <= Last
    BY <1>3, <1>4
  <2> QED
    BY <2>2, <2>3, <2>4 DEF SchemaOK
<1>6. OtherTypesOK'
  BY <1>1, <1>2, <1>4 DEF OtherTypesOK, ProcessTypeOK
<1>7. \A s \in Replica : ProcessOK(s)'
  <2>1. SchemaStays /\ \A s \in Replica : Keeps(s)
    BY <1>2 DEF SchemaStays, Keeps
  <2> QED
    BY <2>1, <1>1, KeptOK
<1> QED
  BY <1>5, <1>6, <1>7, InvariantNext

\* Nobody runs, and some of the migrations have been applied.
LEMMA ProcessInitInv == ProcessInit => ProcessIInv
<1> SUFFICES ASSUME ProcessInit PROVE ProcessIInv
  OBVIOUS
<1>1. \A s \in Replica : ProcessOK(s)
  BY DEF ProcessInit, ProcessOK, Gone
<1>2. PICK k \in 0 .. Last : schema = SubSeq([n \in 1 .. Last |-> n], 1, k)
  BY DEF ProcessInit
<1>3. k \in Int /\ k >= 0 /\ k <= Last /\ Last \in Nat /\ MaxStarts \in Nat /\ MaxRequests \in Nat
  BY LifecycleAssumption
<1>4. /\ schema \in Seq(1 .. Last) /\ Len(schema) = k
      /\ \A n \in 1 .. k : schema[n] = n
  <2> DEFINE f == [n \in 1 .. Last |-> n]
  <2>1. \A n \in 1 .. k : f[n] = n /\ f[n] \in 1 .. Last
    BY <1>3
  <2> HIDE DEF f
  <2>2. /\ SubSeq(f, 1, k) \in Seq(1 .. Last) /\ Len(SubSeq(f, 1, k)) = IF 1 <= k THEN k - 1 + 1 ELSE 0
        /\ \A n \in 1 .. k - 1 + 1 : SubSeq(f, 1, k)[n] = f[1 + n - 1]
    BY <2>1, <1>3, SubSeqProperties
  <2>3. Len(SubSeq(f, 1, k)) = k /\ \A n \in 1 .. k : SubSeq(f, 1, k)[n] = f[n]
    BY <2>2, <1>3
  <2> QED
    BY <2>1, <2>2, <2>3, <1>2 DEF f
<1>5. SchemaOK
  <2>1. DOMAIN schema = 1 .. k
    BY <1>4, LenProperties
  <2> QED
    BY <2>1, <1>3, <1>4 DEF ProcessInit, SchemaOK
<1>6. OtherTypesOK
  <2>1. schema \in Seq(1 .. Last)
    BY <1>4
  <2>2. /\ starts \in 0 .. MaxStarts /\ requests \in [Replica -> 0 .. MaxRequests]
        /\ next \in [Replica -> 0 .. Last + 1]
    <3>1. 0 \in 0 .. MaxStarts /\ 0 \in 0 .. MaxRequests /\ 0 \in 0 .. Last + 1
      BY <1>3
    <3> QED
      BY <3>1, Zenon DEF ProcessInit
  <2>3. /\ DOMAIN todo = Replica /\ open \in [Replica -> SUBSET Resource]
        /\ working \in [Replica -> SUBSET Worker]
    BY DEF ProcessInit
  <2>4. /\ service \in Service /\ auto \in BOOLEAN /\ rolledBack \in BOOLEAN
        /\ signalled \subseteq Replica /\ cancelled \subseteq Replica /\ late \subseteq Replica
        /\ locker \in Replica \cup {NoReplica}
    BY DEF ProcessInit
  <2> QED
    BY <2>1, <2>2, <2>3, <2>4 DEF OtherTypesOK
<1> QED
  BY <1>1, <1>5, <1>6, TypesOK DEF ProcessIInv

\* Every step keeps the processes and the schema in order.
LEMMA ProcessNextInv == ProcessIInv /\ [ProcessNext]_processVars => ProcessIInv'
<1> SUFFICES ASSUME ProcessIInv, [ProcessNext]_processVars PROVE ProcessIInv'
  OBVIOUS
<1>1. CASE RollBack
  BY <1>1, RollBackStep
<1>2. ASSUME NEW r \in Replica, Start(r) PROVE ProcessIInv'
  BY <1>2, StartStep
<1>3. ASSUME NEW r \in Replica,
             Signal(r) \/ Request(r) \/ Respond(r) \/ RelayReturns(r) \/ ConsumerReturns(r)
      PROVE  ProcessIInv'
  BY <1>3, BesideStep
<1>4. ASSUME NEW r \in Replica, Die(r) \/ Return(r) \/ MigrateCancelled(r) PROVE ProcessIInv'
  BY <1>4, ExitStep DEF Die, Return, MigrateCancelled
<1>5. ASSUME NEW r \in Replica, MigrateLock(r) \/ MigrateApply(r) \/ MigrateDone(r)
      PROVE  ProcessIInv'
  BY <1>5, MigrateStep
<1>6. ASSUME NEW r \in Replica,
             \/ OpenDatabase(r) \/ OpenProducer(r) \/ OpenCache(r) \/ OpenConsumer(r)
             \/ Bootstrap(r) \/ GoWorker(r) \/ MigrateSkip(r)
             \/ Stopping(r) \/ ListenerFails(r)
             \/ Drain(r) \/ StopWorkers(r) \/ Wait(r) \/ CloseOne(r)
      PROVE  ProcessIInv'
  BY <1>6, PlainStep DEF Stopping, ListenerFails
<1>7. CASE UNCHANGED processVars
  <2>1. /\ SchemaStays /\ \A s \in Replica : Keeps(s)
        /\ ProcessTypeOK /\ SchemaOK /\ \A s \in Replica : ProcessOK(s)
    BY <1>7 DEF processVars, process, database, SchemaStays, Keeps, ProcessIInv
  <2>2. \A s \in Replica : ProcessOK(s)'
    BY <2>1, KeptOK
  <2>3. OtherTypesOK' /\ SchemaOK'
    BY <2>1, <1>7 DEF processVars, process, database, OtherTypesOK, ProcessTypeOK, SchemaOK
  <2> QED
    BY <2>2, <2>3, InvariantNext
<1> QED
  BY <1>1, <1>2, <1>3, <1>4, <1>5, <1>6, <1>7 DEF ProcessNext, MainStep

\* The inductive invariant of the processes, for any number of replicas, starts,
\* requests and migrations.
THEOREM ProcessInvariant == ProcessSpec => []ProcessIInv
BY ProcessInitInv, ProcessNextInv, PTL DEF ProcessSpec

\* What is done before and at the drain, the stop and the start of a worker.
LEMMA OrderFacts ==
  ASSUME NEW p \in Seq(Steps), WellOrdered(p), NEW n \in 1 .. Len(p)
  PROVE  /\ ~Did(p, n, "drain") => ~Did(p, n, "stop") /\ ~Did(p, n, "wait")
         /\ \A w : DidTo(p, n, "go", w) =>
              /\ Did(p, n, "migrate") /\ p # Job
              /\ \A what \in Uses(w) : DidTo(p, n, "open", what)
         /\ Did(p, n, "serve") \/ p[n][1] = "serve" =>
              /\ Did(p, n, "migrate") /\ p # Job /\ DidTo(p, n, "go", "relay")
              /\ \A m \in 1 .. Len(p) : p[m][1] = "open" => m < n
<1>1. Len(p) \in Nat
  BY LenProperties
<1>2. ASSUME NEW m \in 1 .. n
      PROVE  /\ m \in 1 .. Len(p)
             /\ \A k : Did(p, m, k) => Did(p, n, k)
             /\ \A k, x : DidTo(p, m, k, x) => DidTo(p, n, k, x)
  BY <1>1 DEF Did, DidTo
<1>3. ASSUME ~Did(p, n, "drain") PROVE ~Did(p, n, "stop") /\ ~Did(p, n, "wait")
  <2>1. ASSUME NEW m \in 1 .. n - 1, p[m][1] \in {"stop", "wait"} PROVE FALSE
    <3>1. m \in 1 .. n
      OBVIOUS
    <3> QED
      BY <3>1, <2>1, <1>2, <1>3 DEF WellOrdered
  <2> QED
    BY <2>1 DEF Did
<1>4. ASSUME NEW w, DidTo(p, n, "go", w)
      PROVE  /\ Did(p, n, "migrate") /\ p # Job
             /\ \A what \in Uses(w) : DidTo(p, n, "open", what)
  <2>1. PICK m \in 1 .. n - 1 : p[m][1] = "go" /\ p[m][2] = w
    BY <1>4 DEF DidTo
  <2>2. m \in 1 .. n
    OBVIOUS
  <2> QED
    BY <2>1, <2>2, <1>2 DEF WellOrdered
<1>5. ASSUME Did(p, n, "serve") \/ p[n][1] = "serve"
      PROVE  /\ Did(p, n, "migrate") /\ p # Job /\ DidTo(p, n, "go", "relay")
             /\ \A m \in 1 .. Len(p) : p[m][1] = "open" => m < n
  <2>1. PICK k \in 1 .. n : p[k][1] = "serve"
    BY <1>5 DEF Did
  <2>2. k \in 1 .. Len(p) /\ k <= n
    BY <1>2
  <2>3. \A m \in 1 .. Len(p) : p[m][1] = "open" => m < k
    BY <2>1, <2>2 DEF WellOrdered
  <2> QED
    BY <2>1, <2>2, <2>3, <1>2 DEF WellOrdered
<1> QED
  BY <1>3, <1>4, <1>5

\* Whatever the order of signals, deaths, drains and migrations, nothing is used
\* before it is open or after it is closed (the four applications).
THEOREM NothingUsedClosed == ProcessSpec => []UsesWhatIsOpen
<1>1. ProcessIInv => UsesWhatIsOpen
  <2> SUFFICES ASSUME ProcessIInv, NEW r \in Replica
               PROVE  /\ \A w \in working[r] : Uses(w) \subseteq open[r]
                      /\ requests[r] > 0 /\ r \notin late =>
                           Uses("request") \subseteq open[r] /\ "relay" \in working[r]
                           /\ r \notin cancelled
    BY DEF UsesWhatIsOpen
  <2>1. ProcessTypeOK /\ ProcessOK(r)
    BY DEF ProcessIInv
  <2>2. CASE Gone(r)
    BY <2>2 DEF Gone
  <2>3. CASE ~Gone(r)
    <3>1. PICK p \in {Program[service], Job} : \E n \in 1 .. Len(p) :
            p \in Seq(Steps) /\ WellOrdered(p) /\ AtStep(r, p, n)
      BY <2>3, Position
    <3>2. PICK n \in 1 .. Len(p) : p \in Seq(Steps) /\ WellOrdered(p) /\ AtStep(r, p, n)
      BY <3>1
    <3>3. /\ ~Did(p, n, "drain") => ~Did(p, n, "stop") /\ ~Did(p, n, "wait")
          /\ \A w : DidTo(p, n, "go", w) =>
               p # Job /\ \A what \in Uses(w) : DidTo(p, n, "open", what)
          /\ Did(p, n, "serve") \/ p[n][1] = "serve" =>
               /\ p # Job /\ DidTo(p, n, "go", "relay")
               /\ \A m \in 1 .. Len(p) : p[m][1] = "open" => m < n
      BY <3>2, OrderFacts
    <3>4. ASSUME NEW w \in working[r] PROVE Uses(w) \subseteq open[r]
      <4>1. DidTo(p, n, "go", w) /\ ~Did(p, n, "wait") /\ w \in Worker
        BY <3>2, <3>4, <2>1 DEF AtStep, ProcessTypeOK
      <4>2. Uses(w) \subseteq Resource
        BY <4>1 DEF Uses, Worker, Resource
      <4> QED
        BY <4>1, <4>2, <3>2, <3>3 DEF AtStep
    <3>5. ASSUME requests[r] > 0, r \notin late
          PROVE  Uses("request") \subseteq open[r] /\ "relay" \in working[r] /\ r \notin cancelled
      <4>1. (Did(p, n, "serve") \/ p[n][1] = "serve") /\ ~Did(p, n, "drain")
        BY <3>2, <3>5 DEF AtStep
      <4>2. r \notin cancelled /\ "relay" \in working[r]
        BY <4>1, <3>2, <3>3 DEF AtStep, Worker
      <4>3. p = Program[service]
        BY <4>1, <3>3
      <4>4. ASSUME NEW what \in Uses("request") PROVE what \in open[r]
        <5>1. what \in Opened(p)
          BY <4>3 DEF Uses
        <5>2. PICK m \in DOMAIN p : p[m][1] = "open" /\ p[m][2] = what
          BY <5>1 DEF Opened
        <5>3. m \in 1 .. Len(p) /\ m < n /\ n \in Nat /\ Len(p) \in Nat
          BY <5>2, <4>1, <3>2, <3>3, LenProperties
        <5>4. DidTo(p, n, "open", what)
          BY <5>2, <5>3 DEF DidTo
        <5>5. what \in Resource
          <6>1. p[m] \in Steps
            BY <5>3, <3>2, ElementOfSeq
          <6> QED
            BY <6>1, <5>2 DEF Steps, Open, Close, Go, Do
        <5> QED
          BY <5>4, <5>5, <4>1, <3>2, <3>3 DEF AtStep
      <4> QED
        BY <4>2, <4>4
    <3> QED
      BY <3>4, <3>5
  <2> QED
    BY <2>2, <2>3
<1> QED
  BY <1>1, ProcessInvariant, PTL

\* Each migration is applied once and in order, and a replica that migrates
\* works on the newest schema, unless somebody rolled it back (goose's Up).
THEOREM NoOlderSchema == ProcessSpec => []SchemaIsReady
<1>1. ProcessIInv => SchemaIsReady
  <2> SUFFICES ASSUME ProcessIInv
               PROVE  /\ \A n \in DOMAIN schema : schema[n] = n
                      /\ \A r \in Replica :
                           auto /\ ~rolledBack /\ (requests[r] > 0 \/ working[r] # {})
                             => Len(schema) = Last
    BY DEF SchemaIsReady
  <2>1. ASSUME NEW r \in Replica, auto, ~rolledBack, requests[r] > 0 \/ working[r] # {}
        PROVE  Len(schema) = Last
    <3>1. ~Gone(r)
      BY <2>1 DEF Gone
    <3>2. PICK p \in {Program[service], Job} : \E n \in 1 .. Len(p) :
            p \in Seq(Steps) /\ WellOrdered(p) /\ AtStep(r, p, n)
      BY <3>1, Position
    <3>3. PICK n \in 1 .. Len(p) : p \in Seq(Steps) /\ WellOrdered(p) /\ AtStep(r, p, n)
      BY <3>2
    <3>4. /\ \A w : DidTo(p, n, "go", w) => Did(p, n, "migrate") /\ p # Job
          /\ Did(p, n, "serve") \/ p[n][1] = "serve" => Did(p, n, "migrate") /\ p # Job
      BY <3>3, OrderFacts
    <3> QED
      BY <2>1, <3>3, <3>4 DEF AtStep
  <2> QED
    BY <2>1 DEF ProcessIInv, SchemaOK
<1> QED
  BY <1>1, ProcessInvariant, PTL

\* Types of the processes' state.
THEOREM ProcessTypeCorrect == ProcessSpec => []ProcessTypeOK
<1>1. ProcessIInv => ProcessTypeOK
  BY DEF ProcessIInv
<1> QED
  BY <1>1, ProcessInvariant, PTL
=============================================================================
