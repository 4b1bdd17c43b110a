------------------------------ MODULE KeyedLog ------------------------------
(***************************************************************************)
(* What an outbox promises the consumers of its topic: every message they  *)
(* see was committed, and the first time they see it they have already     *)
(* seen every earlier message of the same key.  Messages may be repeated   *)
(* at any time: delivery is at least once.                                 *)
(***************************************************************************)
EXTENDS Integers, Sequences

CONSTANTS Id, Key, NoKey

VARIABLES
  written,   \* the key of each committed message, NoKey if not committed
  seen       \* the topic, as its consumers read it

kvars == <<written, seen>>

Earlier(i) == {j \in Id : j < i /\ written[j] # NoKey /\ written[j] = written[i]}
Visible(i) == \E n \in DOMAIN seen : seen[n] = i

Init ==
  /\ written = [i \in Id |-> NoKey]
  /\ seen = <<>>

\* Messages of one key are written in the order of their ids.
Write(i, k) ==
  /\ written[i] = NoKey
  /\ \A j \in Id : written[j] = k => j < i
  /\ written' = [written EXCEPT ![i] = k]
  /\ UNCHANGED seen

Deliver(i) ==
  /\ written[i] # NoKey
  /\ \A j \in Earlier(i) : Visible(j)
  /\ seen' = Append(seen, i)
  /\ UNCHANGED written

Next == \E i \in Id : Deliver(i) \/ \E k \in Key : Write(i, k)

Spec == Init /\ [][Next]_kvars
=============================================================================
