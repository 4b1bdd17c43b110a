---------------------------- MODULE BayCalendar ----------------------------
(***************************************************************************)
(* What scheduler-service promises of its appointments, without requests,  *)
(* transactions or locks: a calendar of bays and vehicles, each change of  *)
(* which is atomic and announced exactly once.                             *)
(***************************************************************************)
EXTENDS Integers, Sequences

CONSTANTS Appt, Customer, Vehicle, Bay, Time

VARIABLES
  entry,   \* the appointment's place in the calendar, {} or a singleton
  state,   \* "none", "live", "done" or "cancelled"
  told     \* what the other services were told of it, in order

cvars == <<entry, state, told>>

Place == [customer : Customer, vehicle : Vehicle, bay : Bay, start : Time, end : Time]

Clash(p, q) == p.start < q.end /\ q.start < p.end

\* p can be entered: its bay is free of everything not cancelled, its vehicle
\* of everything still to be done.
Admits(p) ==
  \A a \in Appt : \A q \in entry[a] :
    Clash(q, p) => /\ q.bay = p.bay => state[a] = "cancelled"
                   /\ q.vehicle = p.vehicle => state[a] \in {"done", "cancelled"}

Init ==
  /\ entry = [a \in Appt |-> {}]
  /\ state = [a \in Appt |-> "none"]
  /\ told = [a \in Appt |-> <<>>]

Reserve(a) ==
  /\ state[a] = "none"
  /\ \E p \in Place : Admits(p) /\ entry' = [entry EXCEPT ![a] = {p}]
  /\ state' = [state EXCEPT ![a] = "live"]
  /\ told' = [told EXCEPT ![a] = Append(@, "booked")]

Settle(a, s, topic) ==
  /\ state[a] = "live"
  /\ state' = [state EXCEPT ![a] = s]
  /\ told' = [told EXCEPT ![a] = Append(@, topic)]
  /\ UNCHANGED entry

Next ==
  \E a \in Appt :
    \/ Reserve(a)
    \/ Settle(a, "cancelled", "cancelled")
    \/ Settle(a, "done", "service-completed")

Spec == Init /\ [][Next]_cvars
=============================================================================
