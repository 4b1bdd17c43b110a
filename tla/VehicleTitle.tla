---------------------------- MODULE VehicleTitle ----------------------------
(***************************************************************************)
(* What vehicle-service promises of one vehicle, as a register of titles   *)
(* in which every request that succeeds is one atomic entry: the vehicle   *)
(* changes until it is scrapped, it gets a first owner while it is not,    *)
(* and from then on every owner takes it over from the one before, on the  *)
(* day that one's ownership ends.  Each entry is announced as it is made.  *)
(***************************************************************************)
EXTENDS Integers, Sequences

CONSTANTS
  Customer, Day, Status, Warranty,
  NoCar, NoCustomer   \* null values

VARIABLES
  car,     \* the vehicle's status and warranty, NoCar before it is registered
  title,   \* its owners in turn, each with the day its ownership began
  told     \* the announcements of owners

tvars == <<car, title, told>>

Car == [status : Status, warranty : Warranty]

Scrapped == car # NoCar /\ car.status = "SCRAPPED"

Init ==
  /\ car = NoCar
  /\ title = <<>>
  /\ told = <<>>

Register ==
  /\ car = NoCar
  /\ car' \in Car
  /\ UNCHANGED <<title, told>>

Change ==
  /\ car # NoCar
  /\ ~Scrapped
  /\ car' \in Car
  /\ UNCHANGED <<title, told>>

\* The first owner, announced without a previous one.
Give(c, d) ==
  /\ car # NoCar
  /\ ~Scrapped
  /\ title = <<>>
  /\ title' = <<[customer |-> c, since |-> d]>>
  /\ told' = Append(told, [customer |-> c, previous |-> NoCustomer, since |-> d])
  /\ UNCHANGED car

\* A transfer, announced with the owner it was taken over from.
Pass(c, d) ==
  /\ title # <<>>
  /\ d >= title[Len(title)].since
  /\ title' = Append(title, [customer |-> c, since |-> d])
  /\ told' = Append(told, [customer |-> c, previous |-> title[Len(title)].customer, since |-> d])
  /\ UNCHANGED car

Next ==
  \/ Register \/ Change
  \/ \E c \in Customer, d \in Day : Give(c, d) \/ Pass(c, d)

Spec == Init /\ [][Next]_tvars
=============================================================================
