------------------------------ MODULE Booking ------------------------------
(***************************************************************************)
(* scheduler-service: booking, cancelling and completing appointments.     *)
(*                                                                         *)
(* BookingService (domain/services/booking-service.go) runs each request   *)
(* in a goroutine; AppointmentRepository runs the SQL in a READ COMMITTED  *)
(* transaction.  A Handler is one such in-flight request.  The tables hold *)
(* committed rows only: a booking transaction's own inserts stay in req[h] *)
(* until BookCommit, where other transactions' reads cannot see them but   *)
(* the exclusion constraint no_bay_double_booking can.                     *)
(*                                                                         *)
(* The upstream answers (CurrentCustomer, CustomerVehicles) are taken      *)
(* before the transaction and can be anything: any customer may be told    *)
(* that any vehicle is theirs.  A refused request changes no state, so its *)
(* early returns before the transaction are just disabled actions.         *)
(***************************************************************************)
EXTENDS Integers, Sequences, FiniteSets

CONSTANTS
  Appt,        \* ids the appointment identity column can hand out
  Customer,    \* customer-service ids
  Vehicle,     \* vehicle-service ids
  Hub,         \* hub ids
  Bay,         \* AVAILABLE bays, as numbers in the order of hub_bay.code
  HubOf,       \* hub_bay.hub_id
  Duration,    \* total durations a resolved selection of services can have
  Open, Close, \* opening hours per hub, on the same scale as the clock
  Handler,     \* in-flight requests
  MaxTime,     \* bound: the clock stops here, after the last closing time
  NoHandler, NoAppt, NoRow, NoReq   \* null values

Time == 0 .. MaxTime

\* The clock and the opening hours are natural numbers, durations are
\* positive (CHECK (scheduled_end > scheduled_start)), bays are ordered, and
\* the nulls are not values.
ASSUME BookingAssumption ==
  /\ Bay \subseteq Nat
  /\ HubOf \in [Bay -> Hub]
  /\ Duration \subseteq Nat \ {0}
  /\ MaxTime \in Nat
  /\ Open \in [Hub -> Time]
  /\ Close \in [Hub -> Time]
  /\ NoHandler \notin Handler
  /\ NoAppt \notin Appt

\* An event is its kind: the payload is the appointment's rows, of which only
\* the status changes.
Topic == {"booked", "cancelled", "service-completed"}

\* Statuses some code writes; CHECKED_IN, IN_PROGRESS and NO_SHOW are in the
\* schema's CHECK and in the queries below, but have no writer yet.
Status == {"BOOKED", "CHECKED_IN", "IN_PROGRESS", "COMPLETED", "CANCELLED", "NO_SHOW"}
BayStatus == {"RESERVED", "OCCUPIED", "RELEASED", "CANCELLED"}
ServiceStatus == {"PENDING", "IN_PROGRESS", "DONE", "CANCELLED"}

\* The columns written once by Create: appointment, appointment_vehicle and
\* appointment_bay share one row here, an appointment having one of each.
Row == [customer : Customer, vehicle : Vehicle, bay : Bay, start : Time, end : Time]

\* A Book call's local state: the request and, once picked, its bay.
BookReq == [id : Appt, customer : Customer, vehicle : Vehicle, hub : Hub,
            start : Time, end : Time, bay : Bay \cup {-1}]

VARIABLES
  now,            \* s.now()
  row,            \* committed immutable columns of each appointment
  status,         \* appointment.status, "NONE" where there is no row
  bayStatus,      \* appointment_bay.status
  serviceStatus,  \* appointment_service.status, one value for all lines
  outbox,         \* per message_key, the topics of its rows in id order
  vehicleLock,    \* holder of pg_advisory_xact_lock(41001, vehicle)
  pc, req, target \* each handler's control state, booking, and appointment

tables == <<row, status, bayStatus, serviceStatus, outbox>>
vars == <<now, row, status, bayStatus, serviceStatus, outbox, vehicleLock, pc, req, target>>

\* liveStatuses: the statuses that still hold their slot.
Live == {"BOOKED", "CHECKED_IN", "IN_PROGRESS"}

\* Control points: "checked" is before the transaction, the next five inside
\* it; a Cancel or Complete transaction is one step after its read.
Chosen == {"picked", "inserting", "inserted"}
InTx == {"locked", "notBusy"} \cup Chosen
Booking == {"checked"} \cup InTx
PC == {"idle", "cancelRead", "completeRead"} \cup Booking

\* tstzrange(.., '[)') && tstzrange(.., '[)').
Overlaps(r, s) == r.start < s.end /\ s.start < r.end

\* Rows the exclusion constraint and FreeBay count: status <> 'CANCELLED'.
HoldsBay(a) == bayStatus[a] \notin {"NONE", "CANCELLED"}
IsLive(a) == status[a] \in Live

Init ==
  /\ now = 0
  /\ row = [a \in Appt |-> NoRow]
  /\ status = [a \in Appt |-> "NONE"]
  /\ bayStatus = [a \in Appt |-> "NONE"]
  /\ serviceStatus = [a \in Appt |-> "NONE"]
  /\ outbox = [a \in Appt |-> <<>>]
  /\ vehicleLock = [v \in Vehicle |-> NoHandler]
  /\ pc = [h \in Handler |-> "idle"]
  /\ req = [h \in Handler |-> NoReq]
  /\ target = [h \in Handler |-> NoAppt]

-----------------------------------------------------------------------------
(* Book                                                                    *)

\* An id no row and no request in flight has.  An id an aborted insert
\* consumed leaves no trace, so it may be drawn again.
Fresh(a) == status[a] = "NONE" /\ \A h \in Handler : pc[h] \in Booking => req[h].id # a

\* The checks before the transaction: a start in the future, inside the hub's
\* opening hours, for a vehicle the directories say is this customer's.
BookCheck(h) ==
  /\ pc[h] = "idle"
  /\ \E a \in Appt, c \in Customer, v \in Vehicle, hub \in Hub, d \in Duration :
       \E s \in Open[hub] .. (Close[hub] - d) :
         /\ Fresh(a)
         /\ s > now
         /\ req' = [req EXCEPT ![h] = [id |-> a, customer |-> c, vehicle |-> v, hub |-> hub,
                                       start |-> s, end |-> s + d, bay |-> -1]]
  /\ pc' = [pc EXCEPT ![h] = "checked"]
  /\ UNCHANGED <<now, tables, vehicleLock, target>>

\* Mutant: LockVehicle that never waits.
BookLockNoWait(h) ==
  /\ pc[h] = "checked"
  /\ vehicleLock' = [vehicleLock EXCEPT ![req[h].vehicle] = h]
  /\ pc' = [pc EXCEPT ![h] = "locked"]
  /\ UNCHANGED <<now, tables, req, target>>

\* LockVehicle: waits for the advisory lock, which the transaction then keeps
\* to its end.
BookLock(h) ==
  /\ pc[h] = "checked"
  /\ vehicleLock[req[h].vehicle] = NoHandler
  /\ vehicleLock' = [vehicleLock EXCEPT ![req[h].vehicle] = h]
  /\ pc' = [pc EXCEPT ![h] = "locked"]
  /\ UNCHANGED <<now, tables, req, target>>

\* Mutant: pg_advisory_lock, which outlives the transaction.
UnlockedNever(h) == vehicleLock

\* The end of a request: the transaction's locks go with it.
Unlocked(h) == [v \in Vehicle |-> IF vehicleLock[v] = h THEN NoHandler ELSE vehicleLock[v]]
Finish(h) ==
  /\ pc' = [pc EXCEPT ![h] = "idle"]
  /\ req' = [req EXCEPT ![h] = NoReq]
  /\ target' = [target EXCEPT ![h] = NoAppt]
  /\ vehicleLock' = Unlocked(h)
  /\ UNCHANGED now

\* ErrConflict, or any error the driver returns: RunInTx rolls back.
Refuse(h) == Finish(h) /\ UNCHANGED tables

\* Mutant: the overlap test replaced by an equal start.
VehicleBusySameStart(r) ==
  \E a \in Appt : IsLive(a) /\ row[a].vehicle = r.vehicle /\ row[a].start = r.start

\* VehicleBusy: a committed live appointment of the vehicle overlaps.
VehicleBusy(r) == \E a \in Appt : IsLive(a) /\ row[a].vehicle = r.vehicle /\ Overlaps(row[a], r)

BookVehicle(h) ==
  /\ pc[h] = "locked"
  /\ IF VehicleBusy(req[h])
       THEN Refuse(h)
       ELSE /\ pc' = [pc EXCEPT ![h] = "notBusy"]
            /\ UNCHANGED <<now, tables, vehicleLock, req, target>>

\* Bays of the hub with no committed reservation overlapping the request.
FreeBays(r) ==
  {b \in Bay : HubOf[b] = r.hub /\
     ~ \E a \in Appt : HoldsBay(a) /\ row[a].bay = b /\ Overlaps(row[a], r)}

\* FreeBay: the first by code, or ErrConflict.
BookBay(h) ==
  /\ pc[h] = "notBusy"
  /\ \/ /\ FreeBays(req[h]) = {}
        /\ Refuse(h)
     \/ \E b \in FreeBays(req[h]) :
          /\ \A other \in FreeBays(req[h]) : b <= other
          /\ req' = [req EXCEPT ![h].bay = b]
          /\ pc' = [pc EXCEPT ![h] = "picked"]
          /\ UNCHANGED <<now, tables, vehicleLock, target>>

\* Mutant: a constraint that only looks at bays in use.
BayTakenOccupied(r) ==
  \E a \in Appt : bayStatus[a] = "OCCUPIED" /\ row[a].bay = r.bay /\ Overlaps(row[a], r)

\* What the exclusion constraint looks for once r's bay row is in the table:
\* committed rows, and those of other transactions, checked or not.
BayTaken(r) == \E a \in Appt : HoldsBay(a) /\ row[a].bay = r.bay /\ Overlaps(row[a], r)
Clash(h, g) == g # h /\ req[g].bay = req[h].bay /\ Overlaps(req[g], req[h])
BayContended(h) == \E g \in Handler : pc[g] \in {"inserting", "inserted"} /\ Clash(h, g)

\* Create: the inserts; the bay's row is in the table before it is checked.
BookInsert(h) ==
  /\ pc[h] = "picked"
  /\ pc' = [pc EXCEPT ![h] = "inserting"]
  /\ UNCHANGED <<now, tables, vehicleLock, req, target>>

\* The constraint's verdict: a committed row is 23P01, ErrConflict; an
\* uncommitted one has to be waited for.
BookCreate(h) ==
  /\ pc[h] = "inserting"
  /\ \/ BayTaken(req[h]) /\ Refuse(h)
     \/ /\ ~BayTaken(req[h]) /\ ~BayContended(h)
        /\ pc' = [pc EXCEPT ![h] = "inserted"]
        /\ UNCHANGED <<now, tables, vehicleLock, req, target>>

\* Two inserts that wait for each other: Postgres ends one of them.
BookDeadlock(h) ==
  /\ pc[h] = "inserting"
  /\ \E g \in Handler : pc[g] = "inserting" /\ Clash(h, g)
  /\ Refuse(h)

\* writeEvent and COMMIT: the rows and the outbox row become visible at once.
BookCommit(h) ==
  /\ pc[h] = "inserted"
  /\ LET a == req[h].id IN
       /\ row' = [row EXCEPT ![a] =
                    [customer |-> req[h].customer, vehicle |-> req[h].vehicle, bay |-> req[h].bay,
                     start |-> req[h].start, end |-> req[h].end]]
       /\ status' = [status EXCEPT ![a] = "BOOKED"]
       /\ bayStatus' = [bayStatus EXCEPT ![a] = "RESERVED"]
       /\ serviceStatus' = [serviceStatus EXCEPT ![a] = "PENDING"]
       /\ outbox' = [outbox EXCEPT ![a] = Append(@, "booked")]
  /\ Finish(h)

-----------------------------------------------------------------------------
(* Cancel                                                                  *)

\* The customer's own booked, not yet started appointment, read before the
\* transaction.
CancelRead(h) ==
  /\ pc[h] = "idle"
  /\ \E a \in Appt, c \in Customer :
       /\ status[a] = "BOOKED"
       /\ row[a].customer = c
       /\ row[a].start > now
       /\ target' = [target EXCEPT ![h] = a]
  /\ pc' = [pc EXCEPT ![h] = "cancelRead"]
  /\ UNCHANGED <<now, tables, vehicleLock, req>>

\* Mutant: the UPDATE without WHERE status = 'BOOKED'.
CancelCommitAny(h) ==
  /\ pc[h] = "cancelRead"
  /\ LET a == target[h] IN
       /\ status' = [status EXCEPT ![a] = "CANCELLED"]
       /\ bayStatus' = [bayStatus EXCEPT ![a] = "CANCELLED"]
       /\ serviceStatus' = [serviceStatus EXCEPT ![a] = "CANCELLED"]
       /\ outbox' = [outbox EXCEPT ![a] = Append(@, "cancelled")]
  /\ Finish(h)
  /\ UNCHANGED row

\* UPDATE ... WHERE status = 'BOOKED' decides; its row lock makes the rest of
\* the transaction one step.  No row updated is ErrConflict.
CancelCommit(h) ==
  /\ pc[h] = "cancelRead"
  /\ LET a == target[h] IN
       \/ /\ status[a] = "BOOKED"
          /\ status' = [status EXCEPT ![a] = "CANCELLED"]
          /\ bayStatus' = [bayStatus EXCEPT ![a] = "CANCELLED"]
          /\ serviceStatus' = [serviceStatus EXCEPT ![a] = "CANCELLED"]
          /\ outbox' = [outbox EXCEPT ![a] = Append(@, "cancelled")]
          /\ UNCHANGED row
       \/ /\ status[a] # "BOOKED"
          /\ UNCHANGED tables
  /\ Finish(h)

-----------------------------------------------------------------------------
(* Complete                                                                *)

\* GetByID and the event, built from what was read, before the transaction.
CompleteRead(h) ==
  /\ pc[h] = "idle"
  /\ \E a \in Appt :
       /\ status[a] # "NONE"
       /\ target' = [target EXCEPT ![h] = a]
  /\ pc' = [pc EXCEPT ![h] = "completeRead"]
  /\ UNCHANGED <<now, tables, vehicleLock, req>>

\* UPDATE ... WHERE status IN (live) decides, as for Cancel.
CompleteCommit(h) ==
  /\ pc[h] = "completeRead"
  /\ LET a == target[h] IN
       \/ /\ status[a] \in Live
          /\ status' = [status EXCEPT ![a] = "COMPLETED"]
          /\ bayStatus' = [bayStatus EXCEPT ![a] =
                             IF @ \in {"RESERVED", "OCCUPIED"} THEN "RELEASED" ELSE @]
          /\ serviceStatus' = [serviceStatus EXCEPT ![a] =
                             IF @ # "CANCELLED" THEN "DONE" ELSE @]
          /\ outbox' = [outbox EXCEPT ![a] = Append(@, "service-completed")]
          /\ UNCHANGED row
       \/ /\ status[a] \notin Live
          /\ UNCHANGED tables
  /\ Finish(h)

-----------------------------------------------------------------------------

\* A statement fails (lost connection, cancelled context),
\* or the process dies: the transaction rolls back.
Fail(h) == pc[h] # "idle" /\ Refuse(h)

Tick ==
  /\ now < MaxTime
  /\ now' = now + 1
  /\ UNCHANGED <<tables, vehicleLock, pc, req, target>>

Next ==
  \/ \E h \in Handler :
       \/ BookCheck(h) \/ BookLock(h) \/ BookVehicle(h) \/ BookBay(h)
       \/ BookInsert(h) \/ BookCreate(h) \/ BookDeadlock(h) \/ BookCommit(h)
       \/ CancelRead(h) \/ CancelCommit(h)
       \/ CompleteRead(h) \/ CompleteCommit(h)
       \/ Fail(h)
  \/ Tick

Spec == Init /\ [][Next]_vars

\* A request in flight keeps going, and Postgres looks for deadlocks.  It
\* queues lock waiters in order and an insert waits only for its conflicting
\* transactions, hence SF for the two steps that wait.
Advance(h) ==
  \/ BookVehicle(h) \/ BookBay(h) \/ BookInsert(h) \/ BookDeadlock(h) \/ BookCommit(h)
  \/ CancelCommit(h) \/ CompleteCommit(h)
FairSpec ==
  /\ Spec
  /\ \A h \in Handler : WF_vars(Advance(h)) /\ SF_vars(BookLock(h)) /\ SF_vars(BookCreate(h))

-----------------------------------------------------------------------------
(* Properties                                                              *)

\* The values the tables and the handlers' locals can hold: what the schema's
\* CHECKs and the Go types allow.
TypeOK ==
  /\ now \in Time
  /\ row \in [Appt -> Row \cup {NoRow}]
  /\ status \in [Appt -> Status \cup {"NONE"}]
  /\ bayStatus \in [Appt -> BayStatus \cup {"NONE"}]
  /\ serviceStatus \in [Appt -> ServiceStatus \cup {"NONE"}]
  /\ outbox \in [Appt -> Seq(Topic)]
  /\ vehicleLock \in [Vehicle -> Handler \cup {NoHandler}]
  /\ pc \in [Handler -> PC]
  /\ req \in [Handler -> BookReq \cup {NoReq}]
  /\ target \in [Handler -> Appt \cup {NoAppt}]

\* The instants of a slot: it ends before its end.
During(r) == r.start .. r.end - 1

\* At no instant is a bay held by two appointments, completed ones included:
\* two Book transactions that both saw the bay free (FreeBay reads committed
\* rows only) cannot both commit.
NoBayDoubleBooking ==
  \A a, b \in Appt :
    (a # b /\ HoldsBay(a) /\ HoldsBay(b) /\ row[a].bay = row[b].bay)
      => During(row[a]) \cap During(row[b]) = {}

\* At no instant is a vehicle in two live appointments, whatever bays or hubs
\* they are in: nothing in the schema forbids it, only the advisory lock held
\* from the VehicleBusy read to the commit does.
NoVehicleDoubleBooking ==
  \A a, b \in Appt :
    (a # b /\ IsLive(a) /\ IsLive(b) /\ row[a].vehicle = row[b].vehicle)
      => During(row[a]) \cap During(row[b]) = {}

\* The four tables tell one story of an appointment, whichever of a racing
\* Cancel and Complete came first: the bay and service rows follow the
\* appointment's status and the outbox has announced exactly the changes it
\* went through, at most one of them final.
Story(a) == <<status[a], bayStatus[a], serviceStatus[a], outbox[a]>>
TablesAgree ==
  \A a \in Appt :
    Story(a) \in { <<"NONE", "NONE", "NONE", <<>> >>,
                   <<"BOOKED", "RESERVED", "PENDING", <<"booked">> >>,
                   <<"CANCELLED", "CANCELLED", "CANCELLED", <<"booked", "cancelled">> >>,
                   <<"COMPLETED", "RELEASED", "DONE", <<"booked", "service-completed">> >> }

\* Once completed, an appointment's time in its bay stays recorded for good,
\* and a cancelled one never comes back: what billing charges for, and what
\* the customer gave back, is settled (a late Cancel or Complete that read the
\* appointment before is refused).
Settled ==
  [][\A a \in Appt : status[a] \in {"COMPLETED", "CANCELLED"}
        => status'[a] = status[a] /\ bayStatus'[a] = bayStatus[a] /\ outbox'[a] = outbox[a]]_vars

\* The calendar these tables stand for: one place per appointment made.
calEntry == [a \in Appt |-> IF status[a] = "NONE" THEN {} ELSE {row[a]}]
calState == [a \in Appt |-> IF status[a] = "NONE" THEN "none"
                            ELSE IF status[a] = "CANCELLED" THEN "cancelled"
                            ELSE IF status[a] = "COMPLETED" THEN "done" ELSE "live"]
Calendar == INSTANCE BayCalendar WITH entry <- calEntry, state <- calState, told <- outbox

\* The promise the other services rely on, as one atomic calendar: however
\* requests interleave and fail, each step of this module reserves one place
\* in BayCalendar, settles one appointment, or leaves the calendar alone.
IsACalendar == Calendar!Spec

\* Every request is answered: a Book waiting for a vehicle's lock or for a
\* conflicting insert is not left waiting, also when that insert waits for it
\* or the lock's holder is the one that waits.
EveryRequestAnswered == \A h \in Handler : pc[h] # "idle" ~> pc[h] = "idle"
-----------------------------------------------------------------------------
(* The inductive invariant behind the safety properties.                   *)

\* A Book in flight has a proper request under an id of its own, and a bay
\* once one was picked; a Cancel or Complete in flight has an appointment.
RequestsOK ==
  \A h \in Handler :
    /\ pc[h] \in Booking =>
         /\ req[h] \in BookReq /\ req[h].start < req[h].end
         /\ status[req[h].id] = "NONE"
         /\ \A g \in Handler \ {h} : pc[g] \in Booking => req[g].id # req[h].id
    /\ pc[h] \in Chosen => req[h].bay \in Bay
    /\ pc[h] \in {"cancelRead", "completeRead"} => target[h] \in Appt

\* An appointment that exists has its columns, and takes time.
RowsOK == \A a \in Appt : status[a] # "NONE" => row[a] \in Row /\ row[a].start < row[a].end

\* A booking transaction holds its vehicle's lock to its end, so what
\* VehicleBusy found stays true until the commit.
VehicleClear ==
  \A h \in Handler :
    /\ pc[h] \in InTx => vehicleLock[req[h].vehicle] = h
    /\ pc[h] \in {"notBusy"} \cup Chosen => ~VehicleBusy(req[h])

\* An inserted bay row clashes with no other that passed the constraint.
BayClear ==
  \A h \in Handler : pc[h] = "inserted" =>
    ~BayTaken(req[h]) /\ ~ \E g \in Handler : pc[g] = "inserted" /\ Clash(h, g)

\* What the exclusion constraint and the advisory lock keep apart.
BaysApart ==
  \A a, b \in Appt :
    (a # b /\ HoldsBay(a) /\ HoldsBay(b) /\ row[a].bay = row[b].bay)
      => ~Overlaps(row[a], row[b])
VehiclesApart ==
  \A a, b \in Appt :
    (a # b /\ IsLive(a) /\ IsLive(b) /\ row[a].vehicle = row[b].vehicle)
      => ~Overlaps(row[a], row[b])

\* The invariant that a step preserves by itself: neither double-booking
\* property is, without what the requests in flight have established.
IInv ==
  /\ TypeOK /\ RequestsOK /\ RowsOK /\ VehicleClear /\ BayClear
  /\ TablesAgree /\ BaysApart /\ VehiclesApart
=============================================================================
