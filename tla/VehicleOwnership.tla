-------------------------- MODULE VehicleOwnership --------------------------
(***************************************************************************)
(* vehicle-service: registering one vehicle, changing it, giving it its    *)
(* first owner and transferring it.                                        *)
(*                                                                         *)
(* VehicleService (domain/services/vehicle-service.go) runs each request   *)
(* in a READ COMMITTED transaction; a Handler is one such request.  The    *)
(* variables are committed rows only: what a transaction has written is in *)
(* its request until its commit, where other transactions do not see it    *)
(* but wait for it, on a row's lock or on a unique index.                  *)
(*                                                                         *)
(* Vehicles are independent of each other (every lock and every index here *)
(* is per vehicle; two vehicles only ever compete for a VIN or a plate,    *)
(* which is the contest of RegisterInsert), so the module follows one.     *)
(*   vehicle row    FOR UPDATE by Assign and Update; KEY SHARE by the      *)
(*                  foreign key of a transfer's insert                     *)
(*   owner row      FOR UPDATE by Transfer                                 *)
(*   current owner  uq_vehicle_current_owner, by both inserts              *)
(***************************************************************************)
EXTENDS Integers, Sequences

CONSTANTS
  Handler,      \* in-flight requests
  Customer,     \* customer-service ids
  Day,          \* calendar days a request can name
  Today,        \* calendarDate(time.Now())
  EndDate,      \* warranty end dates
  NoWarranty,   \* warranty_end_date IS NULL
  Keep,         \* a field the PATCH leaves out
  MaxRequests,  \* bound: the number of requests
  NoCustomer, NoVehicle, NoDay, NoReq   \* null values

Status == {"ACTIVE", "SOLD", "SCRAPPED"}
Warranty == EndDate \cup {NoWarranty}

\* updated counts the values of updated_at: every UPDATE sets a new one.
Vehicle == [status : Status, warranty : Warranty, updated : Nat]

\* customer_vehicle.
OwnerRow == [customer : Customer, from : Day, to : Day \cup {NoDay},
             status : {"CURRENT", "TRANSFERRED"}]

\* Days are ordered, and the nulls are not values.
ASSUME OwnershipAssumption ==
  /\ Day \subseteq Nat
  /\ Today \in Nat
  /\ MaxRequests \in Nat
  /\ Keep \notin Status \cup Warranty
  /\ NoVehicle \notin Vehicle \cup [status : Status, warranty : Warranty]
  /\ NoCustomer \notin Customer
  /\ NoDay \notin Day

RegisterReq == [op : {"register"}, status : Status, warranty : Warranty]
AssignReq   == [op : {"assign"}, customer : Customer, day : Day]
\* read: the updated_at the client gives.  current: the row as the transaction
\* reads it.
UpdateReq   == [op : {"update"}, status : Status \cup {Keep}, warranty : Warranty \cup {Keep},
                read : Nat, current : Vehicle \cup {NoVehicle}]
\* row: the id of the row its SELECT ... FOR UPDATE found, 0 before it did.
TransferReq == [op : {"transfer"}, customer : Customer, previous : Customer, day : Day,
                row : Nat]
Request == RegisterReq \cup AssignReq \cup UpdateReq \cup TransferReq

OwnerEvent == [customer : Customer, previous : Customer \cup {NoCustomer}, from : Day]
WarrantyEvent == [previous : Warranty, warranty : Warranty]

VARIABLES
  vehicle,        \* the committed row, NoVehicle before it is registered
  owner,          \* customer_vehicle in id order
  ownerEvents,    \* outbox: OwnerAssigned and VehicleTransferred, in id order
  stateEvents,    \* outbox: VehicleCreated and VehicleUpdated
  warrantyEvents, \* outbox: WarrantyChanged
  pc, req,        \* each handler's control state and request
  arrived         \* requests so far

tables == <<vehicle, owner, ownerEvents, stateEvents, warrantyEvents>>
vars == <<vehicle, owner, ownerEvents, stateEvents, warrantyEvents, pc, req, arrived>>

\* accepted: before the first statement that matters.  found: a transfer's
\* SELECT has its row and may be waiting for it.  locked: Assign has the
\* vehicle.  closed: Transfer has ended the current ownership.  written: all
\* rows are written, the outbox row and COMMIT are left.
PC == {"idle", "accepted", "found", "locked", "closed", "written"}

At(h, op, place) == pc[h] = place /\ req[h].op = op

Init ==
  /\ vehicle = NoVehicle
  /\ owner = <<>>
  /\ ownerEvents = <<>>
  /\ stateEvents = <<>>
  /\ warrantyEvents = <<>>
  /\ pc = [h \in Handler |-> "idle"]
  /\ req = [h \in Handler |-> NoReq]
  /\ arrived = 0

\* A request that passed validation: an assignment's day is not in the future,
\* an update changes something and names an updated_at its client has read
\* (an older one than the row's only brings the refusal forward).
Accept(h) ==
  /\ pc[h] = "idle"
  /\ arrived < MaxRequests
  /\ arrived' = arrived + 1
  /\ \/ \E r \in RegisterReq : req' = [req EXCEPT ![h] = r]
     \/ \E c \in Customer, d \in Day :
          /\ d <= Today
          /\ req' = [req EXCEPT ![h] = [op |-> "assign", customer |-> c, day |-> d]]
     \/ \E s \in Status \cup {Keep}, w \in Warranty \cup {Keep} :
          /\ s # Keep \/ w # Keep
          /\ vehicle # NoVehicle
          /\ req' = [req EXCEPT ![h] = [op |-> "update", status |-> s, warranty |-> w,
                                        read |-> vehicle.updated, current |-> NoVehicle]]
     \/ \E c, p \in Customer, d \in Day :
          req' = [req EXCEPT ![h] = [op |-> "transfer", customer |-> c, previous |-> p,
                                     day |-> d, row |-> 0]]
  /\ pc' = [pc EXCEPT ![h] = "accepted"]
  /\ UNCHANGED tables

\* The request is answered: its transaction's locks go with it.
Finish(h) ==
  /\ pc' = [pc EXCEPT ![h] = "idle"]
  /\ req' = [req EXCEPT ![h] = NoReq]
  /\ UNCHANGED arrived

\* An error, for which RunInTx rolls back, or nothing to write.
Refuse(h) == Finish(h) /\ UNCHANGED tables

GoTo(h, place) ==
  /\ pc' = [pc EXCEPT ![h] = place]
  /\ UNCHANGED <<req, arrived, tables>>

-----------------------------------------------------------------------------
(* The locks, by what their holders have executed.                         *)

\* SELECT ... FROM vehicle FOR UPDATE, held to the end of the transaction.
HoldsVehicle(h) == At(h, "assign", "locked") \/ At(h, "assign", "written")
                     \/ At(h, "update", "written")

\* The foreign key check of a transfer's insert: FOR KEY SHARE.
SharesVehicle(h) == At(h, "transfer", "written")

\* The current owner's row, locked and updated by a transfer.
HoldsOwner(h) == At(h, "transfer", "closed") \/ At(h, "transfer", "written")

VehicleFree(h) == \A g \in Handler \ {h} : ~HoldsVehicle(g) /\ ~SharesVehicle(g)

IsScrapped == vehicle # NoVehicle /\ vehicle.status = "SCRAPPED"
HasOwner == \E n \in DOMAIN owner : owner[n].status = "CURRENT"

-----------------------------------------------------------------------------
(* RegisterVehicle                                                         *)

\* INSERT INTO vehicle: waits for an uncommitted row of the same VIN; a
\* committed one is ErrConflict.
RegisterInsert(h) ==
  /\ At(h, "register", "accepted")
  /\ \A g \in Handler \ {h} : ~At(g, "register", "written")
  /\ IF vehicle = NoVehicle THEN GoTo(h, "written") ELSE Refuse(h)

\* writeEvent(VehicleCreated) and COMMIT.
RegisterCommit(h) ==
  /\ At(h, "register", "written")
  /\ vehicle' = [status |-> req[h].status, warranty |-> req[h].warranty, updated |-> 1]
  /\ stateEvents' = Append(stateEvents, vehicle')
  /\ Finish(h)
  /\ UNCHANGED <<owner, ownerEvents, warrantyEvents>>

-----------------------------------------------------------------------------
(* AssignInitialOwner                                                      *)

\* Mutant: GetByID instead of GetByIDForUpdate, which never waits.
AssignReads(h) ==
  /\ At(h, "assign", "accepted")
  /\ IF vehicle = NoVehicle \/ IsScrapped THEN Refuse(h) ELSE GoTo(h, "locked")

\* GetByIDForUpdate, ErrNotFound or, for a scrapped vehicle, ErrInvalidState.
AssignLock(h) ==
  /\ At(h, "assign", "accepted")
  /\ VehicleFree(h)
  /\ IF vehicle = NoVehicle \/ IsScrapped THEN Refuse(h) ELSE GoTo(h, "locked")

\* Mutant: no uq_vehicle_current_owner.
AssignInsertAnyway(h) ==
  /\ At(h, "assign", "locked")
  /\ GoTo(h, "written")

\* INSERT of the CURRENT row: waits while a transfer has ended the current
\* ownership without having committed that; a committed current owner is
\* ErrConflict.
AssignInsert(h) ==
  /\ At(h, "assign", "locked")
  /\ \A g \in Handler : ~HoldsOwner(g)
  /\ IF HasOwner THEN Refuse(h) ELSE GoTo(h, "written")

NewOwner(r) == [customer |-> r.customer, from |-> r.day, to |-> NoDay, status |-> "CURRENT"]

\* writeEvent(OwnerAssigned) and COMMIT.
AssignCommit(h) ==
  /\ At(h, "assign", "written")
  /\ owner' = Append(owner, NewOwner(req[h]))
  /\ ownerEvents' = Append(ownerEvents, [customer |-> req[h].customer, previous |-> NoCustomer,
                                         from |-> req[h].day])
  /\ Finish(h)
  /\ UNCHANGED <<vehicle, stateEvents, warrantyEvents>>

-----------------------------------------------------------------------------
(* UpdateVehicle                                                           *)

Given(field, old) == IF field = Keep THEN old ELSE field

\* next, and the time.Now() that Update writes.
Updated(r, current) == [status |-> Given(r.status, current.status),
                        warranty |-> Given(r.warranty, current.warranty),
                        updated |-> current.updated + 1]
ChangesNothing(r) == /\ Updated(r, vehicle).status = vehicle.status
                     /\ Updated(r, vehicle).warranty = vehicle.warranty

\* The UPDATE, of the row as it was read.
Write(h) ==
  /\ req' = [req EXCEPT ![h].current = vehicle]
  /\ pc' = [pc EXCEPT ![h] = "written"]
  /\ UNCHANGED <<arrived, tables>>

\* Mutants: GetByID instead of GetByIDForUpdate; a stale updated_at is tried
\* again, not refused.
UpdateReads(h) ==
  /\ At(h, "update", "accepted")
  /\ IF vehicle.updated # req[h].read \/ IsScrapped \/ ChangesNothing(req[h])
       THEN Refuse(h) ELSE Write(h)
UpdateRetries(h) ==
  /\ At(h, "update", "accepted")
  /\ VehicleFree(h)
  /\ vehicle.updated = req[h].read
  /\ IF IsScrapped \/ ChangesNothing(req[h]) THEN Refuse(h) ELSE Write(h)

\* GetByIDForUpdate; ErrConflict for a stale updated_at, ErrInvalidState for a
\* scrapped vehicle, success without a write if nothing would change; else
\* the UPDATE, which the lock lets match.
UpdateWrite(h) ==
  /\ At(h, "update", "accepted")
  /\ VehicleFree(h)
  /\ IF vehicle.updated # req[h].read \/ IsScrapped \/ ChangesNothing(req[h])
       THEN Refuse(h) ELSE Write(h)

\* writeEvent(VehicleUpdated), writeEvent(WarrantyChanged) with the warranty
\* read under the lock, and COMMIT.
UpdateCommit(h) ==
  /\ At(h, "update", "written")
  /\ LET current == req[h].current
         next == Updated(req[h], current)
     IN /\ vehicle' = next
        /\ stateEvents' = Append(stateEvents, next)
        /\ warrantyEvents' =
             IF next.warranty = current.warranty THEN warrantyEvents
             ELSE Append(warrantyEvents, [previous |-> current.warranty, warranty |-> next.warranty])
  /\ Finish(h)
  /\ UNCHANGED <<owner, ownerEvents>>

-----------------------------------------------------------------------------
(* TransferVehicle: neither locks nor reads the vehicle itself.            *)

\* The row that UnassignVehicleFromCustomer's SELECT finds: the committed
\* CURRENT one, or ErrNotFound.
TransferFind(h) ==
  /\ At(h, "transfer", "accepted")
  /\ \/ /\ ~HasOwner
        /\ Refuse(h)
     \/ \E n \in DOMAIN owner :
          /\ owner[n].status = "CURRENT"
          /\ req' = [req EXCEPT ![h].row = n]
          /\ pc' = [pc EXCEPT ![h] = "found"]
          /\ UNCHANGED <<arrived, tables>>

\* Mutants: First without the locking clause; the row taken whoever it names.
TransferCloseStale(h) ==
  /\ At(h, "transfer", "found")
  /\ LET cur == owner[req[h].row] IN
       IF cur.customer # req[h].previous \/ req[h].day < cur.from
         THEN Refuse(h) ELSE GoTo(h, "closed")
TransferCloseAny(h) ==
  /\ At(h, "transfer", "found")
  /\ \A g \in Handler \ {h} : ~HoldsOwner(g)
  /\ LET cur == owner[req[h].row] IN
       IF cur.status # "CURRENT" \/ req[h].day < cur.from
         THEN Refuse(h) ELSE GoTo(h, "closed")

\* The row's lock, waited for: a row no longer CURRENT by then is ErrNotFound,
\* another customer's ErrConflict; then the UPDATE that ends the ownership,
\* which CHECK (owned_to >= owned_from) refuses for an earlier day.
TransferClose(h) ==
  /\ At(h, "transfer", "found")
  /\ \A g \in Handler \ {h} : ~HoldsOwner(g)
  /\ LET cur == owner[req[h].row] IN
       IF cur.status # "CURRENT" \/ cur.customer # req[h].previous \/ req[h].day < cur.from
         THEN Refuse(h) ELSE GoTo(h, "closed")

\* INSERT of the new CURRENT row; its foreign key check waits for the holders
\* of the vehicle.
TransferInsert(h) ==
  /\ At(h, "transfer", "closed")
  /\ \A g \in Handler \ {h} : ~HoldsVehicle(g)
  /\ GoTo(h, "written")

\* writeEvent(VehicleTransferred) and COMMIT.
TransferCommit(h) ==
  /\ At(h, "transfer", "written")
  /\ owner' = Append([owner EXCEPT ![req[h].row].to = req[h].day,
                                   ![req[h].row].status = "TRANSFERRED"],
                     NewOwner(req[h]))
  /\ ownerEvents' = Append(ownerEvents, [customer |-> req[h].customer,
                                         previous |-> req[h].previous, from |-> req[h].day])
  /\ Finish(h)
  /\ UNCHANGED <<vehicle, stateEvents, warrantyEvents>>

-----------------------------------------------------------------------------

\* A statement fails, the request is cancelled or the process dies.
Fail(h) == pc[h] # "idle" /\ Refuse(h)

\* An assignment that holds the vehicle and waits for the current owner's row,
\* and a transfer that holds that row and waits for the vehicle, wait for each
\* other: Postgres fails one of them.
BreakDeadlock ==
  \E g, h \in Handler :
    /\ At(g, "assign", "locked")
    /\ At(h, "transfer", "closed")
    /\ Refuse(g) \/ Refuse(h)

Next ==
  \/ \E h \in Handler :
       \/ Accept(h)
       \/ RegisterInsert(h) \/ RegisterCommit(h)
       \/ AssignLock(h) \/ AssignInsert(h) \/ AssignCommit(h)
       \/ UpdateWrite(h) \/ UpdateCommit(h)
       \/ TransferFind(h) \/ TransferClose(h) \/ TransferInsert(h) \/ TransferCommit(h)
       \/ Fail(h)
  \/ BreakDeadlock

Spec == Init /\ [][Next]_vars

\* Requests in flight keep going and the deadlock timeout fires.  The steps
\* that wait have SF: Postgres serves the waiters of a lock in order.
Advance(h) ==
  \/ RegisterCommit(h) \/ AssignCommit(h) \/ UpdateCommit(h)
  \/ TransferFind(h) \/ TransferCommit(h)
Obtain(h) ==
  \/ RegisterInsert(h) \/ AssignLock(h) \/ AssignInsert(h) \/ UpdateWrite(h)
  \/ TransferClose(h) \/ TransferInsert(h)
FairSpec ==
  /\ Spec
  /\ WF_vars(BreakDeadlock)
  /\ \A h \in Handler : WF_vars(Advance(h)) /\ SF_vars(Obtain(h))

-----------------------------------------------------------------------------
(* Properties                                                              *)

\* The values the tables, the events and the requests can hold: no request's
\* optional field ends up in the vehicle row.
TypeOK ==
  /\ vehicle \in Vehicle \cup {NoVehicle}
  /\ owner \in Seq(OwnerRow)
  /\ ownerEvents \in Seq(OwnerEvent)
  /\ stateEvents \in Seq(Vehicle)
  /\ warrantyEvents \in Seq(WarrantyEvent)
  /\ pc \in [Handler -> PC]
  /\ req \in [Handler -> Request \cup {NoReq}]
  /\ \A h \in Handler : pc[h] # "idle" => req[h] \in Request
  /\ arrived \in 0 .. MaxRequests

\* The ownerships form one chain without gaps or overlaps: each but the last
\* has ended, on the day the next began, and the last is the current owner.
\* The table alone allows a vehicle between owners, or two owners on a day.
Chained(n) ==
  IF n = Len(owner)
    THEN owner[n].status = "CURRENT" /\ owner[n].to = NoDay
    ELSE /\ owner[n].status = "TRANSFERRED"
         /\ owner[n].to = owner[n + 1].from
         /\ owner[n].from <= owner[n + 1].from
OwnersInTurn == \A n \in 1 .. Len(owner) : Chained(n)

\* The owner events, in outbox order, are the ownership table: one per row,
\* OwnerAssigned for the first, and each VehicleTransferred names as previous
\* owner the one who really had the vehicle till then, whatever its request
\* believed.
OwnersTold ==
  /\ Len(ownerEvents) = Len(owner)
  /\ \A n \in 1 .. Len(owner) :
       /\ ownerEvents[n].customer = owner[n].customer
       /\ ownerEvents[n].from = owner[n].from
       /\ ownerEvents[n].previous = IF n = 1 THEN NoCustomer ELSE owner[n - 1].customer

\* The other events tell the vehicle's history.  VehicleCreated and each
\* VehicleUpdated announce one version, in the order they were written, and
\* the last is the row as it is.  WarrantyChanged events link up, each
\* previous warranty being the last one announced, and end at the vehicle's:
\* "previous" is exactly what the update replaced, though many clients change
\* the vehicle at once.
StatesTold ==
  IF vehicle = NoVehicle
    THEN stateEvents = <<>> /\ warrantyEvents = <<>>
    ELSE /\ Len(stateEvents) = vehicle.updated
         /\ \A n \in 1 .. Len(stateEvents) : stateEvents[n].updated = n
         /\ stateEvents # <<>> /\ stateEvents[Len(stateEvents)] = vehicle
WarrantyLink(n) ==
  /\ warrantyEvents[n].previous # warrantyEvents[n].warranty
  /\ warrantyEvents[n].warranty =
       IF n = Len(warrantyEvents) THEN vehicle.warranty ELSE warrantyEvents[n + 1].previous
ChangesTold == StatesTold /\ \A n \in 1 .. Len(warrantyEvents) : WarrantyLink(n)

\* SCRAPPED is final: a scrapped vehicle's row never changes again and it gets
\* no first owner, not even from requests accepted, or waiting for the row,
\* before it was scrapped.
ScrappedIsFinal ==
  [][IsScrapped => vehicle' = vehicle /\ (owner = <<>> => owner' = <<>>)]_vars

\* The title register these tables stand for.
titleCar == IF vehicle = NoVehicle THEN NoVehicle
            ELSE [status |-> vehicle.status, warranty |-> vehicle.warranty]
titleOwners == [n \in 1 .. Len(owner) |-> [customer |-> owner[n].customer, since |-> owner[n].from]]
titleTold == [n \in 1 .. Len(ownerEvents) |->
               [customer |-> ownerEvents[n].customer, previous |-> ownerEvents[n].previous,
                since |-> ownerEvents[n].from]]
Title == INSTANCE VehicleTitle WITH
  car <- titleCar, title <- titleOwners, told <- titleTold, NoCar <- NoVehicle

\* Every request that succeeds is one atomic entry of the register: whatever
\* assignments, transfers and updates interleave, each owner takes over from
\* the one before, and an assignment finds the vehicle unscrapped and without
\* an owner when it commits, not only when it looked.
IsATitle == Title!Spec

\* Every request is answered: no waiter is left behind, and of an assignment
\* and a transfer that wait for each other one is failed.
EveryRequestAnswered == \A h \in Handler : pc[h] # "idle" ~> pc[h] = "idle"

-----------------------------------------------------------------------------
(* The inductive invariant behind the safety properties.                   *)

\* What each request in flight has established, and its locks keep true.
RequestOK(h) ==
  /\ pc[h] = "found" => req[h].op = "transfer"
  /\ pc[h] = "closed" => req[h].op = "transfer"
  /\ pc[h] = "locked" => req[h].op = "assign"
  /\ At(h, "register", "written") => vehicle = NoVehicle
  /\ At(h, "assign", "locked") => vehicle # NoVehicle /\ ~IsScrapped
  /\ At(h, "assign", "written") => vehicle # NoVehicle /\ ~IsScrapped /\ owner = <<>>
  /\ At(h, "update", "accepted") => vehicle # NoVehicle
  /\ At(h, "update", "written") =>
       /\ vehicle # NoVehicle
       /\ ~IsScrapped
       /\ vehicle.updated = req[h].read
       /\ req[h].current = vehicle
  /\ At(h, "transfer", "found") => req[h].row \in 1 .. Len(owner)
  /\ HoldsOwner(h) =>
       /\ owner # <<>>
       /\ req[h].row = Len(owner)
       /\ owner[Len(owner)].customer = req[h].previous
       /\ owner[Len(owner)].from <= req[h].day

\* No two transactions hold a lock, or an index entry, that excludes the other.
Exclude(g, h) ==
  /\ ~(At(g, "register", "written") /\ At(h, "register", "written"))
  /\ ~(HoldsVehicle(g) /\ HoldsVehicle(h))
  /\ ~(HoldsVehicle(g) /\ SharesVehicle(h))
  /\ ~(HoldsOwner(g) /\ HoldsOwner(h))
LocksExclude == \A g, h \in Handler : g # h => Exclude(g, h)

IInv ==
  /\ TypeOK /\ LocksExclude /\ \A h \in Handler : RequestOK(h)
  /\ OwnersInTurn /\ OwnersTold /\ ChangesTold
=============================================================================
