---------------------------- MODULE Availability ----------------------------
(***************************************************************************)
(* scheduler-service: what it tells before and after a booking.            *)
(*                                                                         *)
(* GET /hubs/:id/availability offers the slots of a day from a reading of  *)
(* its own (Go loops over the hub's reservations), where Book asks the     *)
(* database (FreeBay); GET /hubs/:id/appointments is the day sheet staff   *)
(* work from.  Each is a function of the tables of Booking at the moment   *)
(* of its statement.  The clock runs over one day of the hub.              *)
(***************************************************************************)
EXTENDS Booking, SequencesExt

CONSTANTS
  Service,      \* catalog_service
  Active,       \* catalog_service.active
  Minutes,      \* catalog_service.duration_minutes
  MaxSelection, \* bound: service_id parameters of one request
  SlotStep,     \* slotStep
  HubDayLimit   \* hubDayLimit

\* Ids are numbers in the order they are handed out, and what Book may take is
\* what some selection of services adds up to.
ASSUME AvailabilityAssumption ==
  /\ Appt \subseteq Nat
  /\ Minutes \in [Service -> Nat \ {0}]
  /\ Active \in [Service -> BOOLEAN]
  /\ MaxSelection \in Nat
  /\ SlotStep \in Nat \ {0}
  /\ HubDayLimit \in Nat
  /\ Duration = {MapThenSumSet(LAMBDA s : Minutes[s], picked) :
                   picked \in SUBSET {s \in Service : Active[s]} \ {{}}}

Selection == UNION {[1 .. n -> Service] : n \in 1 .. MaxSelection}

\* ListServices.
Catalog == {s \in Service : Active[s]}

\* resolveServices: the caller's order, without duplicates; a service that is
\* not in the catalog is ErrInvalidInput.
Resolvable(ids) == \A n \in DOMAIN ids : ids[n] \in Catalog
Resolved(ids) ==
  FoldLeft(LAMBDA kept, id : IF Contains(kept, id) THEN kept ELSE Append(kept, id), <<>>, ids)

\* totalDuration.
TotalDuration(services) == FoldLeft(LAMBDA total, s : total + Minutes[s], 0, services)

\* openingHours of the day.
OpeningHours(hub) == [start |-> Open[hub], end |-> Close[hub]]

\* ListBookableBays.
BookableBays(hub) == {b \in Bay : HubOf[b] = hub}

\* Mutant: only live appointments count.
ReservationsLive(hub) == {row[a] : a \in {b \in Appt : IsLive(b) /\ HubOf[row[b].bay] = hub}}

\* Reservations: what is reserved of the hub's bays during its opening hours.
Reservations(hub) ==
  {row[a] : a \in {b \in Appt : /\ HoldsBay(b) /\ HubOf[row[b].bay] = hub
                                /\ Overlaps(row[b], OpeningHours(hub))}}

\* anyBayFree.
AnyBayFree(bays, reservations, slot) ==
  \E b \in bays : \A r \in reservations : r.bay = b => ~Overlaps(r, slot)

\* Availability: a slot every SlotStep that ends by closing time, and whether
\* it is offered.
Slots(hub, ids) ==
  LET d == TotalDuration(Resolved(ids))
      hours == OpeningHours(hub)
      starts == {s \in hours.start .. (hours.end - d) : (s - hours.start) % SlotStep = 0}
  IN {[start |-> s, end |-> s + d,
       available |-> s > now /\ AnyBayFree(BookableBays(hub), Reservations(hub),
                                           [start |-> s, end |-> s + d])] : s \in starts}

\* load: the rows of one day, the latest first; LIMIT drops the earliest.
Later(a, b) == row[a].start > row[b].start \/ (row[a].start = row[b].start /\ a > b)
Load(rows, limit) == {a \in rows : Cardinality({b \in rows : Later(b, a)}) < limit}

\* HubDay: cancelled and completed ones too.
OfDay(hub) == {a \in Appt : status[a] # "NONE" /\ HubOf[row[a].bay] = hub}
HubDay(hub) == Load(OfDay(hub), HubDayLimit)

-----------------------------------------------------------------------------
(* Properties                                                              *)

\* What the availability says is what Book would find, though it does not ask
\* the database what Book asks: a slot takes each picked service once, lies in
\* the opening hours, and is offered exactly when Book, called now, would find
\* a bay for it.  When it is in the future and not offered, the day sheet shows
\* for each bay the appointment that has it, unless there are so many that the
\* sheet is cut off.
Offered(hub, ids, slot) ==
  LET picked == {ids[n] : n \in DOMAIN ids}
      request == [hub |-> hub, start |-> slot.start, end |-> slot.end]
      bayOf(a) == HoldsBay(a) /\ During(row[a]) \cap During(slot) # {}
  IN /\ slot.end = slot.start + MapThenSumSet(LAMBDA s : Minutes[s], picked)
     /\ Open[hub] <= slot.start /\ slot.end <= Close[hub]
     /\ slot.available <=> slot.start > now /\ FreeBays(request) # {}
     /\ slot.start > now /\ ~slot.available /\ Cardinality(OfDay(hub)) <= HubDayLimit =>
          \A b \in BookableBays(hub) : \E a \in HubDay(hub) : row[a].bay = b /\ bayOf(a)
OfferIsBookable ==
  \A hub \in Hub, ids \in Selection :
    Resolvable(ids) => \A slot \in Slots(hub, ids) : Offered(hub, ids, slot)
=============================================================================
