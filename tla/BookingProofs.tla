--------------------------- MODULE BookingProofs ---------------------------
(***************************************************************************)
(* Proofs about Booking: its inductive invariant, and from it the type     *)
(* invariant, the two double-booking properties and the refinement of      *)
(* BayCalendar, for any number of appointments, bays, vehicles and         *)
(* requests in flight; and about Availability: that what it offers is what *)
(* Book would find.                                                        *)
(***************************************************************************)
EXTENDS Availability,
        SequenceTheorems, FiniteSetTheorems, WellFoundedInduction, TLAPS

\* Overlapping is symmetric (half-open intervals, as in tstzrange '[)').
LEMMA OverlapsSymmetric ==
  ASSUME NEW r, NEW s
  PROVE  Overlaps(r, s) <=> Overlaps(s, r)
BY DEF Overlaps

\* Slots that do not overlap share no instant; two that do, and take time, do.
LEMMA OverlapsAtAnInstant ==
  ASSUME NEW r, NEW s, r.start \in Int, r.end \in Int, s.start \in Int, s.end \in Int
  PROVE  /\ ~Overlaps(r, s) => During(r) \cap During(s) = {}
         /\ r.start < r.end /\ s.start < s.end /\ Overlaps(r, s) => During(r) \cap During(s) # {}
<1>1. ASSUME NEW t \in During(r) \cap During(s) PROVE Overlaps(r, s)
  BY DEF During, Overlaps
<1>2. ASSUME r.start < r.end, s.start < s.end, Overlaps(r, s)
      PROVE  \E t \in {r.start, s.start} : t \in During(r) \cap During(s)
  <2>1. CASE r.start <= s.start
    BY <1>2, <2>1 DEF During, Overlaps
  <2>2. CASE s.start < r.start
    BY <1>2, <2>2 DEF During, Overlaps
  <2> QED
    BY <2>1, <2>2
<1> QED
  BY <1>1, <1>2

\* A second announcement after the first.
LEMMA AppendToOne ==
  ASSUME NEW x, NEW y
  PROVE  Append(<<x>>, y) = <<x, y>>
<1> DEFINE S == {x, y}
<1>1. <<x>> \in Seq(S) /\ y \in S /\ <<x, y>> \in Seq(S)
  OBVIOUS
<1>2. /\ Append(<<x>>, y) \in Seq(S) /\ Len(Append(<<x>>, y)) = 2
      /\ Append(<<x>>, y)[1] = x /\ Append(<<x>>, y)[2] = y
  BY <1>1, AppendProperties
<1>3. Len(<<x, y>>) = 2 /\ \A i \in 1 .. 2 : Append(<<x>>, y)[i] = <<x, y>>[i]
  BY <1>2
<1> HIDE DEF S
<1> QED
  BY <1>1, <1>2, <1>3, SeqEqual

\* Nothing exists and nothing is in flight when the service starts.
LEMMA InitInv == Init => IInv
<1> SUFFICES ASSUME Init PROVE IInv
  OBVIOUS
<1> USE DEF Init
<1>1. TypeOK
  BY BookingAssumption DEF TypeOK, Time, PC
<1>2. RequestsOK /\ RowsOK /\ VehicleClear /\ BayClear
  BY DEF RequestsOK, RowsOK, VehicleClear, BayClear, Booking, InTx, Chosen
<1>3. TablesAgree
  BY DEF TablesAgree, Story
<1>4. BaysApart /\ VehiclesApart
  BY DEF BaysApart, VehiclesApart, HoldsBay, IsLive, Live
<1> QED
  BY <1>1, <1>2, <1>3, <1>4 DEF IInv

\* A request that ends without touching the tables (a conflict, an error, a
\* crash) releases only its own lock and leaves the others' findings valid.
LEMMA RefuseInv ==
  ASSUME NEW h \in Handler, IInv, Refuse(h)
  PROVE  IInv'
<1> USE DEF IInv
<1>1. /\ pc' = [pc EXCEPT ![h] = "idle"]
      /\ req' = [req EXCEPT ![h] = NoReq]
      /\ target' = [target EXCEPT ![h] = NoAppt]
      /\ vehicleLock' = Unlocked(h)
      /\ UNCHANGED <<now, tables>>
  BY DEF Refuse, Finish
<1>2. pc'[h] = "idle" /\ \A g \in Handler \ {h} : pc'[g] = pc[g] /\ req'[g] = req[g] /\ target'[g] = target[g]
  BY <1>1 DEF TypeOK
<1>3. TypeOK'
  BY <1>1 DEF TypeOK, tables, Unlocked, PC
<1>4. RequestsOK'
  BY <1>1, <1>2 DEF RequestsOK, tables, Booking, InTx, Chosen
<1>5. RowsOK' /\ TablesAgree' /\ BaysApart' /\ VehiclesApart'
  BY <1>1 DEF RowsOK, TablesAgree, Story, BaysApart, VehiclesApart,
              HoldsBay, IsLive, tables
<1>6. VehicleClear'
  <2> SUFFICES ASSUME NEW g \in Handler, pc'[g] \in InTx
               PROVE  /\ vehicleLock'[req'[g].vehicle] = g
                      /\ pc'[g] \in {"notBusy"} \cup Chosen => ~VehicleBusy(req[g])'
    BY DEF VehicleClear, InTx, Chosen
  <2>1. g # h /\ pc[g] = pc'[g] /\ req'[g] = req[g]
    BY <1>2 DEF InTx, Chosen
  <2>2. req[g].vehicle \in Vehicle
    BY <2>1 DEF RequestsOK, Booking, BookReq
  <2> QED
    BY <1>1, <2>1, <2>2 DEF VehicleClear, VehicleBusy, IsLive, tables, Unlocked
<1>7. BayClear'
  BY <1>1, <1>2 DEF BayClear, BayTaken, Clash, HoldsBay, tables
<1> QED
  BY <1>3, <1>4, <1>5, <1>6, <1>7

\* The conjuncts that speak of the tables alone survive a step that leaves
\* the tables alone.
LEMMA TablesInv ==
  ASSUME RowsOK, TablesAgree, BaysApart, VehiclesApart, UNCHANGED tables
  PROVE  RowsOK' /\ TablesAgree' /\ BaysApart' /\ VehiclesApart'
BY DEF RowsOK, TablesAgree, Story, BaysApart, VehiclesApart,
       HoldsBay, IsLive, tables

\* A new booking request takes an id nobody else has.
LEMMA BookCheckInv ==
  ASSUME NEW h \in Handler, IInv, BookCheck(h)
  PROVE  IInv'
<1> USE DEF IInv
<1>1. PICK a \in Appt, c \in Customer, v \in Vehicle, hub \in Hub, d \in Duration :
        \E s \in Open[hub] .. (Close[hub] - d) :
          /\ Fresh(a)
          /\ req' = [req EXCEPT ![h] = [id |-> a, customer |-> c, vehicle |-> v, hub |-> hub,
                                        start |-> s, end |-> s + d, bay |-> -1]]
  BY DEF BookCheck
<1>2. PICK s \in Open[hub] .. (Close[hub] - d) :
          /\ Fresh(a)
          /\ req' = [req EXCEPT ![h] = [id |-> a, customer |-> c, vehicle |-> v, hub |-> hub,
                                        start |-> s, end |-> s + d, bay |-> -1]]
  BY <1>1
<1>3. s \in Time /\ s + d \in Time /\ s < s + d
  BY BookingAssumption DEF Time
<1>4. /\ pc[h] = "idle" /\ pc' = [pc EXCEPT ![h] = "checked"]
      /\ UNCHANGED <<now, tables, vehicleLock, target>>
  BY DEF BookCheck
<1>5. /\ req'[h] \in BookReq /\ req'[h].id = a /\ pc'[h] = "checked"
      /\ req'[h].start < req'[h].end
  BY <1>2, <1>3, <1>4 DEF TypeOK, BookReq
<1>6. \A g \in Handler \ {h} : pc'[g] = pc[g] /\ req'[g] = req[g]
  BY <1>2, <1>4 DEF TypeOK
<1>7. TypeOK'
  BY <1>2, <1>4, <1>5, <1>6 DEF TypeOK, tables, PC, Booking
<1>8. RequestsOK'
  <2>1. status'[a] = "NONE" /\ \A g \in Handler : pc[g] \in Booking => req[g].id # a
    BY <1>2, <1>4 DEF Fresh, tables
  <2> QED
    BY <1>4, <1>5, <1>6, <2>1 DEF RequestsOK, tables, Booking, InTx, Chosen
<1>9. VehicleClear' /\ BayClear'
  BY <1>4, <1>5, <1>6 DEF VehicleClear, VehicleBusy, BayClear, BayTaken, Clash,
                          HoldsBay, IsLive, InTx, Chosen, tables
<1> QED
  BY <1>4, <1>7, <1>8, <1>9, TablesInv

\* The advisory lock is free when it is taken, so no other transaction on the
\* same vehicle is between its lock and its commit.
LEMMA BookLockInv ==
  ASSUME NEW h \in Handler, IInv, BookLock(h)
  PROVE  IInv'
<1> USE DEF IInv
<1>1. /\ pc[h] = "checked" /\ vehicleLock[req[h].vehicle] = NoHandler
      /\ vehicleLock' = [vehicleLock EXCEPT ![req[h].vehicle] = h]
      /\ pc' = [pc EXCEPT ![h] = "locked"]
      /\ UNCHANGED <<now, tables, req, target>>
  BY DEF BookLock
<1>2. req[h].vehicle \in Vehicle
  BY <1>1 DEF RequestsOK, Booking, BookReq
<1>3. TypeOK'
  BY <1>1, <1>2 DEF TypeOK, tables, PC, Booking, InTx, Chosen
<1>4. RequestsOK'
  BY <1>1 DEF RequestsOK, TypeOK, tables, Booking, InTx, Chosen
<1>5. VehicleClear'
  <2>1. \A g \in Handler \ {h} : pc[g] \in InTx =>
          vehicleLock[req[g].vehicle] = g /\ req[g].vehicle # req[h].vehicle
    BY <1>1, BookingAssumption DEF VehicleClear
  <2> QED
    BY <1>1, <1>2, <2>1 DEF VehicleClear, VehicleBusy, IsLive, TypeOK, InTx, Chosen, tables
<1>6. BayClear'
  BY <1>1 DEF BayClear, BayTaken, Clash, HoldsBay, TypeOK, tables
<1> QED
  BY <1>1, <1>3, <1>4, <1>5, <1>6, TablesInv

\* VehicleBusy's answer is what VehicleClear records.
LEMMA BookVehicleInv ==
  ASSUME NEW h \in Handler, IInv, BookVehicle(h)
  PROVE  IInv'
<1> USE DEF IInv
<1>1. CASE VehicleBusy(req[h])
  BY <1>1, RefuseInv DEF BookVehicle
<1>2. CASE ~VehicleBusy(req[h])
  <2>1. /\ pc[h] = "locked" /\ pc' = [pc EXCEPT ![h] = "notBusy"]
        /\ UNCHANGED <<now, tables, vehicleLock, req, target>>
    BY <1>2 DEF BookVehicle
  <2>2. TypeOK'
    BY <2>1 DEF TypeOK, tables, PC, Booking, InTx, Chosen
  <2>3. RequestsOK'
    BY <2>1 DEF RequestsOK, TypeOK, tables, Booking, InTx, Chosen
  <2>4. VehicleClear'
    BY <1>2, <2>1 DEF VehicleClear, VehicleBusy, IsLive, TypeOK, InTx, Chosen, tables
  <2>5. BayClear'
    BY <2>1 DEF BayClear, BayTaken, Clash, HoldsBay, TypeOK, tables
  <2> QED
    BY <2>1, <2>2, <2>3, <2>4, <2>5, TablesInv
<1> QED
  BY <1>1, <1>2

\* Picking a bay changes the request only.
LEMMA BookBayInv ==
  ASSUME NEW h \in Handler, IInv, BookBay(h)
  PROVE  IInv'
<1> USE DEF IInv
<1>1. CASE Refuse(h)
  BY <1>1, RefuseInv
<1>2. CASE ~Refuse(h)
  <2>1. PICK b \in FreeBays(req[h]) :
          /\ req' = [req EXCEPT ![h].bay = b]
          /\ pc' = [pc EXCEPT ![h] = "picked"]
          /\ UNCHANGED <<now, tables, vehicleLock, target>>
    BY <1>2 DEF BookBay
  <2>2. b \in Bay /\ pc[h] = "notBusy"
    BY DEF FreeBays, BookBay
  <2>3. req[h] \in BookReq
    BY <2>2 DEF RequestsOK, Booking, InTx, Chosen
  <2>4. /\ req'[h] \in BookReq /\ req'[h].bay = b /\ req'[h].id = req[h].id
        /\ req'[h].vehicle = req[h].vehicle
        /\ req'[h].start = req[h].start /\ req'[h].end = req[h].end
    BY <2>1, <2>2, <2>3 DEF TypeOK, BookReq
  <2>5. \A g \in Handler \ {h} : req'[g] = req[g] /\ pc'[g] = pc[g]
    BY <2>1 DEF TypeOK
  <2>6. pc'[h] = "picked"
    BY <2>1 DEF TypeOK
  <2>7. TypeOK'
    BY <2>1, <2>4, <2>5 DEF TypeOK, tables, PC, Booking, InTx, Chosen
  <2>8. RequestsOK'
    BY <2>1, <2>2, <2>4, <2>5, <2>6 DEF RequestsOK, tables, Booking, InTx, Chosen
  <2>9. VehicleClear'
    BY <2>1, <2>2, <2>4, <2>5, <2>6
       DEF VehicleClear, VehicleBusy, Overlaps, IsLive, InTx, Chosen, tables
  <2>10. BayClear'
    BY <2>1, <2>4, <2>5, <2>6 DEF BayClear, BayTaken, Clash, HoldsBay, tables
  <2> QED
    BY <2>1, <2>7, <2>8, <2>9, <2>10, TablesInv
<1> QED
  BY <1>1, <1>2

\* A row that is not checked yet has been told nothing.
LEMMA BookInsertInv ==
  ASSUME NEW h \in Handler, IInv, BookInsert(h)
  PROVE  IInv'
<1> USE DEF IInv
<1>1. /\ pc[h] = "picked" /\ pc' = [pc EXCEPT ![h] = "inserting"]
      /\ UNCHANGED <<now, tables, vehicleLock, req, target>>
  BY DEF BookInsert
<1>2. TypeOK'
  BY <1>1 DEF TypeOK, tables, PC, Booking, InTx, Chosen
<1>3. RequestsOK'
  BY <1>1 DEF RequestsOK, TypeOK, tables, Booking, InTx, Chosen
<1>4. VehicleClear'
  BY <1>1 DEF VehicleClear, VehicleBusy, IsLive, TypeOK, InTx, Chosen, tables
<1>5. BayClear'
  BY <1>1 DEF BayClear, BayTaken, Clash, HoldsBay, TypeOK, tables
<1> QED
  BY <1>1, <1>2, <1>3, <1>4, <1>5, TablesInv

\* The exclusion constraint's verdict is what BayClear records.
LEMMA BookCreateInv ==
  ASSUME NEW h \in Handler, IInv, BookCreate(h)
  PROVE  IInv'
<1> USE DEF IInv
<1>1. CASE BayTaken(req[h])
  BY <1>1, RefuseInv DEF BookCreate
<1>2. CASE ~BayTaken(req[h])
  <2>1. /\ pc[h] = "inserting" /\ ~BayContended(h)
        /\ pc' = [pc EXCEPT ![h] = "inserted"]
        /\ UNCHANGED <<now, tables, vehicleLock, req, target>>
    BY <1>2 DEF BookCreate
  <2>2. TypeOK'
    BY <2>1 DEF TypeOK, tables, PC, Booking, InTx, Chosen
  <2>3. RequestsOK'
    BY <2>1 DEF RequestsOK, TypeOK, tables, Booking, InTx, Chosen
  <2>4. VehicleClear'
    BY <2>1 DEF VehicleClear, VehicleBusy, IsLive, TypeOK, InTx, Chosen, tables
  <2>5. BayClear'
    <3>1. \A g \in Handler : pc'[g] = "inserted" => ~BayTaken(req[g])'
      BY <1>2, <2>1 DEF BayClear, BayTaken, HoldsBay, TypeOK, tables
    <3>2. \A g \in Handler : pc[g] = "inserted" => ~Clash(h, g) /\ ~Clash(g, h)
      BY <2>1, OverlapsSymmetric DEF BayContended, Clash
    <3>3. \A g, k \in Handler : pc'[g] = "inserted" /\ pc'[k] = "inserted" => ~Clash(g, k)'
      BY <2>1, <3>2 DEF BayClear, Clash, TypeOK
    <3> QED
      BY <3>1, <3>3 DEF BayClear
  <2> QED
    BY <2>1, <2>2, <2>3, <2>4, <2>5, TablesInv
<1> QED
  BY <1>1, <1>2

\* The rows a commit makes visible clash with no row, committed or inserted:
\* VehicleClear and BayClear say so of the request they come from.
LEMMA BookCommitInv ==
  ASSUME NEW h \in Handler, IInv, BookCommit(h)
  PROVE  IInv'
<1> USE DEF IInv
<1> DEFINE a == req[h].id
           new == [customer |-> req[h].customer, vehicle |-> req[h].vehicle, bay |-> req[h].bay,
                   start |-> req[h].start, end |-> req[h].end]
<1>1. /\ pc[h] = "inserted"
      /\ row' = [row EXCEPT ![a] = new]
      /\ status' = [status EXCEPT ![a] = "BOOKED"]
      /\ bayStatus' = [bayStatus EXCEPT ![a] = "RESERVED"]
      /\ serviceStatus' = [serviceStatus EXCEPT ![a] = "PENDING"]
      /\ outbox' = [outbox EXCEPT ![a] = Append(outbox[a], "booked")]
      /\ pc' = [pc EXCEPT ![h] = "idle"]
      /\ req' = [req EXCEPT ![h] = NoReq]
      /\ target' = [target EXCEPT ![h] = NoAppt]
      /\ vehicleLock' = Unlocked(h)
      /\ now' = now
  BY DEF BookCommit, Finish
<1>2. /\ req[h] \in BookReq /\ req[h].bay \in Bay /\ status[a] = "NONE" /\ a \in Appt
      /\ req[h].start < req[h].end
  BY <1>1 DEF RequestsOK, Booking, InTx, Chosen, BookReq
<1>3. new \in Row /\ new.start < new.end
  BY <1>2 DEF Row, BookReq
<1>4. outbox[a] = <<>> /\ ~HoldsBay(a) /\ ~IsLive(a)
  BY <1>2 DEF TablesAgree, Story, HoldsBay, IsLive, Live
<1>5. \A g \in Handler \ {h} : pc'[g] = pc[g] /\ req'[g] = req[g] /\ target'[g] = target[g]
  BY <1>1 DEF TypeOK
<1>6. pc'[h] = "idle"
  BY <1>1 DEF TypeOK
<1>7. /\ row'[a] = new /\ status'[a] = "BOOKED" /\ bayStatus'[a] = "RESERVED"
      /\ serviceStatus'[a] = "PENDING" /\ outbox'[a] = <<"booked">>
      /\ \A x \in Appt \ {a} :
           /\ row'[x] = row[x] /\ status'[x] = status[x] /\ bayStatus'[x] = bayStatus[x]
           /\ serviceStatus'[x] = serviceStatus[x] /\ outbox'[x] = outbox[x]
  BY <1>1, <1>2, <1>4 DEF TypeOK
<1>8. TypeOK'
  <2>1. outbox' \in [Appt -> Seq(Topic)]
    BY <1>1, <1>2, <1>4 DEF TypeOK, Topic
  <2> QED
    BY <1>1, <1>2, <1>3, <2>1 DEF TypeOK, Unlocked, PC, Status, BayStatus, ServiceStatus
<1>9. RequestsOK'
  <2>1. \A g \in Handler \ {h} : pc[g] \in Booking => req[g].id # a
    BY <1>1 DEF RequestsOK, Booking, InTx, Chosen
  <2>2. \A g \in Handler \ {h} : pc[g] \in Booking => req[g].id \in Appt
    BY DEF RequestsOK, BookReq
  <2> QED
    BY <1>5, <1>6, <1>7, <2>1, <2>2 DEF RequestsOK, Booking, InTx, Chosen
<1>10. RowsOK'
  BY <1>3, <1>7 DEF RowsOK
<1>11. TablesAgree'
  BY <1>7 DEF TablesAgree, Story
<1>12. \A r : Overlaps(new, r) <=> Overlaps(req[h], r)
  BY DEF Overlaps
<1>13. BaysApart'
  <2>1. \A x \in Appt \ {a} : HoldsBay(x) /\ row[x].bay = new.bay =>
          ~Overlaps(row[x], new) /\ ~Overlaps(new, row[x])
    BY <1>1, <1>12, OverlapsSymmetric DEF BayClear, BayTaken
  <2> QED
    BY <1>7, <2>1 DEF BaysApart, HoldsBay
<1>14. VehiclesApart'
  <2>1. \A x \in Appt \ {a} : IsLive(x) /\ row[x].vehicle = new.vehicle =>
          ~Overlaps(row[x], new) /\ ~Overlaps(new, row[x])
    BY <1>1, <1>12, OverlapsSymmetric DEF VehicleClear, VehicleBusy, Chosen
  <2> QED
    BY <1>7, <2>1 DEF VehiclesApart, IsLive
<1>15. VehicleClear'
  <2> SUFFICES ASSUME NEW g \in Handler, pc'[g] \in InTx
               PROVE  /\ vehicleLock'[req'[g].vehicle] = g
                      /\ pc'[g] \in {"notBusy"} \cup Chosen => ~VehicleBusy(req[g])'
    BY DEF VehicleClear, InTx, Chosen
  <2>1. g # h /\ pc[g] = pc'[g] /\ req'[g] = req[g]
    BY <1>5, <1>6 DEF InTx, Chosen
  <2>2. req[g].vehicle \in Vehicle /\ vehicleLock[req[g].vehicle] = g
    BY <2>1 DEF RequestsOK, Booking, BookReq, VehicleClear
  <2>3. req[g].vehicle # req[h].vehicle
    BY <1>1, <2>1, <2>2 DEF VehicleClear, InTx, Chosen
  <2>4. ASSUME pc'[g] \in {"notBusy"} \cup Chosen
        PROVE  ~VehicleBusy(req[g])'
    BY <1>7, <2>1, <2>3, <2>4 DEF VehicleClear, VehicleBusy, IsLive
  <2> QED
    BY <1>1, <2>1, <2>2, <2>4 DEF Unlocked, VehicleBusy
<1>16. BayClear'
  <2> SUFFICES ASSUME NEW g \in Handler, pc'[g] = "inserted"
               PROVE  ~BayTaken(req[g])' /\ ~(\E k \in Handler : pc[k] = "inserted" /\ Clash(g, k))'
    BY DEF BayClear
  <2>1. g # h /\ pc[g] = "inserted" /\ req'[g] = req[g]
    BY <1>5, <1>6
  <2>2. req[g].bay = new.bay => ~Overlaps(new, req[g])
    BY <1>1, <1>12, <2>1, OverlapsSymmetric DEF BayClear, Clash
  <2>3. ~BayTaken(req[g])'
    BY <1>7, <2>1, <2>2 DEF BayClear, BayTaken, HoldsBay
  <2>4. ~(\E k \in Handler : pc[k] = "inserted" /\ Clash(g, k))'
    BY <1>5, <1>6, <2>1 DEF BayClear, Clash
  <2> QED
    BY <2>3, <2>4
<1> QED
  BY <1>8, <1>9, <1>10, <1>11, <1>13, <1>14, <1>15, <1>16

\* Reading an appointment before a Cancel or a Complete changes no table.
LEMMA ReadInv ==
  ASSUME NEW h \in Handler, IInv, CancelRead(h) \/ CompleteRead(h)
  PROVE  IInv'
<1> USE DEF IInv
<1>1. PICK a \in Appt, p \in {"cancelRead", "completeRead"} :
        /\ pc[h] = "idle" /\ pc' = [pc EXCEPT ![h] = p]
        /\ target' = [target EXCEPT ![h] = a]
        /\ UNCHANGED <<now, tables, vehicleLock, req>>
  BY DEF CancelRead, CompleteRead
<1>2. /\ pc'[h] = p /\ target'[h] = a
      /\ \A g \in Handler \ {h} : pc'[g] = pc[g] /\ target'[g] = target[g]
  BY <1>1 DEF TypeOK
<1>3. TypeOK'
  BY <1>1 DEF TypeOK, tables, PC
<1>4. RequestsOK'
  BY <1>1, <1>2 DEF RequestsOK, tables, Booking, InTx, Chosen
<1>5. VehicleClear' /\ BayClear'
  BY <1>1, <1>2 DEF VehicleClear, VehicleBusy, BayClear, BayTaken, Clash,
                    HoldsBay, IsLive, InTx, Chosen, tables
<1> QED
  BY <1>1, <1>3, <1>4, <1>5, TablesInv

\* What Cancel and Complete have in common: a live appointment leaves its
\* vehicle, its bay is held by no more than before, and the request ends.
LEMMA SettleInv ==
  ASSUME NEW h \in Handler, IInv, NEW a \in Appt,
         Finish(h), UNCHANGED row,
         status' \in [Appt -> Status \cup {"NONE"}],
         bayStatus' \in [Appt -> BayStatus \cup {"NONE"}],
         serviceStatus' \in [Appt -> ServiceStatus \cup {"NONE"}],
         outbox' \in [Appt -> Seq(Topic)],
         status[a] = "BOOKED", status'[a] \in {"CANCELLED", "COMPLETED"},
         \A x \in Appt \ {a} : status'[x] = status[x] /\ bayStatus'[x] = bayStatus[x],
         TablesAgree'
  PROVE  IInv'
<1> USE DEF IInv
<1>1. /\ pc' = [pc EXCEPT ![h] = "idle"] /\ req' = [req EXCEPT ![h] = NoReq]
      /\ target' = [target EXCEPT ![h] = NoAppt] /\ vehicleLock' = Unlocked(h)
      /\ now' = now /\ row' = row
  BY DEF Finish
<1>2. pc'[h] = "idle" /\ \A g \in Handler \ {h} : pc'[g] = pc[g] /\ req'[g] = req[g] /\ target'[g] = target[g]
  BY <1>1 DEF TypeOK
<1>3. HoldsBay(a)
  BY DEF TablesAgree, Story, HoldsBay
<1>4. \A x \in Appt : /\ HoldsBay(x)' => HoldsBay(x)
                      /\ IsLive(x)' => IsLive(x)
                      /\ status'[x] = "NONE" <=> status[x] = "NONE"
  BY <1>3 DEF HoldsBay, IsLive, Live
<1>5. TypeOK'
  BY <1>1 DEF TypeOK, Unlocked, PC
<1>6. RequestsOK'
  <2>1. \A g \in Handler : pc[g] \in Booking => req[g].id \in Appt
    BY DEF RequestsOK, BookReq
  <2> QED
    BY <1>1, <1>2, <1>4, <2>1 DEF RequestsOK, Booking, InTx, Chosen
<1>7. RowsOK' /\ BaysApart' /\ VehiclesApart'
  BY <1>1, <1>4 DEF RowsOK, BaysApart, VehiclesApart
<1>8. VehicleClear'
  <2> SUFFICES ASSUME NEW g \in Handler, pc'[g] \in InTx
               PROVE  /\ vehicleLock'[req'[g].vehicle] = g
                      /\ pc'[g] \in {"notBusy"} \cup Chosen => ~VehicleBusy(req[g])'
    BY DEF VehicleClear, InTx, Chosen
  <2>1. g # h /\ pc[g] = pc'[g] /\ req'[g] = req[g]
    BY <1>2 DEF InTx, Chosen
  <2>2. req[g].vehicle \in Vehicle
    BY <2>1 DEF RequestsOK, Booking, BookReq
  <2> QED
    BY <1>1, <1>4, <2>1, <2>2 DEF VehicleClear, VehicleBusy, Unlocked
<1>9. BayClear'
  BY <1>1, <1>2, <1>4 DEF BayClear, BayTaken, Clash
<1> QED
  BY <1>5, <1>6, <1>7, <1>8, <1>9

\* A cancelled appointment gives up its vehicle and its bay: less can clash.
LEMMA CancelCommitInv ==
  ASSUME NEW h \in Handler, IInv, CancelCommit(h)
  PROVE  IInv'
<1> USE DEF IInv
<1> DEFINE a == target[h]
<1>1. CASE status[a] # "BOOKED"
  BY <1>1, RefuseInv DEF CancelCommit, Refuse
<1>2. CASE status[a] = "BOOKED"
  <2>1. /\ pc[h] = "cancelRead"
        /\ status' = [status EXCEPT ![a] = "CANCELLED"]
        /\ bayStatus' = [bayStatus EXCEPT ![a] = "CANCELLED"]
        /\ serviceStatus' = [serviceStatus EXCEPT ![a] = "CANCELLED"]
        /\ outbox' = [outbox EXCEPT ![a] = Append(outbox[a], "cancelled")]
        /\ UNCHANGED row
    BY <1>2 DEF CancelCommit
  <2>2. a \in Appt
    BY <2>1 DEF RequestsOK
  <2>3. outbox[a] = <<"booked">> /\ outbox'[a] = <<"booked", "cancelled">>
    <3>1. outbox[a] = <<"booked">>
      BY <1>2, <2>2 DEF TablesAgree, Story
    <3>2. outbox'[a] = Append(outbox[a], "cancelled")
      BY <2>1, <2>2 DEF TypeOK
    <3> QED
      BY <3>1, <3>2, AppendToOne
  <2>4. /\ status'[a] = "CANCELLED" /\ bayStatus'[a] = "CANCELLED" /\ serviceStatus'[a] = "CANCELLED"
        /\ \A x \in Appt \ {a} :
             /\ status'[x] = status[x] /\ bayStatus'[x] = bayStatus[x]
             /\ serviceStatus'[x] = serviceStatus[x] /\ outbox'[x] = outbox[x]
    BY <2>1, <2>2 DEF TypeOK
  <2>5. /\ status' \in [Appt -> Status \cup {"NONE"}]
        /\ bayStatus' \in [Appt -> BayStatus \cup {"NONE"}]
        /\ serviceStatus' \in [Appt -> ServiceStatus \cup {"NONE"}]
        /\ outbox' \in [Appt -> Seq(Topic)]
    BY <2>1, <2>2, <2>3 DEF TypeOK, Status, BayStatus, ServiceStatus, Topic
  <2>6. TablesAgree'
    BY <2>3, <2>4 DEF TablesAgree, Story
  <2> QED
    BY <1>2, <2>1, <2>2, <2>4, <2>5, <2>6, SettleInv DEF CancelCommit
<1> QED
  BY <1>1, <1>2

\* A completed appointment gives up its vehicle but keeps its bay.
LEMMA CompleteCommitInv ==
  ASSUME NEW h \in Handler, IInv, CompleteCommit(h)
  PROVE  IInv'
<1> USE DEF IInv
<1> DEFINE a == target[h]
<1>1. CASE status[a] \notin Live
  BY <1>1, RefuseInv DEF CompleteCommit, Refuse
<1>2. CASE status[a] \in Live
  <2>1. /\ pc[h] = "completeRead"
        /\ status' = [status EXCEPT ![a] = "COMPLETED"]
        /\ bayStatus' = [bayStatus EXCEPT ![a] =
                           IF bayStatus[a] \in {"RESERVED", "OCCUPIED"} THEN "RELEASED" ELSE bayStatus[a]]
        /\ serviceStatus' = [serviceStatus EXCEPT ![a] =
                           IF serviceStatus[a] # "CANCELLED" THEN "DONE" ELSE serviceStatus[a]]
        /\ outbox' = [outbox EXCEPT ![a] = Append(outbox[a], "service-completed")]
        /\ UNCHANGED row
    BY <1>2 DEF CompleteCommit
  <2>2. a \in Appt
    BY <2>1 DEF RequestsOK
  <2>3. /\ status[a] = "BOOKED" /\ bayStatus[a] = "RESERVED" /\ serviceStatus[a] = "PENDING"
        /\ outbox[a] = <<"booked">> /\ outbox'[a] = <<"booked", "service-completed">>
    <3>1. /\ status[a] = "BOOKED" /\ bayStatus[a] = "RESERVED" /\ serviceStatus[a] = "PENDING"
          /\ outbox[a] = <<"booked">>
      BY <1>2, <2>2 DEF TablesAgree, Story, Live
    <3>2. outbox'[a] = Append(outbox[a], "service-completed")
      BY <2>1, <2>2 DEF TypeOK
    <3> QED
      BY <3>1, <3>2, AppendToOne
  <2>4. /\ status'[a] = "COMPLETED" /\ bayStatus'[a] = "RELEASED" /\ serviceStatus'[a] = "DONE"
        /\ \A x \in Appt \ {a} :
             /\ status'[x] = status[x] /\ bayStatus'[x] = bayStatus[x]
             /\ serviceStatus'[x] = serviceStatus[x] /\ outbox'[x] = outbox[x]
    BY <2>1, <2>2, <2>3 DEF TypeOK
  <2>5. /\ status' \in [Appt -> Status \cup {"NONE"}]
        /\ bayStatus' \in [Appt -> BayStatus \cup {"NONE"}]
        /\ serviceStatus' \in [Appt -> ServiceStatus \cup {"NONE"}]
        /\ outbox' \in [Appt -> Seq(Topic)]
    BY <2>1, <2>2, <2>3 DEF TypeOK, Status, BayStatus, ServiceStatus, Topic
  <2>6. TablesAgree'
    BY <2>3, <2>4 DEF TablesAgree, Story
  <2> QED
    BY <2>1, <2>2, <2>3, <2>4, <2>5, <2>6, SettleInv DEF CompleteCommit
<1> QED
  BY <1>1, <1>2

\* The clock is in no conjunct but its own.
LEMMA TickInv ==
  ASSUME IInv, Tick
  PROVE  IInv'
<1> USE DEF IInv
<1>1. now' \in Time /\ UNCHANGED <<tables, vehicleLock, pc, req, target>>
  BY BookingAssumption DEF Tick, TypeOK, Time
<1>2. TypeOK'
  BY <1>1 DEF TypeOK, tables
<1>3. RequestsOK' /\ VehicleClear' /\ BayClear'
  BY <1>1 DEF RequestsOK, VehicleClear, VehicleBusy, BayClear, BayTaken, Clash,
              HoldsBay, IsLive, tables
<1> QED
  BY <1>1, <1>2, <1>3, TablesInv

\* Every step of every request preserves the invariant.
LEMMA NextInv == IInv /\ [Next]_vars => IInv'
<1> SUFFICES ASSUME IInv, [Next]_vars PROVE IInv'
  OBVIOUS
<1>1. CASE UNCHANGED vars
  <2>1. /\ now' = now /\ vehicleLock' = vehicleLock /\ pc' = pc /\ req' = req /\ target' = target
        /\ UNCHANGED tables
    BY <1>1 DEF vars, tables
  <2>2. TypeOK' /\ RequestsOK' /\ VehicleClear' /\ BayClear'
    BY <2>1 DEF IInv, TypeOK, RequestsOK, VehicleClear, VehicleBusy, BayClear, BayTaken,
                Clash, HoldsBay, IsLive, tables
  <2> QED
    BY <2>1, <2>2, TablesInv DEF IInv
<1>2. CASE Tick
  BY <1>2, TickInv
<1>3. ASSUME NEW h \in Handler,
             \/ BookCheck(h) \/ BookLock(h) \/ BookVehicle(h) \/ BookBay(h)
             \/ BookInsert(h) \/ BookCreate(h) \/ BookDeadlock(h) \/ BookCommit(h)
             \/ CancelRead(h) \/ CancelCommit(h)
             \/ CompleteRead(h) \/ CompleteCommit(h)
             \/ Fail(h)
      PROVE  IInv'
  <2>1. CASE BookCheck(h) \/ BookLock(h) \/ BookVehicle(h) \/ BookBay(h)
    BY <2>1, BookCheckInv, BookLockInv, BookVehicleInv, BookBayInv
  <2>2. CASE BookInsert(h) \/ BookCreate(h) \/ BookDeadlock(h) \/ BookCommit(h)
    BY <2>2, BookInsertInv, BookCreateInv, BookCommitInv, RefuseInv DEF BookDeadlock
  <2>3. CASE CancelRead(h) \/ CompleteRead(h)
    BY <2>3, ReadInv
  <2>4. CASE CancelCommit(h) \/ CompleteCommit(h)
    BY <2>4, CancelCommitInv, CompleteCommitInv
  <2>5. CASE Fail(h)
    BY <2>5, RefuseInv DEF Fail
  <2> QED
    BY <1>3, <2>1, <2>2, <2>3, <2>4, <2>5
<1> QED
  BY <1>1, <1>2, <1>3 DEF Next

\* The inductive invariant holds throughout: while a booking transaction is
\* open, what its reads established about its vehicle and its bay stays true.
THEOREM Invariant == Spec => []IInv
BY InitInv, NextInv, PTL DEF Spec

\* Every table column and every request keeps to its domain.
THEOREM TypeCorrect == Spec => []TypeOK
<1>1. IInv => TypeOK
  BY DEF IInv
<1> QED
  BY <1>1, Invariant, PTL

\* What is kept apart shares no instant.
LEMMA ApartAtAllTimes == IInv => NoBayDoubleBooking /\ NoVehicleDoubleBooking
<1> SUFFICES ASSUME IInv PROVE NoBayDoubleBooking /\ NoVehicleDoubleBooking
  OBVIOUS
<1> USE DEF IInv
<1>1. ASSUME NEW a \in Appt, HoldsBay(a) \/ IsLive(a)
      PROVE  row[a].start \in Int /\ row[a].end \in Int
  <2>1. status[a] # "NONE"
    BY <1>1 DEF TablesAgree, Story, HoldsBay, IsLive, Live
  <2> QED
    BY <2>1, BookingAssumption DEF RowsOK, Row, Time
<1>2. NoBayDoubleBooking
  BY <1>1, OverlapsAtAnInstant DEF NoBayDoubleBooking, BaysApart
<1>3. NoVehicleDoubleBooking
  BY <1>1, OverlapsAtAnInstant DEF NoVehicleDoubleBooking, VehiclesApart
<1> QED
  BY <1>2, <1>3

\* At no instant is a bay held by two appointments, however many Book
\* transactions race for it: FreeBay may be wrong, the constraint is not.
THEOREM BaySafe == Spec => []NoBayDoubleBooking
<1>1. IInv => NoBayDoubleBooking
  BY ApartAtAllTimes
<1> QED
  BY <1>1, Invariant, PTL

\* At no instant is a vehicle in two live appointments: the advisory lock
\* makes the VehicleBusy check and the insert one step for each vehicle.
THEOREM VehicleSafe == Spec => []NoVehicleDoubleBooking
<1>1. IInv => NoVehicleDoubleBooking
  BY ApartAtAllTimes
<1> QED
  BY <1>1, Invariant, PTL

\* Appointment, bay, services and announcements always tell the same story,
\* with at most one final event per appointment.
THEOREM TablesAlwaysAgree == Spec => []TablesAgree
<1>1. IInv => TablesAgree
  BY DEF IInv
<1> QED
  BY <1>1, Invariant, PTL

-----------------------------------------------------------------------------
(* Steps: what a settled appointment keeps, and the calendar implemented.  *)

\* The steps that change the tables are the three commits.
LEMMA TableSteps ==
  ASSUME [Next]_vars
  PROVE  \/ UNCHANGED tables
         \/ \E h \in Handler : BookCommit(h)
         \/ \E h \in Handler : CancelCommit(h) /\ status[target[h]] = "BOOKED"
         \/ \E h \in Handler : CompleteCommit(h) /\ status[target[h]] \in Live
<1>1. CASE UNCHANGED vars
  BY <1>1 DEF vars, tables
<1>2. CASE Tick
  BY <1>2 DEF Tick
<1>3. ASSUME NEW h \in Handler,
             \/ BookCheck(h) \/ BookLock(h) \/ BookVehicle(h) \/ BookBay(h)
             \/ BookInsert(h) \/ BookCreate(h) \/ BookDeadlock(h)
             \/ CancelRead(h) \/ CompleteRead(h) \/ Fail(h)
      PROVE  UNCHANGED tables
  BY <1>3 DEF BookCheck, BookLock, BookVehicle, BookBay, BookInsert, BookCreate,
              BookDeadlock, CancelRead, CompleteRead, Fail, Refuse
<1>4. ASSUME NEW h \in Handler, CancelCommit(h), status[target[h]] # "BOOKED"
      PROVE  UNCHANGED tables
  BY <1>4 DEF CancelCommit
<1>5. ASSUME NEW h \in Handler, CompleteCommit(h), status[target[h]] \notin Live
      PROVE  UNCHANGED tables
  BY <1>5 DEF CompleteCommit
<1> QED
  BY <1>1, <1>2, <1>3, <1>4, <1>5 DEF Next

\* What each commit does to the one appointment it is about.
LEMMA CommitEffect ==
  ASSUME IInv, [Next]_vars, ~UNCHANGED tables
  PROVE  \E a \in Appt :
           /\ \A x \in Appt \ {a} :
                /\ row'[x] = row[x] /\ status'[x] = status[x]
                /\ bayStatus'[x] = bayStatus[x] /\ outbox'[x] = outbox[x]
           /\ \/ /\ status[a] = "NONE" /\ status'[a] = "BOOKED"
                 /\ outbox' = [outbox EXCEPT ![a] = Append(outbox[a], "booked")]
                 /\ row'[a] \in Row
                 /\ \A x \in Appt :
                      /\ (HoldsBay(x) /\ row[x].bay = row'[a].bay) => ~Overlaps(row[x], row'[a])
                      /\ (IsLive(x) /\ row[x].vehicle = row'[a].vehicle) => ~Overlaps(row[x], row'[a])
              \/ /\ status[a] = "BOOKED" /\ status'[a] = "CANCELLED"
                 /\ outbox' = [outbox EXCEPT ![a] = Append(outbox[a], "cancelled")]
                 /\ row' = row
              \/ /\ status[a] = "BOOKED" /\ status'[a] = "COMPLETED"
                 /\ outbox' = [outbox EXCEPT ![a] = Append(outbox[a], "service-completed")]
                 /\ row' = row
<1> USE DEF IInv
<1>1. ASSUME NEW h \in Handler, BookCommit(h)
      PROVE  /\ req[h].id \in Appt /\ status[req[h].id] = "NONE"
             /\ row' = [row EXCEPT ![req[h].id] =
                    [customer |-> req[h].customer, vehicle |-> req[h].vehicle, bay |-> req[h].bay,
                     start |-> req[h].start, end |-> req[h].end]]
             /\ status' = [status EXCEPT ![req[h].id] = "BOOKED"]
             /\ bayStatus' = [bayStatus EXCEPT ![req[h].id] = "RESERVED"]
             /\ outbox' = [outbox EXCEPT ![req[h].id] = Append(outbox[req[h].id], "booked")]
             /\ req[h] \in BookReq /\ req[h].bay \in Bay
             /\ ~BayTaken(req[h]) /\ ~VehicleBusy(req[h])
  BY <1>1 DEF BookCommit, RequestsOK, Booking, InTx, Chosen, BookReq, BayClear, VehicleClear
<1>2. CASE \E h \in Handler : BookCommit(h)
  <2>1. PICK h \in Handler : BookCommit(h)
    BY <1>2
  <2> DEFINE a == req[h].id
             new == [customer |-> req[h].customer, vehicle |-> req[h].vehicle, bay |-> req[h].bay,
                     start |-> req[h].start, end |-> req[h].end]
  <2>2. a \in Appt /\ row'[a] = new /\ status'[a] = "BOOKED"
    BY <1>1, <2>1 DEF TypeOK
  <2>3. new \in Row /\ \A r : Overlaps(r, new) <=> Overlaps(r, req[h])
    BY <1>1, <2>1 DEF Row, BookReq, Overlaps
  <2>4. \A x \in Appt : /\ (HoldsBay(x) /\ row[x].bay = new.bay) => ~Overlaps(row[x], new)
                        /\ (IsLive(x) /\ row[x].vehicle = new.vehicle) => ~Overlaps(row[x], new)
    BY <1>1, <2>1, <2>3 DEF BayTaken, VehicleBusy
  <2>5. \A x \in Appt \ {a} : /\ row'[x] = row[x] /\ status'[x] = status[x]
                              /\ bayStatus'[x] = bayStatus[x] /\ outbox'[x] = outbox[x]
    <3>1. \A x \in Appt \ {a} : row'[x] = row[x]
      BY <1>1, <2>1 DEF TypeOK
    <3>2. \A x \in Appt \ {a} : status'[x] = status[x] /\ bayStatus'[x] = bayStatus[x]
      BY <1>1, <2>1 DEF TypeOK
    <3>3. \A x \in Appt \ {a} : outbox'[x] = outbox[x]
      BY <1>1, <2>1 DEF TypeOK
    <3> QED
      BY <3>1, <3>2, <3>3
  <2> HIDE DEF a, new
  <2>6. status[a] = "NONE" /\ outbox' = [outbox EXCEPT ![a] = Append(outbox[a], "booked")]
    BY <1>1, <2>1 DEF a
  <2> QED
    BY <2>2, <2>3, <2>4, <2>5, <2>6
<1>3. CASE \E h \in Handler : CancelCommit(h) /\ status[target[h]] = "BOOKED"
  <2>1. PICK h \in Handler : CancelCommit(h) /\ status[target[h]] = "BOOKED"
    BY <1>3
  <2>2. target[h] \in Appt
    BY <2>1 DEF CancelCommit, RequestsOK
  <2> QED
    BY <2>1, <2>2 DEF CancelCommit, TypeOK
<1>4. CASE \E h \in Handler : CompleteCommit(h) /\ status[target[h]] \in Live
  <2>1. PICK h \in Handler : CompleteCommit(h) /\ status[target[h]] \in Live
    BY <1>4
  <2>2. target[h] \in Appt
    BY <2>1 DEF CompleteCommit, RequestsOK
  <2>3. status[target[h]] = "BOOKED"
    BY <2>1, <2>2 DEF TablesAgree, Story, Live
  <2> QED
    BY <2>1, <2>2, <2>3 DEF CompleteCommit, TypeOK
<1> QED
  BY <1>2, <1>3, <1>4, TableSteps

\* A completed or cancelled appointment never changes again.
THEOREM SettledForGood == Spec => Settled
<1> DEFINE Kept == \A a \in Appt : status[a] \in {"COMPLETED", "CANCELLED"}
        => status'[a] = status[a] /\ bayStatus'[a] = bayStatus[a] /\ outbox'[a] = outbox[a]
<1>1. IInv /\ [Next]_vars => [Kept]_vars
  <2> SUFFICES ASSUME IInv, [Next]_vars PROVE Kept
    OBVIOUS
  <2>1. CASE UNCHANGED tables
    BY <2>1 DEF tables
  <2>2. CASE ~UNCHANGED tables
    BY <2>2, CommitEffect
  <2> QED
    BY <2>1, <2>2
<1> QED
  BY <1>1, Invariant, PTL DEF Spec, Settled

\* Booking implements BayCalendar: the row a commit adds could be reserved in
\* the calendar at that moment, and nothing else than the three commits can be
\* seen in it.
THEOREM ImplementsCalendar == Spec => IsACalendar
<1>1. Init => Calendar!Init
  BY DEF Init, Calendar!Init, calEntry, calState
<1>2. IInv /\ [Next]_vars => [Calendar!Next]_(Calendar!cvars)
  <2> SUFFICES ASSUME IInv, [Next]_vars
               PROVE  [Calendar!Next]_(Calendar!cvars)
    OBVIOUS
  <2>1. CASE UNCHANGED tables
    BY <2>1 DEF tables, Calendar!cvars, calEntry, calState
  <2>2. CASE ~UNCHANGED tables
    <3>1. PICK a \in Appt :
           /\ \A x \in Appt \ {a} :
                /\ row'[x] = row[x] /\ status'[x] = status[x]
                /\ bayStatus'[x] = bayStatus[x] /\ outbox'[x] = outbox[x]
           /\ \/ /\ status[a] = "NONE" /\ status'[a] = "BOOKED"
                 /\ outbox' = [outbox EXCEPT ![a] = Append(outbox[a], "booked")]
                 /\ row'[a] \in Row
                 /\ \A x \in Appt :
                      /\ (HoldsBay(x) /\ row[x].bay = row'[a].bay) => ~Overlaps(row[x], row'[a])
                      /\ (IsLive(x) /\ row[x].vehicle = row'[a].vehicle) => ~Overlaps(row[x], row'[a])
              \/ /\ status[a] = "BOOKED" /\ status'[a] = "CANCELLED"
                 /\ outbox' = [outbox EXCEPT ![a] = Append(outbox[a], "cancelled")]
                 /\ row' = row
              \/ /\ status[a] = "BOOKED" /\ status'[a] = "COMPLETED"
                 /\ outbox' = [outbox EXCEPT ![a] = Append(outbox[a], "service-completed")]
                 /\ row' = row
      BY <2>2, CommitEffect
    <3>2. CASE status[a] = "NONE"
      <4> DEFINE p == row'[a]
      <4>1. p \in Calendar!Place
        BY <3>1, <3>2 DEF Row, Calendar!Place
      <4>2. Calendar!Admits(p)
        <5> SUFFICES ASSUME NEW x \in Appt, NEW q \in calEntry[x], Calendar!Clash(q, p)
                     PROVE  /\ q.bay = p.bay => calState[x] = "cancelled"
                            /\ q.vehicle = p.vehicle => calState[x] \in {"done", "cancelled"}
          BY DEF Calendar!Admits
        <5>1. status[x] # "NONE" /\ q = row[x]
          BY DEF calEntry
        <5>2. Overlaps(row[x], p)
          BY <5>1 DEF Calendar!Clash, Overlaps
        <5>3. (row[x].bay = p.bay => ~HoldsBay(x)) /\ (row[x].vehicle = p.vehicle => ~IsLive(x))
          BY <3>1, <3>2, <5>2
        <5>4. ~HoldsBay(x) => status[x] = "CANCELLED"
          BY <5>1 DEF IInv, TablesAgree, Story, HoldsBay
        <5>5. ~IsLive(x) => status[x] \in {"CANCELLED", "COMPLETED"}
          BY <5>1 DEF IInv, TablesAgree, Story, IsLive, Live
        <5> QED
          BY <5>1, <5>3, <5>4, <5>5 DEF calState
      <4>3. calEntry' = [calEntry EXCEPT ![a] = {p}]
        BY <3>1, <3>2 DEF calEntry
      <4>4. calState[a] = "none" /\ calState' = [calState EXCEPT ![a] = "live"]
        BY <3>1, <3>2 DEF calState
      <4> QED
        BY <3>1, <3>2, <4>1, <4>2, <4>3, <4>4 DEF Calendar!Next, Calendar!Reserve
    <3>3. CASE status[a] = "BOOKED" /\ status'[a] = "CANCELLED"
      <4>1. calEntry' = calEntry
        BY <3>1, <3>3 DEF calEntry
      <4>2. calState[a] = "live" /\ calState' = [calState EXCEPT ![a] = "cancelled"]
        BY <3>1, <3>3 DEF calState
      <4> QED
        BY <3>1, <3>3, <4>1, <4>2 DEF Calendar!Next, Calendar!Settle
    <3>4. CASE status[a] = "BOOKED" /\ status'[a] = "COMPLETED"
      <4>1. calEntry' = calEntry
        BY <3>1, <3>4 DEF calEntry
      <4>2. calState[a] = "live" /\ calState' = [calState EXCEPT ![a] = "done"]
        BY <3>1, <3>4 DEF calState
      <4> QED
        BY <3>1, <3>4, <4>1, <4>2 DEF Calendar!Next, Calendar!Settle
    <3> QED
      BY <3>1, <3>2, <3>3, <3>4
  <2> QED
    BY <2>1, <2>2
<1> QED
  BY <1>1, <1>2, Invariant, PTL DEF Spec, IsACalendar, Calendar!Spec

-----------------------------------------------------------------------------
(* Availability: what it offers is what Book would find.                   *)

\* A set of natural numbers that is not empty has a least element.
LEMMA LeastOf ==
  ASSUME NEW S \in SUBSET Nat, S # {}
  PROVE  \E x \in S : \A y \in S : x <= y
<1> DEFINE R == StrictSubsetOrdering(Nat)
           T == {1 .. x : x \in S}
<1>1. IsWellFoundedOn(R, FiniteSubsetsOf(Nat))
  BY FS_StrictSubsetOrderingWellFounded
<1>2. T \subseteq FiniteSubsetsOf(Nat) /\ T # {}
  <2>1. ASSUME NEW x \in S PROVE 1 .. x \in FiniteSubsetsOf(Nat)
    <3>1. x \in Int /\ IsFiniteSet(1 .. x) /\ 1 .. x \in SUBSET Nat
      BY FS_Interval
    <3> QED
      BY <3>1 DEF FiniteSubsetsOf
  <2> QED
    BY <2>1
<1>3. PICK t \in T : \A u \in T : ~(<<u, t>> \in R)
  <2> HIDE DEF R, T
  <2> QED
    BY <1>1, <1>2, WFMin
<1>4. PICK x \in S : t = 1 .. x
  OBVIOUS
<1>5. ASSUME NEW y \in S, y < x PROVE FALSE
  <2>1. 1 .. y \subseteq 1 .. x /\ x \in 1 .. x /\ x \notin 1 .. y /\ 1 .. x \subseteq Nat
    BY <1>5
  <2>2. 1 .. y \in SUBSET Nat /\ 1 .. x \in SUBSET Nat /\ 1 .. y # 1 .. x
    BY <2>1
  <2>3. <<1 .. y, t>> \in R
    BY <2>1, <2>2, <1>4 DEF StrictSubsetOrdering
  <2> QED
    BY <2>3, <1>3
<1> QED
  BY <1>5

\* The greatest element of a set of positions: what FoldLeft takes last.
LEMMA MaxOf ==
  ASSUME NEW n \in Nat, NEW s \in SUBSET (1 .. n), s # {}
  PROVE  Max(s) \in s /\ \A i \in s : Max(s) >= i
<1> DEFINE T == {n - i : i \in s}
<1>0. \A i \in s : i \in Int /\ i <= n /\ n - i \in Nat
  OBVIOUS
<1>1. T \in SUBSET Nat /\ T # {}
  BY <1>0
<1>2. PICK t \in T : \A u \in T : t <= u
  <2> HIDE DEF T
  <2> QED
    BY <1>1, LeastOf
<1>3. PICK x \in s : t = n - x
  OBVIOUS
<1>4. \A i \in s : n - x <= n - i
  BY <1>2, <1>3
<1>5. \A i \in s : x >= i
  BY <1>0, <1>4
<1> QED
  BY <1>5 DEF Max

\* The last of the first k positions, and those before it.
LEMMA LastOfPrefix ==
  ASSUME NEW n \in Nat, NEW k \in 1 .. n
  PROVE  Max(1 .. k) = k /\ (1 .. k) \ {k} = 1 .. k - 1
<1>1. 1 .. k \in SUBSET (1 .. n) /\ 1 .. k # {} /\ k \in 1 .. k
  OBVIOUS
<1>2. Max(1 .. k) \in 1 .. k /\ Max(1 .. k) >= k
  BY <1>1, MaxOf
<1> QED
  BY <1>2

\* A part of a finite set has fewer elements.
LEMMA Fewer ==
  ASSUME NEW S, IsFiniteSet(S), NEW s \in SUBSET S
  PROVE  /\ IsFiniteSet(s) /\ Cardinality(s) \in Nat
         /\ \A t \in SUBSET s : t # s => Cardinality(t) < Cardinality(s)
<1>1. IsFiniteSet(s) /\ Cardinality(s) \in Nat
  BY FS_Subset, FS_CardinalityType
<1>2. ASSUME NEW t \in SUBSET s, t # s PROVE Cardinality(t) < Cardinality(s)
  <2>1. IsFiniteSet(t) /\ Cardinality(t) <= Cardinality(s) /\ Cardinality(t) # Cardinality(s)
    BY <1>1, <1>2, FS_Subset
  <2>2. Cardinality(t) \in Nat
    BY <2>1, FS_CardinalityType
  <2> QED
    BY <1>1, <2>1, <2>2
<1> QED
  BY <1>1, <1>2

\* A function on the subsets of S that takes its value at a set from a smaller
\* one, as the recursion of MapThenFoldSet asks.
IsFold(F, S, V, base, rest, step) ==
  /\ F \in [SUBSET S -> V]
  /\ \A s \in SUBSET S : F[s] = IF s = {} THEN base ELSE step[s][F[rest[s]]]
FoldUpTo(n, F, S, V, base, rest, step) ==
  /\ F \in [SUBSET S -> V]
  /\ \A s \in SUBSET S :
       Cardinality(s) <= n => F[s] = IF s = {} THEN base ELSE step[s][F[rest[s]]]

\* A fold that is right for sets of up to n elements can be continued to n + 1.
LEMMA FoldGrows ==
  ASSUME NEW S, IsFiniteSet(S), NEW V, NEW base \in V, NEW rest \in [SUBSET S -> SUBSET S],
         NEW step \in [SUBSET S -> [V -> V]],
         \A s \in SUBSET S : s # {} => rest[s] \subseteq s /\ rest[s] # s,
         NEW n \in Nat, NEW F, FoldUpTo(n, F, S, V, base, rest, step)
  PROVE  \E G : FoldUpTo(n + 1, G, S, V, base, rest, step)
<1> DEFINE G == [s \in SUBSET S |-> IF Cardinality(s) <= n THEN F[s] ELSE step[s][F[rest[s]]]]
<1>1. F \in [SUBSET S -> V]
  BY DEF FoldUpTo
<1>2. G \in [SUBSET S -> V]
  BY <1>1
<1>3. ASSUME NEW s \in SUBSET S, Cardinality(s) <= n + 1
      PROVE  G[s] = IF s = {} THEN base ELSE step[s][G[rest[s]]]
  <2>1. Cardinality(s) \in Nat
    BY Fewer
  <2>2. CASE s = {}
    <3>1. Cardinality(s) <= n
      BY <2>2, FS_EmptySet
    <3> QED
      BY <3>1, <2>2 DEF FoldUpTo
  <2>3. CASE s # {}
    <3>1. rest[s] \in SUBSET S /\ rest[s] \in SUBSET s /\ rest[s] # s
      BY <2>3
    <3>2. Cardinality(rest[s]) < Cardinality(s) /\ Cardinality(rest[s]) \in Nat
      BY <3>1, Fewer
    <3>3. G[rest[s]] = F[rest[s]]
      BY <3>1, <3>2, <2>1, <1>3
    <3>4. G[s] = step[s][F[rest[s]]]
      <4>1. CASE Cardinality(s) <= n
        BY <4>1, <2>3 DEF FoldUpTo
      <4>2. CASE ~(Cardinality(s) <= n)
        BY <4>2
      <4> QED
        BY <4>1, <4>2
    <3> QED
      BY <2>3, <3>3, <3>4
  <2> QED
    BY <2>2, <2>3
<1> HIDE DEF G
<1> QED
  BY <1>2, <1>3 DEF FoldUpTo

\* So there is a fold that is right for every subset.
LEMMA FoldExists ==
  ASSUME NEW S, IsFiniteSet(S), NEW V, NEW base \in V, NEW rest \in [SUBSET S -> SUBSET S],
         NEW step \in [SUBSET S -> [V -> V]],
         \A s \in SUBSET S : s # {} => rest[s] \subseteq s /\ rest[s] # s
  PROVE  \E F : IsFold(F, S, V, base, rest, step)
<1> DEFINE Reached(n) == \E F : FoldUpTo(n, F, S, V, base, rest, step)
           T == {n \in Nat : ~Reached(n)}
<1>1. Reached(0)
  <2> DEFINE F == [s \in SUBSET S |-> base]
  <2>1. \A s \in SUBSET S : Cardinality(s) <= 0 => s = {}
    <3>1. \A s \in SUBSET S : IsFiniteSet(s) /\ Cardinality(s) \in Nat
      BY Fewer
    <3> QED
      BY <3>1, FS_EmptySet
  <2>2. FoldUpTo(0, F, S, V, base, rest, step)
    BY <2>1 DEF FoldUpTo
  <2> QED
    BY <2>2
<1>2. \A n \in Nat : Reached(n) => Reached(n + 1)
  BY FoldGrows
<1> HIDE DEF Reached
<1>3. \A n \in Nat : Reached(n)
  <2> SUFFICES ASSUME T # {} PROVE FALSE
    OBVIOUS
  <2>1. PICK n \in T : \A m \in T : n <= m
    <3>1. T \in SUBSET Nat
      OBVIOUS
    <3> HIDE DEF T
    <3> QED
      BY <3>1, LeastOf
  <2>2. n \in Nat /\ n # 0 /\ n - 1 \in Nat /\ n - 1 \notin T
    BY <2>1, <1>1
  <2>3. Reached(n - 1)
    BY <2>2
  <2>4. Reached(n - 1 + 1) /\ n - 1 + 1 = n
    BY <2>2, <2>3, <1>2
  <2> QED
    BY <2>1, <2>4
<1>4. Cardinality(S) \in Nat
  BY FS_CardinalityType
<1>5. PICK F : FoldUpTo(Cardinality(S), F, S, V, base, rest, step)
  BY <1>3, <1>4 DEF Reached
<1>6. \A s \in SUBSET S : Cardinality(s) <= Cardinality(S)
  BY FS_Subset
<1>7. IsFold(F, S, V, base, rest, step)
  BY <1>5, <1>6 DEF FoldUpTo, IsFold
<1> QED
  BY <1>7

\* What holds of a finite set's parts when it holds of a part as soon as it
\* holds of the smaller ones.
LEMMA PartByPart ==
  ASSUME NEW S, IsFiniteSet(S), NEW P \in SUBSET (SUBSET S),
         \A s \in SUBSET S : (\A t \in SUBSET s : t # s => t \in P) => s \in P
  PROVE  \A s \in SUBSET S : s \in P
<1> DEFINE T == {Cardinality(s) : s \in (SUBSET S) \ P}
<1> SUFFICES ASSUME NEW q \in (SUBSET S) \ P PROVE FALSE
  OBVIOUS
<1>1. T \in SUBSET Nat /\ T # {}
  BY Fewer
<1>2. PICK n \in T : \A m \in T : n <= m
  <2> HIDE DEF T
  <2> QED
    BY <1>1, LeastOf
<1>3. PICK s \in (SUBSET S) \ P : n = Cardinality(s)
  OBVIOUS
<1>4. PICK t \in SUBSET s : t # s /\ t \notin P
  <2>1. s \in SUBSET S /\ s \notin P
    BY <1>3
  <2> HIDE DEF T
  <2> QED
    BY <2>1
<1>5. Cardinality(t) < Cardinality(s) /\ Cardinality(t) \in Nat /\ Cardinality(s) \in Nat
  BY <1>4, Fewer
<1>6. Cardinality(t) \in T
  BY <1>4
<1> HIDE DEF T
<1> QED
  BY <1>2, <1>3, <1>5, <1>6

\* The recursions behind the sum of MapThenSumSet, totalDuration and
\* resolveServices.
SumEq(S, F) ==
  F = [s \in SUBSET S |-> IF s = {} THEN 0
                          ELSE Minutes[CHOOSE x \in s : TRUE] + F[s \ {CHOOSE x \in s : TRUE}]]
TotalEq(r, F) ==
  F = [s \in SUBSET (DOMAIN r) |-> IF s = {} THEN 0 ELSE F[s \ {Max(s)}] + Minutes[r[Max(s)]]]
Keep(kept, id) == IF Contains(kept, id) THEN kept ELSE Append(kept, id)
KeptEq(ids, F) ==
  F = [s \in SUBSET (DOMAIN ids) |-> IF s = {} THEN <<>> ELSE Keep(F[s \ {Max(s)}], ids[Max(s)])]

\* The library's folds, expanded: the value of a function of which the recursion
\* holds, if there is one.
LEMMA FoldsAre ==
  /\ \A S : MapThenSumSet(LAMBDA s : Minutes[s], S) = (CHOOSE F : SumEq(S, F))[S]
  /\ \A r : TotalDuration(r) = (CHOOSE F : TotalEq(r, F))[DOMAIN r]
  /\ \A ids : Resolved(ids) = (CHOOSE F : KeptEq(ids, F))[DOMAIN ids]
<1>1. ASSUME NEW S PROVE MapThenSumSet(LAMBDA s : Minutes[s], S) = (CHOOSE F : SumEq(S, F))[S]
  BY DEF MapThenSumSet, MapThenFoldSet, SumEq
<1>2. ASSUME NEW r PROVE TotalDuration(r) = (CHOOSE F : TotalEq(r, F))[DOMAIN r]
  BY DEF TotalDuration, FoldLeft, MapThenFoldSet, TotalEq
<1>3. ASSUME NEW ids PROVE Resolved(ids) = (CHOOSE F : KeptEq(ids, F))[DOMAIN ids]
  BY DEF Resolved, FoldLeft, MapThenFoldSet, KeptEq, Keep
<1> QED
  BY <1>1, <1>2, <1>3

\* MapThenSumSet of a finite set of services is the value of a recursion.
LEMMA SumIs ==
  ASSUME NEW S \in SUBSET Service, IsFiniteSet(S)
  PROVE  \E F : SumEq(S, F) /\ MapThenSumSet(LAMBDA s : Minutes[s], S) = F[S]
<1> DEFINE rest == [s \in SUBSET S |-> IF s = {} THEN {} ELSE s \ {CHOOSE x \in s : TRUE}]
           step == [s \in SUBSET S |->
                      [v \in Nat |-> IF s = {} THEN v ELSE Minutes[CHOOSE x \in s : TRUE] + v]]
<1>1. \A s \in SUBSET S : s # {} => (CHOOSE x \in s : TRUE) \in s
  OBVIOUS
<1>2. /\ rest \in [SUBSET S -> SUBSET S] /\ 0 \in Nat
      /\ \A s \in SUBSET S : s # {} => rest[s] \subseteq s /\ rest[s] # s
  BY <1>1
<1>3. step \in [SUBSET S -> [Nat -> Nat]]
  <2>1. ASSUME NEW s \in SUBSET S, s # {} PROVE Minutes[CHOOSE x \in s : TRUE] \in Nat
    BY <1>1, <2>1, AvailabilityAssumption
  <2> QED
    BY <2>1
<1>4. PICK F : IsFold(F, S, Nat, 0, rest, step)
  <2> HIDE DEF rest, step
  <2> QED
    BY <1>2, <1>3, FoldExists
<1>5. SumEq(S, F)
  <2>1. F = [s \in SUBSET S |-> F[s]]
    BY <1>4 DEF IsFold
  <2>2. ASSUME NEW s \in SUBSET S
        PROVE  F[s] = IF s = {} THEN 0
                      ELSE Minutes[CHOOSE x \in s : TRUE] + F[s \ {CHOOSE x \in s : TRUE}]
    <3>1. F[s] = (IF s = {} THEN 0 ELSE step[s][F[rest[s]]]) /\ F[rest[s]] \in Nat
      <4> HIDE DEF rest, step
      <4> QED
        BY <1>2, <1>4 DEF IsFold
    <3>2. s # {} => step[s][F[rest[s]]] = Minutes[CHOOSE x \in s : TRUE] + F[rest[s]]
      BY <3>1
    <3>3. s # {} => rest[s] = s \ {CHOOSE x \in s : TRUE}
      OBVIOUS
    <3> HIDE DEF rest, step
    <3> QED
      BY <3>1, <3>2, <3>3
  <2> QED
    BY <2>1, <2>2 DEF SumEq
<1> QED
  BY <1>5, FoldsAre

\* The sum does not depend on which element is taken first.
LEMMA SumTakes ==
  ASSUME NEW S \in SUBSET Service, IsFiniteSet(S), NEW F, SumEq(S, F)
  PROVE  /\ F[{}] = 0
         /\ \A s \in SUBSET S :
              F[s] \in Nat /\ \A x \in s : F[s] = F[s \ {x}] + Minutes[x]
<1> DEFINE P == {s \in SUBSET S : F[s] \in Nat /\ \A x \in s : F[s] = F[s \ {x}] + Minutes[x]}
<1>1. F[{}] = 0
  BY DEF SumEq
<1>2. \A x \in S : Minutes[x] \in Nat
  BY AvailabilityAssumption
<1>3. ASSUME NEW s \in SUBSET S, \A t \in SUBSET s : t # s => t \in P PROVE s \in P
  <2>1. CASE s = {}
    BY <1>1, <2>1
  <2>2. CASE s # {}
    <3>1. PICK c \in s : c = CHOOSE x \in s : TRUE
      BY <2>2
    <3>2. F[s] = Minutes[c] + F[s \ {c}]
      BY <2>2, <3>1 DEF SumEq
    <3>3. \A x \in s : s \ {x} \in SUBSET s /\ s \ {x} # s /\ s \ {x} \in P
      BY <1>3
    <3>4. F[s] \in Nat /\ F[s] = F[s \ {c}] + Minutes[c]
      <4>1. F[s \ {c}] \in Nat
        BY <3>3
      <4>2. Minutes[c] \in Nat
        BY <1>2
      <4> HIDE DEF P
      <4> QED
        BY <3>2, <4>1, <4>2
    <3>5. ASSUME NEW x \in s, x # c PROVE F[s] = F[s \ {x}] + Minutes[x]
      <4>1. F[s \ {c}] = F[(s \ {c}) \ {x}] + Minutes[x]
        <5>1. x \in s \ {c}
          BY <3>5
        <5> QED
          BY <5>1, <3>3
      <4>2. F[s \ {x}] = F[(s \ {x}) \ {c}] + Minutes[c]
        <5>1. c \in s \ {x}
          BY <3>5
        <5> QED
          BY <5>1, <3>3
      <4>3. (s \ {c}) \ {x} = (s \ {x}) \ {c} /\ (s \ {c}) \ {x} \in P
        <5>1. (s \ {c}) \ {x} \in SUBSET s /\ (s \ {c}) \ {x} # s
          OBVIOUS
        <5> QED
          BY <5>1, <1>3
      <4>4. F[(s \ {c}) \ {x}] \in Nat
        BY <4>3
      <4> HIDE DEF P
      <4> QED
        BY <3>4, <4>1, <4>2, <4>3, <4>4, <1>2
    <3> QED
      BY <3>4, <3>5
  <2> QED
    BY <2>1, <2>2
<1>4. \A s \in SUBSET S : s \in P
  <2>1. P \in SUBSET (SUBSET S)
    OBVIOUS
  <2> HIDE DEF P
  <2> QED
    BY <1>3, <2>1, PartByPart
<1> QED
  BY <1>1, <1>4

\* The recursion of FoldLeft: over positions, from the last one back.
IsPositionFold(F, n, V, base, next) ==
  /\ F \in [SUBSET (1 .. n) -> V]
  /\ \A s \in SUBSET (1 .. n) :
       /\ s = {} => F[s] = base
       /\ s # {} => /\ Max(s) \in s /\ F[s \ {Max(s)}] \in V
                    /\ F[s] = next[Max(s)][F[s \ {Max(s)}]]

\* There is a function of which it holds.
LEMMA PositionFold ==
  ASSUME NEW n \in Nat, NEW V, NEW base \in V, NEW next \in [1 .. n -> [V -> V]]
  PROVE  \E F : IsPositionFold(F, n, V, base, next)
<1> DEFINE S == 1 .. n
           rest == [s \in SUBSET S |-> s \ {Max(s)}]
           step == [s \in SUBSET S |-> [v \in V |-> IF s = {} THEN v ELSE next[Max(s)][v]]]
<1>1. \A s \in SUBSET S : s # {} => Max(s) \in s
  BY MaxOf
<1>2. rest \in [SUBSET S -> SUBSET S] /\ \A s \in SUBSET S : rest[s] = s \ {Max(s)}
  OBVIOUS
<1>3. step \in [SUBSET S -> [V -> V]]
  <2>1. ASSUME NEW s \in SUBSET S, NEW v \in V, s # {} PROVE next[Max(s)][v] \in V
    BY <1>1, <2>1
  <2> HIDE DEF S
  <2> QED
    BY <2>1
<1>4. \A s \in SUBSET S : \A v \in V : s # {} => step[s][v] = next[Max(s)][v]
  OBVIOUS
<1>5. IsFiniteSet(S)
  BY FS_Interval
<1> HIDE DEF rest, step, S
<1>6. PICK F : IsFold(F, S, V, base, rest, step)
  <2>1. \A s \in SUBSET S : s # {} => rest[s] \subseteq s /\ rest[s] # s
    BY <1>1, <1>2
  <2> QED
    BY <2>1, <1>2, <1>3, <1>5, FoldExists
<1>7. F \in [SUBSET S -> V]
  BY <1>6 DEF IsFold
<1>8. ASSUME NEW s \in SUBSET S, s # {}
      PROVE  Max(s) \in s /\ F[s \ {Max(s)}] \in V /\ F[s] = next[Max(s)][F[s \ {Max(s)}]]
  <2>1. F[s] = step[s][F[rest[s]]]
    BY <1>6, <1>8 DEF IsFold
  <2>2. rest[s] = s \ {Max(s)} /\ F[rest[s]] \in V
    BY <1>2, <1>7
  <2> QED
    BY <1>1, <1>4, <1>8, <2>1, <2>2
<1>9. \A s \in SUBSET S : s = {} => F[s] = base
  BY <1>6 DEF IsFold
<1> QED
  BY <1>7, <1>8, <1>9 DEF S, IsPositionFold

\* The services kept of a selection, one service after the other.
LEMMA KeptIs ==
  ASSUME NEW n \in Nat, NEW ids \in [1 .. n -> Service]
  PROVE  \E K : /\ K[0] = <<>>
                /\ \A k \in 1 .. n : K[k] = Keep(K[k - 1], ids[k])
                /\ Resolved(ids) = K[n]
<1> DEFINE next == [k \in 1 .. n |-> [v \in Seq(Service) |-> Keep(v, ids[k])]]
<1>1. next \in [1 .. n -> [Seq(Service) -> Seq(Service)]]
  <2>1. ASSUME NEW k \in 1 .. n, NEW v \in Seq(Service) PROVE Keep(v, ids[k]) \in Seq(Service)
    BY AppendProperties DEF Keep
  <2> QED
    BY <2>1
<1>2. PICK F : IsPositionFold(F, n, Seq(Service), <<>>, next)
  <2>1. <<>> \in Seq(Service)
    OBVIOUS
  <2> HIDE DEF next
  <2> QED
    BY <1>1, <2>1, PositionFold
<1>3. ASSUME NEW s \in SUBSET (1 .. n), s # {} PROVE F[s] = Keep(F[s \ {Max(s)}], ids[Max(s)])
  BY <1>2, <1>3 DEF IsPositionFold
<1>4. KeptEq(ids, F)
  <2>1. DOMAIN ids = 1 .. n /\ F = [s \in SUBSET (1 .. n) |-> F[s]]
    BY <1>2 DEF IsPositionFold
  <2>2. \A s \in SUBSET (1 .. n) : s = {} => F[s] = <<>>
    BY <1>2 DEF IsPositionFold
  <2> QED
    BY <1>3, <2>1, <2>2 DEF KeptEq
<1>5. PICK G : KeptEq(ids, G) /\ Resolved(ids) = G[1 .. n]
  BY <1>4, FoldsAre
<1> DEFINE K == [k \in 0 .. n |-> G[1 .. k]]
<1>6. K[0] = <<>>
  <2>1. 1 .. 0 = {} /\ K[0] = G[1 .. 0]
    OBVIOUS
  <2>2. G[{}] = <<>>
    BY <1>5 DEF KeptEq
  <2> QED
    BY <2>1, <2>2
<1>7. ASSUME NEW k \in 1 .. n PROVE K[k] = Keep(K[k - 1], ids[k])
  <2>1. Max(1 .. k) = k /\ (1 .. k) \ {k} = 1 .. k - 1
    BY LastOfPrefix
  <2>2. 1 .. k \in SUBSET (1 .. n) /\ 1 .. k # {} /\ DOMAIN ids = 1 .. n
    <3>1. k \in 1 .. k /\ 1 .. k \in SUBSET (1 .. n)
      OBVIOUS
    <3> QED
      BY <3>1
  <2>3. G[1 .. k] = Keep(G[1 .. k - 1], ids[k])
    BY <1>5, <2>1, <2>2 DEF KeptEq
  <2>4. k \in 0 .. n /\ k - 1 \in 0 .. n
    OBVIOUS
  <2> QED
    BY <2>3, <2>4
<1>8. K[n] = G[1 .. n]
  OBVIOUS
<1> HIDE DEF K
<1> QED
  BY <1>5, <1>6, <1>7, <1>8

\* The duration of a list of services, one service after the other.
LEMMA TotalIs ==
  ASSUME NEW n \in Nat, NEW r \in [1 .. n -> Service]
  PROVE  \E T : /\ T[0] = 0
                /\ \A k \in 1 .. n : T[k] = T[k - 1] + Minutes[r[k]]
                /\ TotalDuration(r) = T[n]
<1> DEFINE next == [k \in 1 .. n |-> [v \in Nat |-> v + Minutes[r[k]]]]
<1>1. next \in [1 .. n -> [Nat -> Nat]]
  <2>1. \A k \in 1 .. n : Minutes[r[k]] \in Nat
    BY AvailabilityAssumption
  <2> QED
    BY <2>1
<1>2. PICK F : IsPositionFold(F, n, Nat, 0, next)
  <2>1. 0 \in Nat
    OBVIOUS
  <2> HIDE DEF next
  <2> QED
    BY <1>1, <2>1, PositionFold
<1>3. ASSUME NEW s \in SUBSET (1 .. n), s # {} PROVE F[s] = F[s \ {Max(s)}] + Minutes[r[Max(s)]]
  BY <1>2, <1>3 DEF IsPositionFold
<1>4. TotalEq(r, F)
  <2>1. DOMAIN r = 1 .. n /\ F = [s \in SUBSET (1 .. n) |-> F[s]]
    BY <1>2 DEF IsPositionFold
  <2>2. \A s \in SUBSET (1 .. n) : s = {} => F[s] = 0
    BY <1>2 DEF IsPositionFold
  <2> QED
    BY <1>3, <2>1, <2>2 DEF TotalEq
<1>5. PICK G : TotalEq(r, G) /\ TotalDuration(r) = G[1 .. n]
  BY <1>4, FoldsAre
<1> DEFINE T == [k \in 0 .. n |-> G[1 .. k]]
<1>6. T[0] = 0
  <2>1. 1 .. 0 = {} /\ T[0] = G[1 .. 0]
    OBVIOUS
  <2>2. G[{}] = 0
    BY <1>5 DEF TotalEq
  <2> QED
    BY <2>1, <2>2
<1>7. ASSUME NEW k \in 1 .. n PROVE T[k] = T[k - 1] + Minutes[r[k]]
  <2>1. Max(1 .. k) = k /\ (1 .. k) \ {k} = 1 .. k - 1
    BY LastOfPrefix
  <2>2. 1 .. k \in SUBSET (1 .. n) /\ 1 .. k # {} /\ DOMAIN r = 1 .. n
    <3>1. k \in 1 .. k /\ 1 .. k \in SUBSET (1 .. n)
      OBVIOUS
    <3> QED
      BY <3>1
  <2>3. G[1 .. k] = G[1 .. k - 1] + Minutes[r[k]]
    BY <1>5, <2>1, <2>2 DEF TotalEq
  <2>4. k \in 0 .. n /\ k - 1 \in 0 .. n
    OBVIOUS
  <2> QED
    BY <2>3, <2>4
<1>8. T[n] = G[1 .. n]
  OBVIOUS
<1> HIDE DEF T
<1> QED
  BY <1>5, <1>6, <1>7, <1>8

\* What holds at 0 and goes on step by step holds up to n.
LEMMA StepByStep ==
  ASSUME NEW n \in Nat, NEW P, 0 \in P, \A k \in 1 .. n : k - 1 \in P => k \in P
  PROVE  \A k \in 0 .. n : k \in P
<1> DEFINE T == {k \in 0 .. n : k \notin P}
<1> SUFFICES ASSUME T # {} PROVE FALSE
  OBVIOUS
<1>1. PICK k \in T : \A m \in T : k <= m
  <2>1. T \in SUBSET Nat
    OBVIOUS
  <2> HIDE DEF T
  <2> QED
    BY <2>1, LeastOf
<1>2. k \in 1 .. n /\ k - 1 \in 0 .. n
  OBVIOUS
<1>3. k - 1 \in P
  BY <1>1, <1>2
<1> QED
  BY <1>2, <1>3

\* A list of services without duplicates, and the set it lists.
Lists(q, picked) ==
  /\ q \in Seq(Service)
  /\ \A i, j \in 1 .. Len(q) : q[i] = q[j] => i = j
  /\ picked = {q[i] : i \in 1 .. Len(q)}

LEMMA KeepLists ==
  ASSUME NEW q, NEW picked, Lists(q, picked), NEW x \in Service
  PROVE  Lists(Keep(q, x), picked \cup {x})
<1>1. q \in Seq(Service) /\ Len(q) \in Nat
  BY LenProperties DEF Lists
<1>2. CASE Contains(q, x)
  BY <1>2, <1>1 DEF Lists, Keep, Contains
<1>3. CASE ~Contains(q, x)
  <2>1. /\ Keep(q, x) \in Seq(Service) /\ Len(Keep(q, x)) = Len(q) + 1
        /\ Keep(q, x)[Len(q) + 1] = x /\ \A i \in 1 .. Len(q) : Keep(q, x)[i] = q[i]
    BY <1>1, <1>3, AppendProperties DEF Keep
  <2>2. \A i \in 1 .. Len(q) : q[i] # x
    BY <1>3 DEF Contains
  <2>3. \A i \in 1 .. Len(q) + 1 : i \in 1 .. Len(q) \/ i = Len(q) + 1
    BY <1>1
  <2>4. ASSUME NEW i \in 1 .. Len(q) + 1, NEW j \in 1 .. Len(q) + 1, Keep(q, x)[i] = Keep(q, x)[j]
        PROVE  i = j
    <3>1. CASE i \in 1 .. Len(q) /\ j \in 1 .. Len(q)
      BY <3>1, <2>1, <2>4 DEF Lists
    <3>2. CASE i = Len(q) + 1 \/ j = Len(q) + 1
      BY <3>2, <2>1, <2>2, <2>3, <2>4
    <3> QED
      BY <2>3, <3>1, <3>2
  <2>5. picked \cup {x} = {Keep(q, x)[i] : i \in 1 .. Len(q) + 1}
    <3>1. \A i \in 1 .. Len(q) : i \in 1 .. Len(q) + 1
      BY <1>1
    <3>2. Len(q) + 1 \in 1 .. Len(q) + 1
      BY <1>1
    <3>3. ASSUME NEW y \in picked PROVE \E i \in 1 .. Len(q) + 1 : Keep(q, x)[i] = y
      BY <3>1, <2>1 DEF Lists
    <3>4. ASSUME NEW i \in 1 .. Len(q) + 1 PROVE Keep(q, x)[i] \in picked \cup {x}
      BY <2>1, <2>3 DEF Lists
    <3> QED
      BY <3>2, <3>3, <3>4, <2>1
  <2> QED
    BY <2>1, <2>4, <2>5 DEF Lists
<1> QED
  BY <1>2, <1>3

\* resolveServices keeps each service of a selection once.
LEMMA ResolvedLists ==
  ASSUME NEW n \in Nat, NEW ids \in [1 .. n -> Service]
  PROVE  Lists(Resolved(ids), {ids[i] : i \in 1 .. n})
<1>1. PICK K : /\ K[0] = <<>>
               /\ \A k \in 1 .. n : K[k] = Keep(K[k - 1], ids[k])
               /\ Resolved(ids) = K[n]
  BY KeptIs
<1> DEFINE P == {k \in 0 .. n : Lists(K[k], {ids[i] : i \in 1 .. k})}
<1>2. 0 \in P
  <2>1. 1 .. 0 = {} /\ 0 \in 0 .. n /\ Len(<<>>) = 0 /\ <<>> \in Seq(Service)
    OBVIOUS
  <2> QED
    BY <1>1, <2>1 DEF Lists
<1>3. ASSUME NEW k \in 1 .. n, k - 1 \in P PROVE k \in P
  <2>1. Lists(K[k - 1], {ids[i] : i \in 1 .. k - 1}) /\ ids[k] \in Service
    BY <1>3
  <2>2. Lists(K[k], {ids[i] : i \in 1 .. k - 1} \cup {ids[k]})
    BY <2>1, <1>1, KeepLists
  <2>3. {ids[i] : i \in 1 .. k - 1} \cup {ids[k]} = {ids[i] : i \in 1 .. k}
    <3>1. 1 .. k = (1 .. k - 1) \cup {k}
      OBVIOUS
    <3> QED
      BY <3>1
  <2>4. k \in 0 .. n
    OBVIOUS
  <2> QED
    BY <2>2, <2>3, <2>4
<1>4. n \in P
  <2> HIDE DEF P
  <2>1. \A k \in 0 .. n : k \in P
    BY <1>2, <1>3, StepByStep
  <2> QED
    BY <2>1
<1> QED
  BY <1>1, <1>4

\* totalDuration of a list without duplicates is the sum over what it lists.
LEMMA TotalOfList ==
  ASSUME NEW r, NEW picked, Lists(r, picked)
  PROVE  /\ TotalDuration(r) \in Nat
         /\ picked # {} => TotalDuration(r) > 0
         /\ TotalDuration(r) = MapThenSumSet(LAMBDA s : Minutes[s], picked)
<1> DEFINE n == Len(r)
           Upto(k) == {r[i] : i \in 1 .. k}
<1>1. n \in Nat /\ r \in [1 .. n -> Service] /\ picked = Upto(n)
  BY LenProperties DEF Lists
<1>2. picked \in SUBSET Service /\ IsFiniteSet(picked)
  <2>1. picked \in SUBSET Service
    BY <1>1
  <2>2. r \in Surjection(1 .. n, picked)
    BY <1>1 DEF Surjection
  <2>3. IsFiniteSet(1 .. n)
    BY <1>1, FS_Interval
  <2> QED
    BY <2>1, <2>2, <2>3, FS_Surjection
<1>3. PICK T : /\ T[0] = 0
               /\ \A k \in 1 .. n : T[k] = T[k - 1] + Minutes[r[k]]
               /\ TotalDuration(r) = T[n]
  <2> HIDE DEF n
  <2> QED
    BY <1>1, TotalIs
<1>4. PICK F : SumEq(picked, F) /\ MapThenSumSet(LAMBDA s : Minutes[s], picked) = F[picked]
  BY <1>2, SumIs
<1>5. /\ F[{}] = 0
      /\ \A s \in SUBSET picked : F[s] \in Nat /\ \A x \in s : F[s] = F[s \ {x}] + Minutes[x]
  BY <1>2, <1>4, SumTakes
<1> DEFINE P == {k \in 0 .. n : T[k] = F[Upto(k)]}
<1>6. 0 \in P
  <2>1. 1 .. 0 = {} /\ 0 \in 0 .. n
    BY <1>1
  <2> QED
    BY <2>1, <1>3, <1>5
<1>7. ASSUME NEW k \in 1 .. n, k - 1 \in P PROVE k \in P
  <2>1. k \in 0 .. n /\ k \in 1 .. k /\ 1 .. k \in SUBSET (1 .. n) /\ (1 .. k) \ {k} = 1 .. k - 1
    BY <1>1
  <2>2. Upto(k) \in SUBSET picked /\ r[k] \in Upto(k)
    BY <1>1, <2>1
  <2>3. Upto(k) \ {r[k]} = Upto(k - 1)
    <3>1. \A i \in 1 .. k - 1 : i \in 1 .. k /\ i # k
      BY <2>1
    <3>2. \A i \in 1 .. k - 1 : r[i] # r[k]
      BY <2>1, <3>1 DEF Lists
    <3>3. \A i \in 1 .. k : i \in 1 .. k - 1 \/ i = k
      BY <2>1
    <3> QED
      BY <3>1, <3>2, <3>3
  <2>4. F[Upto(k)] = F[Upto(k - 1)] + Minutes[r[k]]
    <3> HIDE DEF Upto
    <3>1. \A x \in Upto(k) : F[Upto(k)] = F[Upto(k) \ {x}] + Minutes[x]
      BY <1>5, <2>2
    <3>2. F[Upto(k)] = F[Upto(k) \ {r[k]}] + Minutes[r[k]]
      BY <3>1, <2>2
    <3> QED
      BY <3>2, <2>3
  <2> QED
    BY <1>3, <1>7, <2>1, <2>4
<1>8. n \in P
  <2> HIDE DEF P, n
  <2>1. \A k \in 0 .. n : k \in P
    BY <1>1, <1>6, <1>7, StepByStep
  <2> QED
    BY <2>1, <1>1
<1>9. F[picked] \in Nat
  BY <1>5
<1>10. ASSUME NEW x \in picked PROVE F[picked] > 0
  <2>1. F[picked] = F[picked \ {x}] + Minutes[x] /\ F[picked \ {x}] \in Nat
    BY <1>5
  <2>2. Minutes[x] \in Nat \ {0}
    BY <1>2, AvailabilityAssumption
  <2> QED
    BY <2>1, <2>2
<1>11. TotalDuration(r) = F[picked]
  BY <1>1, <1>3, <1>8
<1> HIDE DEF n, Upto, P
<1> QED
  BY <1>4, <1>9, <1>10, <1>11

\* The number of appointments that exist is finite.
FiniteRows == IsFiniteSet({a \in Appt : status[a] # "NONE"})

\* A step adds at most one appointment.
LEMMA FiniteRowsStep == IInv /\ FiniteRows /\ [Next]_vars => FiniteRows'
<1> SUFFICES ASSUME IInv, FiniteRows, [Next]_vars PROVE FiniteRows'
  OBVIOUS
<1> DEFINE made == {a \in Appt : status[a] # "NONE"}
           made2 == {a \in Appt : status'[a] # "NONE"}
<1>1. ASSUME NEW x, made2 \subseteq made \cup {x} PROVE IsFiniteSet(made2)
  <2>1. IsFiniteSet(made \cup {x}) /\ made2 \in SUBSET (made \cup {x})
    BY <1>1, FS_AddElement DEF FiniteRows
  <2> HIDE DEF made, made2
  <2> QED
    BY <2>1, FS_Subset
<1>2. ASSUME status' = status PROVE made2 \subseteq made \cup {0}
  BY <1>2
<1>3. ASSUME NEW x, \E v : status' = [status EXCEPT ![x] = v] PROVE made2 \subseteq made \cup {x}
  BY <1>3 DEF IInv, TypeOK
<1>4. \/ status' = status
      \/ \E x : \E v : status' = [status EXCEPT ![x] = v]
  <2>1. CASE Tick \/ UNCHANGED vars
    BY <2>1 DEF Tick, vars, tables
  <2>2. ASSUME NEW h \in Handler,
               \/ BookCheck(h) \/ BookLock(h) \/ BookVehicle(h) \/ BookBay(h)
               \/ BookInsert(h) \/ BookCreate(h) \/ BookDeadlock(h)
               \/ CancelRead(h) \/ CompleteRead(h) \/ Fail(h)
        PROVE  status' = status
    BY <2>2 DEF BookCheck, BookLock, BookVehicle, BookBay, BookInsert, BookCreate, BookDeadlock,
                CancelRead, CompleteRead,
                Fail, Refuse, tables
  <2>3. ASSUME NEW h \in Handler, BookCommit(h) \/ CancelCommit(h) \/ CompleteCommit(h)
        PROVE  \/ status' = status
               \/ \E x : \E v : status' = [status EXCEPT ![x] = v]
    BY <2>3 DEF BookCommit, CancelCommit, CompleteCommit, tables
  <2> QED
    BY <2>1, <2>2, <2>3 DEF Next
<1>5. IsFiniteSet(made2)
  <2> HIDE DEF made, made2
  <2> QED
    BY <1>1, <1>2, <1>3, <1>4
<1> QED
  BY <1>5 DEF FiniteRows

\* The day sheet leaves nothing out when its limit is no less than the rows.
LEMMA SheetIsWhole ==
  ASSUME RowsOK, FiniteRows, NEW hub \in Hub, Cardinality(OfDay(hub)) <= HubDayLimit
  PROVE  HubDay(hub) = OfDay(hub)
<1>1. IsFiniteSet(OfDay(hub)) /\ Cardinality(OfDay(hub)) \in Nat
  <2>1. OfDay(hub) \in SUBSET {a \in Appt : status[a] # "NONE"}
    BY DEF OfDay
  <2> QED
    BY <2>1, FS_Subset, FS_CardinalityType DEF FiniteRows
<1>2. ASSUME NEW a \in OfDay(hub)
      PROVE  Cardinality({b \in OfDay(hub) : Later(b, a)}) < HubDayLimit
  <2> DEFINE before == {b \in OfDay(hub) : Later(b, a)}
  <2>1. a \in Nat /\ ~Later(a, a)
    <3>1. a \in Appt /\ row[a] \in Row
      BY DEF OfDay, RowsOK
    <3>2. row[a].start \in Int /\ a \in Nat
      BY <3>1, BookingAssumption, AvailabilityAssumption DEF Row, Time
    <3> QED
      BY <3>2 DEF Later
  <2>2. before \in SUBSET OfDay(hub) /\ before # OfDay(hub)
    BY <2>1
  <2>3. Cardinality(before) < Cardinality(OfDay(hub)) /\ Cardinality(before) \in Nat
    <3> HIDE DEF before
    <3> QED
      BY <1>1, <2>2, Fewer
  <2>4. HubDayLimit \in Nat
    BY AvailabilityAssumption
  <2> HIDE DEF before
  <2> QED
    BY <1>1, <2>3, <2>4 DEF before
<1> QED
  BY <1>2 DEF HubDay, Load

\* A selection that resolves takes each of its services once.
LEMMA SelectionTakes ==
  ASSUME NEW ids \in Selection
  PROVE  /\ TotalDuration(Resolved(ids)) \in Nat \ {0}
         /\ TotalDuration(Resolved(ids))
              = MapThenSumSet(LAMBDA s : Minutes[s], {ids[i] : i \in DOMAIN ids})
<1>1. PICK n \in 1 .. MaxSelection : ids \in [1 .. n -> Service]
  BY DEF Selection
<1>2. n \in Nat /\ DOMAIN ids = 1 .. n
  BY <1>1, AvailabilityAssumption
<1>3. Lists(Resolved(ids), {ids[i] : i \in DOMAIN ids})
  BY <1>1, <1>2, ResolvedLists
<1>4. {ids[i] : i \in DOMAIN ids} # {}
  <2>1. 1 \in DOMAIN ids
    BY <1>1, <1>2
  <2> QED
    BY <2>1
<1>5. /\ TotalDuration(Resolved(ids)) \in Nat
      /\ {ids[i] : i \in DOMAIN ids} # {} => TotalDuration(Resolved(ids)) > 0
      /\ TotalDuration(Resolved(ids))
           = MapThenSumSet(LAMBDA s : Minutes[s], {ids[i] : i \in DOMAIN ids})
  BY <1>3, TotalOfList
<1>6. TotalDuration(Resolved(ids)) \in Nat \ {0}
  BY <1>4, <1>5
<1> QED
  BY <1>5, <1>6

\* What Reservations and Book's FreeBay count for a slot of the opening hours
\* is the same.
LEMMA SameBays ==
  ASSUME RowsOK, TablesAgree, NEW hub \in Hub, NEW slot,
         slot.start \in Int, slot.end \in Int, slot.start < slot.end,
         Open[hub] <= slot.start, slot.end <= Close[hub],
         NEW request, request.hub = hub, request.start = slot.start, request.end = slot.end
  PROVE  /\ AnyBayFree(BookableBays(hub), Reservations(hub), slot) <=> FreeBays(request) # {}
         /\ ~AnyBayFree(BookableBays(hub), Reservations(hub), slot) =>
              \A b \in BookableBays(hub) : \E a \in OfDay(hub) :
                 row[a].bay = b /\ HoldsBay(a) /\ During(row[a]) \cap During(slot) # {}
<1>1. ASSUME NEW a \in Appt, HoldsBay(a)
      PROVE  /\ status[a] # "NONE" /\ row[a] \in Row
             /\ row[a].start \in Int /\ row[a].end \in Int /\ row[a].start < row[a].end
  <2>1. status[a] # "NONE"
    BY <1>1 DEF TablesAgree, Story, HoldsBay
  <2>2. row[a] \in Row /\ row[a].start < row[a].end
    BY <2>1 DEF RowsOK
  <2> QED
    BY <2>1, <2>2, BookingAssumption DEF Row, Time
<1>2. ASSUME NEW a \in Appt, HoldsBay(a), Overlaps(row[a], slot)
      PROVE  Overlaps(row[a], OpeningHours(hub))
  <2>1. Open[hub] \in Int /\ Close[hub] \in Int
    BY BookingAssumption DEF Time
  <2> QED
    BY <1>1, <1>2, <2>1 DEF Overlaps, OpeningHours
<1>3. ASSUME NEW b \in BookableBays(hub)
      PROVE  (\E r \in Reservations(hub) : r.bay = b /\ Overlaps(r, slot)) <=>
               \E a \in Appt : HoldsBay(a) /\ row[a].bay = b /\ Overlaps(row[a], slot)
  <2>1. ASSUME NEW r \in Reservations(hub), r.bay = b, Overlaps(r, slot)
        PROVE  \E a \in Appt : HoldsBay(a) /\ row[a].bay = b /\ Overlaps(row[a], slot)
    BY <2>1 DEF Reservations
  <2>2. ASSUME NEW a \in Appt, HoldsBay(a), row[a].bay = b, Overlaps(row[a], slot)
        PROVE  row[a] \in Reservations(hub)
    BY <1>2, <2>2 DEF Reservations, BookableBays
  <2> QED
    BY <2>1, <2>2
<1>4. \A a \in Appt : Overlaps(row[a], request) <=> Overlaps(row[a], slot)
  BY DEF Overlaps
<1>5. AnyBayFree(BookableBays(hub), Reservations(hub), slot) <=> FreeBays(request) # {}
  BY <1>3, <1>4 DEF AnyBayFree, FreeBays, BookableBays
<1>6. ASSUME ~AnyBayFree(BookableBays(hub), Reservations(hub), slot), NEW b \in BookableBays(hub)
      PROVE  \E a \in OfDay(hub) :
               row[a].bay = b /\ HoldsBay(a) /\ During(row[a]) \cap During(slot) # {}
  <2>1. PICK a \in Appt : HoldsBay(a) /\ row[a].bay = b /\ Overlaps(row[a], slot)
    BY <1>3, <1>6 DEF AnyBayFree
  <2>2. a \in OfDay(hub)
    BY <1>1, <2>1 DEF OfDay, BookableBays
  <2>3. During(row[a]) \cap During(slot) # {}
    BY <1>1, <2>1, OverlapsAtAnInstant
  <2> QED
    BY <2>1, <2>2, <2>3
<1> QED
  BY <1>5, <1>6

\* An offered slot can be booked and one that is not cannot, whatever rows
\* there are.
LEMMA EveryOffer ==
  ASSUME IInv, FiniteRows
  PROVE  OfferIsBookable
<1> SUFFICES ASSUME NEW hub \in Hub, NEW ids \in Selection, NEW slot \in Slots(hub, ids)
             PROVE  Offered(hub, ids, slot)
  BY DEF OfferIsBookable
<1> DEFINE d == TotalDuration(Resolved(ids))
           request == [hub |-> hub, start |-> slot.start, end |-> slot.end]
           free == AnyBayFree(BookableBays(hub), Reservations(hub), slot)
           picked == {ids[i] : i \in DOMAIN ids}
<1>1. d \in Nat \ {0} /\ d = MapThenSumSet(LAMBDA s : Minutes[s], picked)
  BY SelectionTakes
<1>2. Open[hub] \in Int /\ Close[hub] \in Int
  BY BookingAssumption DEF Time
<1>3. PICK s \in Open[hub] .. (Close[hub] - d) :
        slot = [start |-> s, end |-> s + d,
                available |-> s > now /\ AnyBayFree(BookableBays(hub), Reservations(hub),
                                                    [start |-> s, end |-> s + d])]
  BY DEF Slots, OpeningHours
<1>4. /\ slot.start = s /\ slot.end = s + d
      /\ s \in Int /\ s < s + d /\ Open[hub] <= s /\ s + d <= Close[hub]
  <2> HIDE DEF d
  <2> QED
    BY <1>1, <1>2, <1>3
<1>5. AnyBayFree(BookableBays(hub), Reservations(hub), [start |-> s, end |-> s + d]) <=> free
  BY <1>4 DEF AnyBayFree, Overlaps
<1>6. slot.available <=> slot.start > now /\ free
  <2> HIDE DEF d, free
  <2> QED
    BY <1>3, <1>4, <1>5
<1>7. /\ free <=> FreeBays(request) # {}
      /\ ~free => \A b \in BookableBays(hub) : \E a \in OfDay(hub) :
                    row[a].bay = b /\ HoldsBay(a) /\ During(row[a]) \cap During(slot) # {}
  <2>1. /\ slot.start \in Int /\ slot.end \in Int /\ slot.start < slot.end
        /\ Open[hub] <= slot.start /\ slot.end <= Close[hub]
    <3> HIDE DEF d
    <3> QED
      BY <1>1, <1>4
  <2>2. request.hub = hub /\ request.start = slot.start /\ request.end = slot.end
    OBVIOUS
  <2> HIDE DEF request
  <2> QED
    BY <2>1, <2>2, SameBays DEF IInv
<1>8. Cardinality(OfDay(hub)) <= HubDayLimit => HubDay(hub) = OfDay(hub)
  BY SheetIsWhole DEF IInv
<1>9. /\ slot.end = slot.start + MapThenSumSet(LAMBDA s1 : Minutes[s1], picked)
      /\ Open[hub] <= slot.start /\ slot.end <= Close[hub]
  <2> HIDE DEF d, picked
  <2> QED
    BY <1>1, <1>4
<1>10. slot.available <=> slot.start > now /\ FreeBays(request) # {}
  BY <1>6, <1>7
<1>11. slot.start > now /\ ~slot.available /\ Cardinality(OfDay(hub)) <= HubDayLimit =>
         \A b \in BookableBays(hub) : \E a \in HubDay(hub) :
           row[a].bay = b /\ HoldsBay(a) /\ During(row[a]) \cap During(slot) # {}
  BY <1>6, <1>7, <1>8
<1> HIDE DEF free, d
<1> QED
  BY <1>9, <1>10, <1>11 DEF Offered

\* What the availability offers is what Book would find (Availability,
\* totalDuration, anyBayFree against FreeBay), and a slot that is not offered
\* is explained by the day sheet (HubDay).
THEOREM OffersAreBookable == Spec => []OfferIsBookable
<1>1. Init => FiniteRows
  <2> SUFFICES ASSUME Init PROVE FiniteRows
    OBVIOUS
  <2>1. {a \in Appt : status[a] # "NONE"} = {}
    BY DEF Init
  <2> QED
    BY <2>1, FS_EmptySet DEF FiniteRows
<1>2. IInv /\ FiniteRows => OfferIsBookable
  BY EveryOffer
<1> QED
  BY <1>1, <1>2, FiniteRowsStep, Invariant, PTL DEF Spec
=============================================================================
