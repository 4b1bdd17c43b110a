----------------------- MODULE VehicleOwnershipProofs -----------------------
(***************************************************************************)
(* Proofs about VehicleOwnership, for any numbers of requests, customers,  *)
(* days and warranties.                                                    *)
(*                                                                         *)
(* A step that leaves the tables alone only has to establish what its own  *)
(* request claims (lemma Quiet); a commit changes the tables, and what the *)
(* other requests have established survives it because LocksExclude says   *)
(* that none of them holds what the committing one held.                   *)
(***************************************************************************)
EXTENDS VehicleOwnership, SequenceTheorems, TLAPS

\* A request in flight has the fields of its kind.
LEMMA RequestKinds ==
  ASSUME TypeOK, NEW h \in Handler, pc[h] # "idle"
  PROVE  /\ req[h] \in Request
         /\ req[h].op = "register" => req[h] \in RegisterReq
         /\ req[h].op = "assign" => req[h] \in AssignReq
         /\ req[h].op = "update" => req[h] \in UpdateReq
         /\ req[h].op = "transfer" => req[h] \in TransferReq
  <1>1. req[h] \in Request
    BY DEF TypeOK
  <1>2. CASE req[h] \in RegisterReq
    BY <1>1, <1>2 DEF RegisterReq
  <1>3. CASE req[h] \in AssignReq
    BY <1>1, <1>3 DEF AssignReq
  <1>4. CASE req[h] \in UpdateReq
    BY <1>1, <1>4 DEF UpdateReq
  <1>5. CASE req[h] \in TransferReq
    BY <1>1, <1>5 DEF TransferReq
  <1> QED
    BY <1>1, <1>2, <1>3, <1>4, <1>5 DEF Request

\* A sequence one longer that agrees on the rest is an Append.
LEMMA IsAppend ==
  ASSUME NEW S, NEW s \in Seq(S), NEW e \in S, NEW t \in Seq(S),
         Len(t) = Len(s) + 1, \A n \in 1 .. Len(s) : t[n] = s[n], t[Len(s) + 1] = e
  PROVE  t = Append(s, e)
  <1>1. Append(s, e) \in Seq(S) /\ Len(Append(s, e)) = Len(s) + 1
    BY AppendProperties
  <1>2. ASSUME NEW n \in 1 .. Len(t) PROVE t[n] = Append(s, e)[n]
    <2>1. CASE n = Len(s) + 1
      BY <2>1, AppendProperties
    <2>2. CASE n # Len(s) + 1
      <3>1. n \in 1 .. Len(s)
        BY <2>2
      <3> QED
        BY <3>1, AppendProperties
    <2> QED
      BY <2>1, <2>2
  <1> QED
    BY <1>1, <1>2, SeqEqual

-----------------------------------------------------------------------------
(* The initial state.                                                      *)

LEMMA Initially == Init => IInv
  <1> SUFFICES ASSUME Init PROVE IInv
    OBVIOUS
  <1> USE DEF Init
  <1>1. TypeOK
    BY OwnershipAssumption DEF TypeOK, PC
  <1>2. LocksExclude
    BY DEF LocksExclude, Exclude, At, HoldsVehicle, SharesVehicle, HoldsOwner
  <1>3. \A h \in Handler : RequestOK(h)
    BY DEF RequestOK, At, HoldsOwner
  <1>4. OwnersInTurn /\ OwnersTold
    BY DEF OwnersInTurn, OwnersTold
  <1>5. ChangesTold
    BY DEF ChangesTold, StatesTold
  <1> QED
    BY <1>1, <1>2, <1>3, <1>4, <1>5 DEF IInv

-----------------------------------------------------------------------------
(* Steps that leave the tables alone.                                      *)

\* What the step's own request has to establish is all there is to do.
LEMMA Quiet ==
  ASSUME IInv, NEW h \in Handler, UNCHANGED tables, TypeOK',
         \A k \in Handler \ {h} : pc'[k] = pc[k] /\ req'[k] = req[k],
         RequestOK(h)',
         \A g \in Handler \ {h} : Exclude(g, h)' /\ Exclude(h, g)'
  PROVE  IInv'
  <1> USE DEF tables
  <1>1. LocksExclude'
    <2> SUFFICES ASSUME NEW f \in Handler, NEW g \in Handler, f # g
                 PROVE  Exclude(f, g)'
      BY DEF LocksExclude
    <2>1. CASE f # h /\ g # h
      BY <2>1 DEF IInv, LocksExclude, Exclude, At, HoldsVehicle, SharesVehicle, HoldsOwner
    <2> QED
      BY <2>1
  <1>2. ASSUME NEW k \in Handler PROVE RequestOK(k)'
    <2>1. CASE k # h
      BY <2>1 DEF IInv, RequestOK, At, HoldsOwner, IsScrapped
    <2> QED
      BY <2>1
  <1>3. OwnersInTurn' /\ OwnersTold'
    BY DEF IInv, OwnersInTurn, OwnersTold, Chained
  <1>4. ChangesTold'
    BY DEF IInv, ChangesTold, StatesTold, WarrantyLink
  <1> QED
    BY <1>1, <1>2, <1>3, <1>4 DEF IInv

\* A request that ends without a change.
LEMMA RefuseKeeps ==
  ASSUME IInv, NEW h \in Handler, Refuse(h)
  PROVE  IInv'
  <1> USE DEF Refuse, Finish
  <1>0. pc' = [pc EXCEPT ![h] = "idle"] /\ req' = [req EXCEPT ![h] = NoReq] /\ TypeOK
    BY DEF IInv
  <1>1. pc'[h] = "idle" /\ \A k \in Handler \ {h} : pc'[k] = pc[k] /\ req'[k] = req[k]
    BY <1>0 DEF TypeOK
  <1>2. TypeOK'
    BY <1>0, <1>1 DEF TypeOK, PC, tables
  <1>3. RequestOK(h)' /\ \A g \in Handler \ {h} : Exclude(g, h)' /\ Exclude(h, g)'
    BY <1>1 DEF RequestOK, Exclude, At, HoldsVehicle, SharesVehicle, HoldsOwner
  <1> QED
    BY <1>1, <1>2, <1>3, Quiet

\* A request that goes on to its next statement.
LEMMA GoesTo ==
  ASSUME IInv, NEW h \in Handler, NEW p \in PC \ {"idle"}, pc[h] # "idle", GoTo(h, p),
         RequestOK(h)',
         \A g \in Handler \ {h} : Exclude(g, h)' /\ Exclude(h, g)'
  PROVE  IInv'
  <1> USE DEF GoTo
  <1>0. pc' = [pc EXCEPT ![h] = p] /\ TypeOK
    BY DEF IInv
  <1>1. \A k \in Handler \ {h} : pc'[k] = pc[k] /\ req'[k] = req[k]
    BY <1>0 DEF TypeOK
  <1>2. TypeOK'
    BY <1>0, <1>1 DEF TypeOK, tables
  <1> QED
    BY <1>1, <1>2, Quiet

LEMMA AcceptInv ==
  ASSUME IInv, NEW h \in Handler, Accept(h)
  PROVE  IInv'
  <1>0. /\ TypeOK /\ pc' = [pc EXCEPT ![h] = "accepted"] /\ UNCHANGED tables
        /\ arrived < MaxRequests /\ arrived' = arrived + 1
    BY DEF IInv, Accept
  <1>1. PICK r \in Request :
          /\ req' = [req EXCEPT ![h] = r]
          /\ r.op = "update" => vehicle # NoVehicle
    <2>1. CASE \E r \in RegisterReq : req' = [req EXCEPT ![h] = r]
      BY <2>1 DEF Request, RegisterReq
    <2>2. CASE \E c \in Customer, d \in Day :
                 /\ d <= Today
                 /\ req' = [req EXCEPT ![h] = [op |-> "assign", customer |-> c, day |-> d]]
      <3>1. PICK c \in Customer, d \in Day :
              req' = [req EXCEPT ![h] = [op |-> "assign", customer |-> c, day |-> d]]
        BY <2>2
      <3>2. PICK r \in AssignReq : r = [op |-> "assign", customer |-> c, day |-> d]
        BY DEF AssignReq
      <3>3. r \in Request /\ r.op # "update"
        BY <3>2 DEF Request
      <3>4. req' = [req EXCEPT ![h] = r]
        BY <3>1, <3>2
      <3> QED
        BY <3>3, <3>4
    <2>3. CASE \E st \in Status \cup {Keep}, w \in Warranty \cup {Keep} :
                 /\ st # Keep \/ w # Keep
                 /\ vehicle # NoVehicle
                 /\ req' = [req EXCEPT ![h] = [op |-> "update", status |-> st, warranty |-> w,
                                               read |-> vehicle.updated, current |-> NoVehicle]]
      <3>1. vehicle.updated \in Nat
        BY <2>3, <1>0 DEF TypeOK, Vehicle
      <3>2. PICK st \in Status \cup {Keep}, w \in Warranty \cup {Keep} :
              req' = [req EXCEPT ![h] = [op |-> "update", status |-> st, warranty |-> w,
                                         read |-> vehicle.updated, current |-> NoVehicle]]
        BY <2>3
      <3>3. [op |-> "update", status |-> st, warranty |-> w,
             read |-> vehicle.updated, current |-> NoVehicle] \in UpdateReq
        BY <3>1 DEF UpdateReq
      <3> QED
        BY <2>3, <3>2, <3>3 DEF Request
    <2>4. CASE \E c, p \in Customer, d \in Day :
                 req' = [req EXCEPT ![h] = [op |-> "transfer", customer |-> c, previous |-> p,
                                            day |-> d, row |-> 0]]
      <3>1. PICK c, p \in Customer, d \in Day :
              req' = [req EXCEPT ![h] = [op |-> "transfer", customer |-> c, previous |-> p,
                                         day |-> d, row |-> 0]]
        BY <2>4
      <3>2. PICK r \in TransferReq :
              r = [op |-> "transfer", customer |-> c, previous |-> p, day |-> d, row |-> 0]
        BY DEF TransferReq
      <3>3. r \in Request /\ r.op # "update"
        BY <3>2 DEF Request
      <3>4. req' = [req EXCEPT ![h] = r]
        BY <3>1, <3>2
      <3> QED
        BY <3>3, <3>4
    <2> QED
      BY <2>1, <2>2, <2>3, <2>4 DEF Accept
  <1>2. /\ pc'[h] = "accepted" /\ req'[h] = r
        /\ \A k \in Handler \ {h} : pc'[k] = pc[k] /\ req'[k] = req[k]
    BY <1>0, <1>1 DEF TypeOK
  <1>3. TypeOK'
    <2>1. arrived' \in 0 .. MaxRequests
      BY <1>0, OwnershipAssumption DEF TypeOK
    <2>2. /\ pc' \in [Handler -> PC] /\ req' \in [Handler -> Request \cup {NoReq}]
          /\ \A k \in Handler : pc'[k] # "idle" => req'[k] \in Request
      BY <1>0, <1>1, <1>2 DEF TypeOK, PC
    <2> QED
      BY <1>0, <2>1, <2>2 DEF TypeOK, tables
  <1>4. RequestOK(h)' /\ \A g \in Handler \ {h} : Exclude(g, h)' /\ Exclude(h, g)'
    BY <1>0, <1>1, <1>2
      DEF RequestOK, Exclude, At, HoldsVehicle, SharesVehicle, HoldsOwner, tables
  <1> QED
    BY <1>0, <1>2, <1>3, <1>4, Quiet

LEMMA RegisterInsertInv ==
  ASSUME IInv, NEW h \in Handler, RegisterInsert(h)
  PROVE  IInv'
  <1> USE DEF RegisterInsert
  <1>1. CASE vehicle = NoVehicle /\ GoTo(h, "written")
    <2>1. /\ pc'[h] = "written" /\ req'[h] = req[h] /\ req[h].op = "register"
          /\ \A k \in Handler \ {h} : pc'[k] = pc[k] /\ req'[k] = req[k]
          /\ vehicle' = NoVehicle
      BY <1>1 DEF GoTo, IInv, TypeOK, At, tables
    <2>2. RequestOK(h)' /\ \A g \in Handler \ {h} : Exclude(g, h)' /\ Exclude(h, g)'
      BY <2>1 DEF RequestOK, Exclude, At, HoldsVehicle, SharesVehicle, HoldsOwner
    <2> QED
      BY <1>1, <2>2, GoesTo DEF PC, At
  <1> QED
    BY <1>1, RefuseKeeps

LEMMA AssignLockInv ==
  ASSUME IInv, NEW h \in Handler, AssignLock(h)
  PROVE  IInv'
  <1> USE DEF AssignLock
  <1>1. CASE vehicle # NoVehicle /\ ~IsScrapped /\ GoTo(h, "locked")
    <2>1. /\ pc'[h] = "locked" /\ req'[h] = req[h] /\ req[h].op = "assign"
          /\ \A k \in Handler \ {h} : pc'[k] = pc[k] /\ req'[k] = req[k]
          /\ vehicle' = vehicle
      BY <1>1 DEF GoTo, IInv, TypeOK, At, tables
    <2>2. RequestOK(h)' /\ \A g \in Handler \ {h} : Exclude(g, h)' /\ Exclude(h, g)'
      BY <1>1, <2>1
        DEF RequestOK, Exclude, At, HoldsVehicle, SharesVehicle, HoldsOwner, VehicleFree, IsScrapped
    <2> QED
      BY <1>1, <2>2, GoesTo DEF PC, At
  <1> QED
    BY <1>1, RefuseKeeps

\* An owner chain without a current owner is empty.
LEMMA NoOwnerNoRow ==
  ASSUME TypeOK, OwnersInTurn, ~HasOwner
  PROVE  owner = <<>>
  <1>1. owner \in Seq(OwnerRow) /\ Len(owner) \in Nat
    BY DEF TypeOK
  <1>2. SUFFICES ASSUME owner # <<>> PROVE FALSE
    OBVIOUS
  <1>3. Len(owner) \in 1 .. Len(owner)
    BY <1>1, <1>2, EmptySeq
  <1>4. owner[Len(owner)].status = "CURRENT"
    BY <1>3 DEF OwnersInTurn, Chained
  <1> QED
    BY <1>1, <1>3, <1>4 DEF HasOwner

LEMMA AssignInsertInv ==
  ASSUME IInv, NEW h \in Handler, AssignInsert(h)
  PROVE  IInv'
  <1> USE DEF AssignInsert
  <1>1. CASE ~HasOwner /\ GoTo(h, "written")
    <2>0. owner = <<>>
      BY <1>1, NoOwnerNoRow DEF IInv
    <2>1. /\ pc'[h] = "written" /\ req'[h] = req[h] /\ req[h].op = "assign" /\ pc[h] = "locked"
          /\ \A k \in Handler \ {h} : pc'[k] = pc[k] /\ req'[k] = req[k]
          /\ vehicle' = vehicle /\ owner' = owner
      BY <1>1 DEF GoTo, IInv, TypeOK, At, tables
    <2>2. vehicle # NoVehicle /\ ~IsScrapped
      BY <2>1 DEF IInv, RequestOK, At
    <2>3. RequestOK(h)'
      BY <2>0, <2>1, <2>2 DEF RequestOK, At, HoldsOwner, IsScrapped
    <2>4. ASSUME NEW g \in Handler \ {h} PROVE Exclude(g, h)' /\ Exclude(h, g)'
      <3>1. Exclude(g, h) /\ Exclude(h, g)
        BY DEF IInv, LocksExclude
      <3> QED
        BY <2>1, <3>1 DEF Exclude, At, HoldsVehicle, SharesVehicle, HoldsOwner
    <2> QED
      BY <1>1, <2>1, <2>3, <2>4, GoesTo DEF PC
  <1> QED
    BY <1>1, RefuseKeeps

LEMMA UpdateWriteInv ==
  ASSUME IInv, NEW h \in Handler, UpdateWrite(h)
  PROVE  IInv'
  <1> USE DEF UpdateWrite
  <1>1. CASE vehicle.updated = req[h].read /\ ~IsScrapped /\ Write(h)
    <2>0. /\ TypeOK /\ pc[h] = "accepted" /\ req[h].op = "update" /\ UNCHANGED tables
          /\ req' = [req EXCEPT ![h].current = vehicle] /\ pc' = [pc EXCEPT ![h] = "written"]
          /\ arrived' = arrived
      BY <1>1 DEF IInv, Write, At
    <2>1. req[h] \in UpdateReq
      BY <2>0, RequestKinds
    <2>2. /\ pc'[h] = "written" /\ req'[h] = [req[h] EXCEPT !.current = vehicle]
          /\ \A k \in Handler \ {h} : pc'[k] = pc[k] /\ req'[k] = req[k]
          /\ vehicle' = vehicle
      BY <2>0 DEF TypeOK, tables
    <2>3. /\ req'[h] \in UpdateReq /\ req'[h].op = "update" /\ req'[h].read = req[h].read
          /\ req'[h].current = vehicle
      BY <2>0, <2>1, <2>2 DEF UpdateReq, TypeOK
    <2>4. TypeOK'
      <3>1. req' \in [Handler -> Request \cup {NoReq}]
        BY <2>0, <2>3 DEF TypeOK, Request
      <3>2. pc' \in [Handler -> PC]
        BY <2>0 DEF TypeOK, PC
      <3>3. \A k \in Handler : pc'[k] # "idle" => req'[k] \in Request
        BY <2>0, <2>2, <2>3 DEF TypeOK, Request
      <3> QED
        BY <2>0, <3>1, <3>2, <3>3 DEF TypeOK, tables
    <2>5. vehicle # NoVehicle
      BY <2>0 DEF IInv, RequestOK, At
    <2>6. RequestOK(h)' /\ \A g \in Handler \ {h} : Exclude(g, h)' /\ Exclude(h, g)'
      BY <1>1, <2>2, <2>3, <2>5
        DEF RequestOK, Exclude, At, HoldsVehicle, SharesVehicle, HoldsOwner, VehicleFree, IsScrapped
    <2> QED
      BY <2>0, <2>2, <2>4, <2>6, Quiet
  <1> QED
    BY <1>1, RefuseKeeps

LEMMA TransferFindInv ==
  ASSUME IInv, NEW h \in Handler, TransferFind(h)
  PROVE  IInv'
  <1> USE DEF TransferFind
  <1>1. CASE Refuse(h)
    BY <1>1, RefuseKeeps
  <1>2. CASE \E n \in DOMAIN owner :
               /\ req' = [req EXCEPT ![h].row = n]
               /\ pc' = [pc EXCEPT ![h] = "found"]
               /\ UNCHANGED <<arrived, tables>>
    <2>1. PICK n \in DOMAIN owner : /\ req' = [req EXCEPT ![h].row = n]
                                   /\ pc' = [pc EXCEPT ![h] = "found"]
                                   /\ UNCHANGED <<arrived, tables>>
      BY <1>2
    <2>2. TypeOK /\ n \in 1 .. Len(owner) /\ Len(owner) \in Nat
      BY <2>1 DEF IInv, TypeOK
    <2>3. req[h] \in TransferReq
      BY <2>2, RequestKinds DEF At
    <2>4. /\ pc'[h] = "found" /\ req'[h] = [req[h] EXCEPT !.row = n]
          /\ \A k \in Handler \ {h} : pc'[k] = pc[k] /\ req'[k] = req[k]
      BY <2>1, <2>2 DEF TypeOK
    <2>5. req'[h] \in TransferReq /\ req'[h].op = "transfer" /\ req'[h].row = n
      BY <2>2, <2>3, <2>4 DEF TransferReq
    <2>6. TypeOK'
      <3>1. req' \in [Handler -> Request \cup {NoReq}]
        BY <2>1, <2>2, <2>4, <2>5 DEF TypeOK, Request
      <3>2. pc' \in [Handler -> PC]
        BY <2>1, <2>2 DEF TypeOK, PC
      <3>3. \A k \in Handler : pc'[k] # "idle" => req'[k] \in Request
        BY <2>2, <2>4, <2>5 DEF TypeOK, Request
      <3> QED
        BY <2>1, <2>2, <3>1, <3>2, <3>3 DEF TypeOK, tables
    <2>7. RequestOK(h)' /\ \A g \in Handler \ {h} : Exclude(g, h)' /\ Exclude(h, g)'
      BY <2>1, <2>2, <2>4, <2>5
        DEF RequestOK, Exclude, At, HoldsVehicle, SharesVehicle, HoldsOwner, tables
    <2> QED
      BY <2>1, <2>4, <2>6, <2>7, Quiet
  <1> QED
    BY <1>1, <1>2

LEMMA TransferCloseInv ==
  ASSUME IInv, NEW h \in Handler, TransferClose(h)
  PROVE  IInv'
  <1> USE DEF TransferClose
  <1> DEFINE cur == owner[req[h].row]
  <1>1. CASE /\ cur.status = "CURRENT" /\ cur.customer = req[h].previous
             /\ ~(req[h].day < cur.from) /\ GoTo(h, "closed")
    <2>1. /\ pc'[h] = "closed" /\ req'[h] = req[h] /\ req[h].op = "transfer" /\ pc[h] = "found"
          /\ \A k \in Handler \ {h} : pc'[k] = pc[k] /\ req'[k] = req[k]
          /\ owner' = owner /\ TypeOK
      BY <1>1 DEF GoTo, IInv, TypeOK, At, tables
    <2>2. req[h].row \in 1 .. Len(owner) /\ owner \in Seq(OwnerRow) /\ Len(owner) \in Nat
      BY <2>1 DEF IInv, RequestOK, At, TypeOK
    <2>3. req[h].row = Len(owner)
      <3>1. Chained(req[h].row)
        BY <2>2 DEF IInv, OwnersInTurn
      <3> QED
        BY <1>1, <2>2, <3>1 DEF Chained
    <2>4. owner # <<>>
      BY <2>2
    <2>5. cur.from <= req[h].day
      <3>1. cur.from \in Nat
        <4>1. cur \in OwnerRow
          BY <2>2, ElementOfSeq
        <4> QED
          BY <4>1, OwnershipAssumption DEF OwnerRow
      <3>2. req[h].day \in Nat
        BY <2>1, RequestKinds, OwnershipAssumption DEF TransferReq
      <3> QED
        BY <1>1, <3>1, <3>2
    <2>6. RequestOK(h)' /\ \A g \in Handler \ {h} : Exclude(g, h)' /\ Exclude(h, g)'
      BY <1>1, <2>1, <2>3, <2>4, <2>5
        DEF RequestOK, Exclude, At, HoldsVehicle, SharesVehicle, HoldsOwner
    <2> QED
      BY <1>1, <2>1, <2>6, GoesTo DEF PC
  <1> QED
    BY <1>1, RefuseKeeps

LEMMA TransferInsertInv ==
  ASSUME IInv, NEW h \in Handler, TransferInsert(h)
  PROVE  IInv'
  <1> USE DEF TransferInsert
  <1>1. /\ pc'[h] = "written" /\ req'[h] = req[h] /\ req[h].op = "transfer" /\ pc[h] = "closed"
        /\ \A k \in Handler \ {h} : pc'[k] = pc[k] /\ req'[k] = req[k]
        /\ owner' = owner
    BY DEF GoTo, IInv, TypeOK, At, tables
  <1>2. RequestOK(h)'
    BY <1>1 DEF IInv, RequestOK, At, HoldsOwner
  <1>3. ASSUME NEW g \in Handler \ {h} PROVE Exclude(g, h)' /\ Exclude(h, g)'
    <2>1. Exclude(g, h) /\ Exclude(h, g)
      BY DEF IInv, LocksExclude
    <2> QED
      BY <1>1, <2>1 DEF Exclude, At, HoldsVehicle, SharesVehicle, HoldsOwner
  <1> QED
    BY <1>1, <1>2, <1>3, GoesTo DEF PC

-----------------------------------------------------------------------------
(* Commits.                                                                *)

\* What a commit does to the handlers: its own is idle, the others stay, and
\* they exclude each other as before.
LEMMA FinishFrame ==
  ASSUME IInv, NEW h \in Handler, Finish(h)
  PROVE  /\ pc'[h] = "idle" /\ \A k \in Handler \ {h} : pc'[k] = pc[k] /\ req'[k] = req[k]
         /\ pc' \in [Handler -> PC] /\ req' \in [Handler -> Request \cup {NoReq}]
         /\ \A k \in Handler : pc'[k] # "idle" => req'[k] \in Request
         /\ arrived' \in 0 .. MaxRequests
         /\ LocksExclude'
  <1>0. /\ TypeOK /\ pc' = [pc EXCEPT ![h] = "idle"] /\ req' = [req EXCEPT ![h] = NoReq]
        /\ arrived' = arrived
    BY DEF IInv, Finish
  <1>1. pc'[h] = "idle" /\ \A k \in Handler \ {h} : pc'[k] = pc[k] /\ req'[k] = req[k]
    BY <1>0 DEF TypeOK
  <1>2. /\ pc' \in [Handler -> PC] /\ req' \in [Handler -> Request \cup {NoReq}]
        /\ \A k \in Handler : pc'[k] # "idle" => req'[k] \in Request
        /\ arrived' \in 0 .. MaxRequests
    BY <1>0, <1>1 DEF TypeOK, PC
  <1>3. LocksExclude'
    <2> SUFFICES ASSUME NEW f \in Handler, NEW g \in Handler, f # g
                 PROVE  Exclude(f, g)'
      BY DEF LocksExclude
    <2>1. Exclude(f, g)
      BY DEF IInv, LocksExclude
    <2> QED
      BY <1>1, <2>1 DEF Exclude, At, HoldsVehicle, SharesVehicle, HoldsOwner
  <1> QED
    BY <1>1, <1>2, <1>3

\* The state events after a commit that writes version v, which follows the
\* last one announced.
LEMMA NextVersion ==
  ASSUME TypeOK, StatesTold, NEW v \in Vehicle,
         v.updated = IF vehicle = NoVehicle THEN 1 ELSE vehicle.updated + 1,
         vehicle' = v, stateEvents' = Append(stateEvents, v),
         vehicle = NoVehicle => warrantyEvents' = <<>>
  PROVE  StatesTold' /\ vehicle' # NoVehicle /\ stateEvents' \in Seq(Vehicle)
  <1>1. stateEvents \in Seq(Vehicle) /\ Len(stateEvents) \in Nat /\ v # NoVehicle
    BY OwnershipAssumption DEF TypeOK
  <1>2. v.updated = Len(stateEvents) + 1
    BY <1>1 DEF StatesTold
  <1>3. /\ stateEvents' \in Seq(Vehicle) /\ Len(stateEvents') = Len(stateEvents) + 1
        /\ stateEvents'[Len(stateEvents')] = v
        /\ \A n \in 1 .. Len(stateEvents) : stateEvents'[n] = stateEvents[n]
    BY <1>1, AppendProperties
  <1>4. \A n \in 1 .. Len(stateEvents) : stateEvents[n].updated = n
    BY <1>1 DEF StatesTold
  <1>5. \A n \in 1 .. Len(stateEvents') : stateEvents'[n].updated = n
    BY <1>1, <1>2, <1>3, <1>4
  <1>6. stateEvents' # <<>>
    BY <1>1, <1>3
  <1> QED
    BY <1>1, <1>2, <1>3, <1>5, <1>6 DEF StatesTold

LEMMA RegisterCommitInv ==
  ASSUME IInv, NEW h \in Handler, RegisterCommit(h)
  PROVE  IInv'
  <1>0. /\ TypeOK /\ Finish(h) /\ pc[h] = "written" /\ req[h].op = "register"
        /\ UNCHANGED <<owner, ownerEvents, warrantyEvents>>
    BY DEF IInv, RegisterCommit, At
  <1>1. vehicle = NoVehicle
    BY <1>0 DEF IInv, RequestOK, At
  <1>2. req[h] \in RegisterReq
    BY <1>0, RequestKinds
  <1>3. PICK v \in Vehicle : /\ v = [status |-> req[h].status, warranty |-> req[h].warranty, updated |-> 1]
                            /\ vehicle' = v /\ stateEvents' = Append(stateEvents, v)
    BY <1>2 DEF RegisterCommit, RegisterReq, Vehicle
  <1>4. v.updated = 1 /\ warrantyEvents = <<>>
    BY <1>1, <1>3 DEF IInv, ChangesTold, StatesTold
  <1>5. StatesTold' /\ vehicle' # NoVehicle /\ stateEvents' \in Seq(Vehicle)
    BY <1>0, <1>1, <1>3, <1>4, NextVersion DEF IInv, ChangesTold
  <1>6. TypeOK'
    BY <1>0, <1>3, <1>5, FinishFrame DEF TypeOK
  <1>7. ASSUME NEW k \in Handler PROVE RequestOK(k)'
    <2>1. CASE k = h
      BY <1>0, <2>1, FinishFrame DEF RequestOK, At, HoldsOwner
    <2>2. CASE k # h
      <3>1. pc'[k] = pc[k] /\ req'[k] = req[k] /\ RequestOK(k)
        BY <1>0, <2>2, FinishFrame DEF IInv
      <3>2. /\ ~At(k, "register", "written") /\ ~At(k, "assign", "locked")
            /\ ~At(k, "assign", "written") /\ ~At(k, "update", "written")
        BY <1>0, <1>1, <2>2, <3>1 DEF IInv, LocksExclude, Exclude, At, RequestOK
      <3> QED
        BY <1>0, <1>5, <3>1, <3>2 DEF RequestOK, At, HoldsOwner
    <2> QED
      BY <2>1, <2>2
  <1>8. OwnersInTurn' /\ OwnersTold'
    BY <1>0 DEF IInv, OwnersInTurn, OwnersTold, Chained
  <1>9. ChangesTold'
    BY <1>0, <1>4, <1>5 DEF ChangesTold
  <1> QED
    BY <1>0, <1>6, <1>7, <1>8, <1>9, FinishFrame DEF IInv

LEMMA UpdateCommitInv ==
  ASSUME IInv, NEW h \in Handler, UpdateCommit(h)
  PROVE  IInv'
  <1>0. /\ TypeOK /\ Finish(h) /\ pc[h] = "written" /\ req[h].op = "update"
        /\ UNCHANGED <<owner, ownerEvents>>
    BY DEF IInv, UpdateCommit, At
  <1>1. vehicle # NoVehicle /\ ~IsScrapped /\ req[h].current = vehicle /\ vehicle \in Vehicle
    BY <1>0 DEF IInv, RequestOK, At, TypeOK
  <1>2. req[h] \in UpdateReq
    BY <1>0, RequestKinds
  <1>3. PICK v \in Vehicle :
          /\ v = Updated(req[h], vehicle) /\ v.updated = vehicle.updated + 1
          /\ vehicle' = v /\ stateEvents' = Append(stateEvents, v)
    <2>1. /\ Updated(req[h], vehicle) \in Vehicle
          /\ Updated(req[h], vehicle).updated = vehicle.updated + 1
      BY <1>1, <1>2 DEF Updated, Given, UpdateReq, Vehicle
    <2> QED
      BY <1>1, <2>1 DEF UpdateCommit
  <1>4. warrantyEvents' = IF v.warranty = vehicle.warranty THEN warrantyEvents
                          ELSE Append(warrantyEvents,
                                      [previous |-> vehicle.warranty, warranty |-> v.warranty])
    BY <1>1, <1>3 DEF UpdateCommit
  <1>5. StatesTold' /\ vehicle' # NoVehicle /\ stateEvents' \in Seq(Vehicle)
    BY <1>0, <1>1, <1>3, NextVersion DEF IInv, ChangesTold
  <1>6. warrantyEvents \in Seq(WarrantyEvent) /\ Len(warrantyEvents) \in Nat
    BY <1>0 DEF TypeOK
  <1>7. warrantyEvents' \in Seq(WarrantyEvent) /\ \A n \in 1 .. Len(warrantyEvents') : WarrantyLink(n)'
    <2>0. \A n \in 1 .. Len(warrantyEvents) : WarrantyLink(n)
      BY DEF IInv, ChangesTold
    <2>1. CASE v.warranty = vehicle.warranty
      BY <1>3, <1>4, <1>6, <2>0, <2>1 DEF WarrantyLink
    <2>2. CASE v.warranty # vehicle.warranty
      <3>1. PICK e \in WarrantyEvent :
              /\ e.previous = vehicle.warranty /\ e.warranty = v.warranty
              /\ warrantyEvents' = Append(warrantyEvents, e)
        BY <1>1, <1>4, <2>2 DEF WarrantyEvent, Vehicle
      <3>2. /\ warrantyEvents' \in Seq(WarrantyEvent) /\ Len(warrantyEvents') = Len(warrantyEvents) + 1
            /\ warrantyEvents'[Len(warrantyEvents) + 1] = e
            /\ \A n \in 1 .. Len(warrantyEvents) : warrantyEvents'[n] = warrantyEvents[n]
        BY <1>6, <3>1, AppendProperties
      <3>3. ASSUME NEW n \in 1 .. Len(warrantyEvents') PROVE WarrantyLink(n)'
        <4>1. CASE n = Len(warrantyEvents) + 1
          BY <1>3, <2>2, <3>1, <3>2, <4>1 DEF WarrantyLink
        <4>2. CASE n = Len(warrantyEvents)
          <5>1. n \in 1 .. Len(warrantyEvents) /\ n + 1 = Len(warrantyEvents') /\ n # Len(warrantyEvents')
            BY <1>6, <3>2, <4>2
          <5>2. WarrantyLink(n) /\ warrantyEvents'[n] = warrantyEvents[n] /\ warrantyEvents'[n + 1] = e
            BY <2>0, <3>2, <4>2, <5>1
          <5> QED
            BY <3>1, <4>2, <5>1, <5>2 DEF WarrantyLink
        <4>3. CASE n < Len(warrantyEvents)
          <5>1. /\ n \in 1 .. Len(warrantyEvents) /\ n + 1 \in 1 .. Len(warrantyEvents)
                /\ n # Len(warrantyEvents) /\ n # Len(warrantyEvents')
            BY <1>6, <3>2, <4>3
          <5>2. WarrantyLink(n) /\ warrantyEvents'[n] = warrantyEvents[n]
                /\ warrantyEvents'[n + 1] = warrantyEvents[n + 1]
            BY <2>0, <3>2, <5>1
          <5> QED
            BY <5>1, <5>2 DEF WarrantyLink
        <4> QED
          BY <1>6, <3>2, <4>1, <4>2, <4>3
      <3> QED
        BY <3>2, <3>3
    <2> QED
      BY <2>1, <2>2
  <1>8. TypeOK'
    BY <1>0, <1>3, <1>5, <1>7, FinishFrame DEF TypeOK
  <1>9. ASSUME NEW k \in Handler PROVE RequestOK(k)'
    <2>1. CASE k = h
      BY <1>0, <2>1, FinishFrame DEF RequestOK, At, HoldsOwner
    <2>2. CASE k # h
      <3>1. pc'[k] = pc[k] /\ req'[k] = req[k] /\ RequestOK(k)
        BY <1>0, <2>2, FinishFrame DEF IInv
      <3>2. /\ ~At(k, "assign", "locked") /\ ~At(k, "assign", "written")
            /\ ~At(k, "update", "written") /\ ~At(k, "register", "written")
        BY <1>0, <1>1, <2>2, <3>1 DEF IInv, LocksExclude, Exclude, At, HoldsVehicle, RequestOK
      <3> QED
        BY <1>0, <1>5, <3>1, <3>2 DEF RequestOK, At, HoldsOwner
    <2> QED
      BY <2>1, <2>2
  <1>10. OwnersInTurn' /\ OwnersTold'
    BY <1>0 DEF IInv, OwnersInTurn, OwnersTold, Chained
  <1>11. ChangesTold'
    BY <1>5, <1>7 DEF ChangesTold
  <1> QED
    BY <1>0, <1>8, <1>9, <1>10, <1>11, FinishFrame DEF IInv

\* The state after a new owner's commit, in terms of the rows: the former
\* rows keep owner and first day, and the new row and event are the last.
LEMMA OneMoreOwner ==
  ASSUME IInv, NEW h \in Handler, pc[h] = "written", Finish(h),
         UNCHANGED <<vehicle, stateEvents, warrantyEvents>>,
         NEW rows \in Seq(OwnerRow), Len(rows) = Len(owner),
         \A n \in 1 .. Len(owner) : rows[n].customer = owner[n].customer /\ rows[n].from = owner[n].from,
         NEW last \in OwnerRow, owner' = Append(rows, last),
         NEW e \in OwnerEvent, ownerEvents' = Append(ownerEvents, e),
         e.customer = last.customer, e.from = last.from,
         e.previous = IF owner = <<>> THEN NoCustomer ELSE owner[Len(owner)].customer
  PROVE  /\ TypeOK' /\ OwnersTold' /\ ChangesTold' /\ LocksExclude'
         /\ Len(owner') = Len(owner) + 1 /\ owner'[Len(owner) + 1] = last
         /\ \A n \in 1 .. Len(owner) : owner'[n] = rows[n]
  <1>0. TypeOK /\ OwnersTold
    BY DEF IInv
  <1>1. /\ owner \in Seq(OwnerRow) /\ Len(owner) \in Nat
        /\ ownerEvents \in Seq(OwnerEvent) /\ Len(ownerEvents) = Len(owner)
    BY <1>0 DEF TypeOK, OwnersTold
  <1>2. /\ owner' \in Seq(OwnerRow) /\ Len(owner') = Len(owner) + 1
        /\ owner'[Len(owner) + 1] = last /\ \A n \in 1 .. Len(owner) : owner'[n] = rows[n]
    BY <1>1, AppendProperties
  <1>3. /\ ownerEvents' \in Seq(OwnerEvent) /\ Len(ownerEvents') = Len(owner) + 1
        /\ ownerEvents'[Len(owner) + 1] = e
        /\ \A n \in 1 .. Len(owner) : ownerEvents'[n] = ownerEvents[n]
    BY <1>1, AppendProperties
  <1>4. TypeOK'
    BY <1>0, <1>2, <1>3, FinishFrame DEF TypeOK
  <1>5. ASSUME NEW n \in 1 .. Len(owner')
        PROVE  /\ ownerEvents'[n].customer = owner'[n].customer
               /\ ownerEvents'[n].from = owner'[n].from
               /\ ownerEvents'[n].previous = IF n = 1 THEN NoCustomer ELSE owner'[n - 1].customer
    <2>1. CASE n = Len(owner) + 1
      <3>1. CASE owner = <<>>
        BY <1>2, <1>3, <2>1, <3>1
      <3>2. CASE owner # <<>>
        <4>1. Len(owner) \in 1 .. Len(owner) /\ n # 1 /\ n - 1 = Len(owner)
          BY <1>1, <2>1, <3>2, EmptySeq
        <4> QED
          BY <1>2, <1>3, <2>1, <3>2, <4>1
      <3> QED
        BY <3>1, <3>2
    <2>2. CASE n # Len(owner) + 1
      <3>1. n \in 1 .. Len(owner)
        BY <1>1, <1>2, <2>2
      <3>2. /\ ownerEvents[n].customer = owner[n].customer
            /\ ownerEvents[n].from = owner[n].from
            /\ ownerEvents[n].previous = IF n = 1 THEN NoCustomer ELSE owner[n - 1].customer
        BY <1>0, <3>1 DEF OwnersTold
      <3>3. n # 1 => n - 1 \in 1 .. Len(owner)
        BY <1>1, <3>1
      <3> QED
        BY <1>2, <1>3, <3>1, <3>2, <3>3
    <2> QED
      BY <2>1, <2>2
  <1>6. OwnersTold'
    BY <1>2, <1>3, <1>5 DEF OwnersTold
  <1>7. ChangesTold'
    BY DEF IInv, ChangesTold, StatesTold, WarrantyLink
  <1> QED
    BY <1>2, <1>4, <1>6, <1>7, FinishFrame

LEMMA AssignCommitInv ==
  ASSUME IInv, NEW h \in Handler, AssignCommit(h)
  PROVE  IInv'
  <1>0. /\ TypeOK /\ Finish(h) /\ pc[h] = "written" /\ req[h].op = "assign"
        /\ UNCHANGED <<vehicle, stateEvents, warrantyEvents>>
    BY DEF IInv, AssignCommit, At
  <1>1. owner = <<>> /\ owner \in Seq(OwnerRow) /\ Len(owner) = 0
    BY <1>0 DEF IInv, RequestOK, At, TypeOK
  <1>2. req[h] \in AssignReq
    BY <1>0, RequestKinds
  <1>3. PICK last \in OwnerRow :
          /\ last = NewOwner(req[h]) /\ owner' = Append(owner, last)
          /\ last.status = "CURRENT" /\ last.to = NoDay
          /\ last.customer = req[h].customer /\ last.from = req[h].day
    <2>1. NewOwner(req[h]) \in OwnerRow
      BY <1>2 DEF NewOwner, AssignReq, OwnerRow
    <2> QED
      BY <2>1 DEF AssignCommit, NewOwner
  <1>4. PICK e \in OwnerEvent :
          /\ ownerEvents' = Append(ownerEvents, e)
          /\ e.customer = req[h].customer /\ e.from = req[h].day /\ e.previous = NoCustomer
    BY <1>2 DEF AssignCommit, AssignReq, OwnerEvent
  <1>5. /\ TypeOK' /\ OwnersTold' /\ ChangesTold' /\ LocksExclude'
        /\ Len(owner') = 1 /\ owner'[1] = last
    <2>1. /\ e.customer = last.customer /\ e.from = last.from
          /\ e.previous = IF owner = <<>> THEN NoCustomer ELSE owner[Len(owner)].customer
      BY <1>1, <1>3, <1>4
    <2>2. /\ TypeOK' /\ OwnersTold' /\ ChangesTold' /\ LocksExclude'
          /\ Len(owner') = Len(owner) + 1 /\ owner'[Len(owner) + 1] = last
      BY <1>0, <1>1, <1>3, <1>4, <2>1, OneMoreOwner
    <2> QED
      BY <1>1, <2>2
  <1>6. OwnersInTurn'
    BY <1>3, <1>5 DEF OwnersInTurn, Chained
  <1>7. ASSUME NEW k \in Handler PROVE RequestOK(k)'
    <2>1. CASE k = h
      BY <1>0, <2>1, FinishFrame DEF RequestOK, At, HoldsOwner
    <2>2. CASE k # h
      <3>1. pc'[k] = pc[k] /\ req'[k] = req[k] /\ RequestOK(k)
        BY <1>0, <2>2, FinishFrame DEF IInv
      <3>2. ~At(k, "assign", "written") /\ ~HoldsOwner(k) /\ ~At(k, "transfer", "found")
        BY <1>0, <1>1, <2>2, <3>1 DEF IInv, LocksExclude, Exclude, At, HoldsVehicle, RequestOK
      <3> QED
        BY <1>0, <3>1, <3>2 DEF RequestOK, At, HoldsOwner, IsScrapped
    <2> QED
      BY <2>1, <2>2
  <1> QED
    BY <1>5, <1>6, <1>7 DEF IInv

\* The rows of a transfer's commit, without the new one: the last has ended.
LEMMA EndLast ==
  ASSUME TypeOK, OwnersInTurn, NEW d \in Day, owner # <<>>
  PROVE  LET rows == [owner EXCEPT ![Len(owner)].to = d, ![Len(owner)].status = "TRANSFERRED"]
         IN  /\ rows \in Seq(OwnerRow) /\ Len(rows) = Len(owner)
             /\ \A n \in 1 .. Len(owner) :
                  rows[n].customer = owner[n].customer /\ rows[n].from = owner[n].from
             /\ \A n \in 1 .. Len(owner) : n # Len(owner) => rows[n] = owner[n]
             /\ rows[Len(owner)].to = d /\ rows[Len(owner)].status = "TRANSFERRED"
  <1> DEFINE L == Len(owner)
             rows == [owner EXCEPT ![L].to = d, ![L].status = "TRANSFERRED"]
  <1>1. owner \in Seq(OwnerRow) /\ L \in Nat /\ L \in 1 .. L
    BY EmptySeq DEF TypeOK
  <1>2. owner[L] \in OwnerRow
    BY <1>1, ElementOfSeq
  <1>3. PICK ended \in OwnerRow : ended = [owner[L] EXCEPT !.to = d, !.status = "TRANSFERRED"]
    BY <1>2 DEF OwnerRow
  <1>4. /\ ended.to = d /\ ended.status = "TRANSFERRED"
        /\ ended.customer = owner[L].customer /\ ended.from = owner[L].from
    BY <1>2, <1>3 DEF OwnerRow
  <1>5. rows = [owner EXCEPT ![L] = ended]
    BY <1>1, <1>3
  <1>6. rows \in Seq(OwnerRow) /\ Len(rows) = L
    BY <1>1, <1>5, ExceptSeq
  <1>7. rows[L] = ended /\ \A n \in 1 .. L : n # L => rows[n] = owner[n]
    <2>1. DOMAIN owner = 1 .. L
      BY <1>1
    <2> QED
      BY <1>1, <1>5, <2>1, ExceptSeq
  <1> HIDE DEF rows
  <1>8. \A n \in 1 .. L : rows[n].customer = owner[n].customer /\ rows[n].from = owner[n].from
    BY <1>4, <1>7
  <1>9. rows[L].to = d /\ rows[L].status = "TRANSFERRED"
    BY <1>4, <1>7
  <1> QED
    BY <1>6, <1>7, <1>8, <1>9 DEF rows

LEMMA TransferCommitInv ==
  ASSUME IInv, NEW h \in Handler, TransferCommit(h)
  PROVE  IInv'
  <1> DEFINE L == Len(owner)
  <1>0. /\ TypeOK /\ OwnersInTurn /\ Finish(h) /\ pc[h] = "written" /\ req[h].op = "transfer"
        /\ UNCHANGED <<vehicle, stateEvents, warrantyEvents>>
    BY DEF IInv, TransferCommit, At
  <1>1. /\ owner # <<>> /\ req[h].row = L /\ owner[L].customer = req[h].previous
        /\ owner[L].from <= req[h].day
    BY <1>0 DEF IInv, RequestOK, At, HoldsOwner
  <1>2. req[h] \in TransferReq
    BY <1>0, RequestKinds
  <1>3. owner \in Seq(OwnerRow) /\ L \in Nat /\ L \in 1 .. L /\ req[h].day \in Day
    BY <1>0, <1>1, <1>2, EmptySeq DEF TypeOK, TransferReq
  <1>4. PICK rows \in Seq(OwnerRow) :
          /\ rows = [owner EXCEPT ![L].to = req[h].day, ![L].status = "TRANSFERRED"]
          /\ Len(rows) = L
          /\ \A n \in 1 .. L : rows[n].customer = owner[n].customer /\ rows[n].from = owner[n].from
          /\ \A n \in 1 .. L : n # L => rows[n] = owner[n]
          /\ rows[L].to = req[h].day /\ rows[L].status = "TRANSFERRED"
    BY <1>0, <1>1, <1>3, EndLast
  <1>5. PICK last \in OwnerRow :
          /\ owner' = Append(rows, last)
          /\ last.status = "CURRENT" /\ last.to = NoDay
          /\ last.customer = req[h].customer /\ last.from = req[h].day
    <2>1. NewOwner(req[h]) \in OwnerRow
      BY <1>2 DEF NewOwner, TransferReq, OwnerRow
    <2> QED
      BY <1>1, <1>4, <2>1 DEF TransferCommit, NewOwner
  <1>6. PICK e \in OwnerEvent :
          /\ ownerEvents' = Append(ownerEvents, e)
          /\ e.customer = req[h].customer /\ e.from = req[h].day /\ e.previous = req[h].previous
    <2>1. [customer |-> req[h].customer, previous |-> req[h].previous, from |-> req[h].day]
            \in OwnerEvent
      BY <1>2 DEF TransferReq, OwnerEvent
    <2> QED
      BY <2>1 DEF TransferCommit
  <1>7. /\ TypeOK' /\ OwnersTold' /\ ChangesTold' /\ LocksExclude'
        /\ Len(owner') = L + 1 /\ owner'[L + 1] = last
        /\ \A n \in 1 .. L : owner'[n] = rows[n]
    <2>1. /\ e.customer = last.customer /\ e.from = last.from
          /\ e.previous = IF owner = <<>> THEN NoCustomer ELSE owner[L].customer
      BY <1>1, <1>5, <1>6
    <2> QED
      BY <1>0, <1>4, <1>5, <1>6, <2>1, OneMoreOwner
  <1>8. OwnersInTurn'
    <2> SUFFICES ASSUME NEW n \in 1 .. L + 1 PROVE Chained(n)'
      BY <1>7 DEF OwnersInTurn
    <2>1. CASE n = L + 1
      BY <1>5, <1>7, <2>1 DEF Chained
    <2>2. CASE n = L
      <3>1. n \in 1 .. L /\ n # L + 1 /\ n + 1 = L + 1
        BY <1>3, <2>2
      <3>2. owner'[n].status = "TRANSFERRED" /\ owner'[n].to = req[h].day /\ owner'[n].from = owner[L].from
        BY <1>4, <1>7, <2>2, <3>1
      <3> QED
        BY <1>1, <1>5, <1>7, <3>1, <3>2 DEF Chained
    <2>3. CASE n < L
      <3>1. n \in 1 .. L /\ n + 1 \in 1 .. L /\ n # L /\ n # L + 1
        BY <1>3, <2>3
      <3>2. Chained(n)
        BY <1>0, <3>1 DEF OwnersInTurn
      <3>3. owner'[n] = owner[n] /\ owner'[n + 1].from = owner[n + 1].from
        BY <1>4, <1>7, <3>1
      <3> QED
        BY <1>7, <3>1, <3>2, <3>3 DEF Chained
    <2> QED
      BY <1>3, <2>1, <2>2, <2>3
  <1>9. ASSUME NEW k \in Handler PROVE RequestOK(k)'
    <2>1. CASE k = h
      BY <1>0, <2>1, FinishFrame DEF RequestOK, At, HoldsOwner
    <2>2. CASE k # h
      <3>1. pc'[k] = pc[k] /\ req'[k] = req[k] /\ RequestOK(k)
        BY <1>0, <2>2, FinishFrame DEF IInv
      <3>2. ~At(k, "assign", "written") /\ ~HoldsOwner(k)
        BY <1>0, <1>1, <2>2, <3>1 DEF IInv, LocksExclude, Exclude, At, HoldsOwner, RequestOK
      <3>3. At(k, "transfer", "found") => req[k].row \in 1 .. Len(owner')
        BY <1>3, <1>7, <3>1 DEF RequestOK
      <3> QED
        BY <1>0, <3>1, <3>2, <3>3 DEF RequestOK, At, HoldsOwner, IsScrapped
    <2> QED
      BY <2>1, <2>2
  <1> QED
    BY <1>7, <1>8, <1>9 DEF IInv

LEMMA NextInv == IInv /\ [Next]_vars => IInv'
  <1> SUFFICES ASSUME IInv, [Next]_vars PROVE IInv'
    OBVIOUS
  <1>1. ASSUME NEW h \in Handler, Fail(h) PROVE IInv'
    BY <1>1, RefuseKeeps DEF Fail
  <1>2. CASE BreakDeadlock
    BY <1>2, RefuseKeeps DEF BreakDeadlock
  <1>3. CASE UNCHANGED vars
    <2> USE <1>3 DEF vars
    <2>1. TypeOK' /\ OwnersInTurn' /\ OwnersTold' /\ ChangesTold'
      BY DEF IInv, TypeOK, OwnersInTurn, OwnersTold, Chained, ChangesTold, StatesTold, WarrantyLink
    <2>2. LocksExclude' /\ \A k \in Handler : RequestOK(k)'
      BY DEF IInv, LocksExclude, Exclude, RequestOK, At, HoldsVehicle, SharesVehicle, HoldsOwner,
             IsScrapped
    <2> QED
      BY <2>1, <2>2 DEF IInv
  <1> QED
    BY <1>1, <1>2, <1>3, AcceptInv, RegisterInsertInv, RegisterCommitInv, AssignLockInv,
       AssignInsertInv, AssignCommitInv, UpdateWriteInv, UpdateCommitInv, TransferFindInv,
       TransferCloseInv, TransferInsertInv, TransferCommitInv
    DEF Next

-----------------------------------------------------------------------------
(* The theorems.                                                           *)

\* What a request in flight has established stays true until it commits:
\* the inductive invariant holds in every reachable state.
THEOREM Invariant == Spec => []IInv
<1> QED
  BY Initially, NextInv, PTL DEF Spec

\* No request's optional field reaches the vehicle row; rows, events and
\* requests keep their types.
THEOREM TypeCorrect == Spec => []TypeOK
<1>1. IInv => TypeOK
  BY DEF IInv
<1> QED
  BY <1>1, Invariant, PTL

\* However assignments and transfers race, the vehicle's ownerships form one
\* chain without gaps or overlaps.
THEOREM OneOwnerAtATime == Spec => []OwnersInTurn
<1>1. IInv => OwnersInTurn
  BY DEF IInv
<1> QED
  BY <1>1, Invariant, PTL

\* Each ownership is announced once, in order, with its true predecessor.
THEOREM OwnerEventsAreTrue == Spec => []OwnersTold
<1>1. IInv => OwnersTold
  BY DEF IInv
<1> QED
  BY <1>1, Invariant, PTL

\* The vehicle's events number its versions, and the warranty changes link up.
THEOREM ChangeEventsAreTrue == Spec => []ChangesTold
<1>1. IInv => ChangesTold
  BY DEF IInv
<1> QED
  BY <1>1, Invariant, PTL

\* Refused requests and statements before the commit change no table.
LEMMA TablesChange ==
  ASSUME [Next]_vars
  PROVE  \/ UNCHANGED tables
         \/ \E h \in Handler :
              RegisterCommit(h) \/ AssignCommit(h) \/ UpdateCommit(h) \/ TransferCommit(h)
  <1>1. ASSUME NEW h \in Handler, Refuse(h) PROVE UNCHANGED tables
    BY <1>1 DEF Refuse
  <1>2. ASSUME NEW h \in Handler, NEW p, GoTo(h, p) PROVE UNCHANGED tables
    BY <1>2 DEF GoTo
  <1>3. CASE BreakDeadlock
    BY <1>1, <1>3 DEF BreakDeadlock
  <1>4. CASE UNCHANGED vars
    BY <1>4 DEF vars, tables
  <1>5. ASSUME NEW h \in Handler,
               \/ Accept(h) \/ RegisterInsert(h) \/ AssignLock(h) \/ AssignInsert(h)
               \/ UpdateWrite(h) \/ TransferFind(h) \/ TransferClose(h) \/ TransferInsert(h)
               \/ Fail(h)
        PROVE  UNCHANGED tables
    BY <1>1, <1>2, <1>5
      DEF Accept, RegisterInsert, AssignLock, AssignInsert, UpdateWrite, Write, TransferFind,
          TransferClose, TransferInsert, Fail
  <1> QED
    BY <1>3, <1>4, <1>5 DEF Next

\* A scrapped vehicle stays as it is and gets no first owner, though updates
\* and assignments may have been under way when it was scrapped.
THEOREM ScrappedForGood == Spec => ScrappedIsFinal
<1>1. IInv /\ [Next]_vars
        => [IsScrapped => vehicle' = vehicle /\ (owner = <<>> => owner' = <<>>)]_vars
  <2> SUFFICES ASSUME IInv, [Next]_vars, IsScrapped
               PROVE  vehicle' = vehicle /\ (owner = <<>> => owner' = <<>>)
    OBVIOUS
  <2>1. CASE UNCHANGED tables
    BY <2>1 DEF tables
  <2>2. ASSUME NEW h \in Handler, RegisterCommit(h) \/ AssignCommit(h) \/ UpdateCommit(h)
        PROVE  FALSE
    BY <2>2 DEF IInv, RequestOK, RegisterCommit, AssignCommit, UpdateCommit, At, IsScrapped
  <2>3. ASSUME NEW h \in Handler, TransferCommit(h)
        PROVE  vehicle' = vehicle /\ owner # <<>>
    BY <2>3 DEF IInv, RequestOK, TransferCommit, HoldsOwner
  <2> QED
    BY <2>1, <2>2, <2>3, TablesChange
<1> QED
  BY <1>1, Invariant, PTL DEF Spec, ScrappedIsFinal

-----------------------------------------------------------------------------
(* The title register.                                                     *)

TitleEntry == [customer : Customer, since : Day]
TitleEvent == [customer : Customer, previous : Customer \cup {NoCustomer}, since : Day]

\* The register in terms of the rows.
LEMMA TitleRows ==
  ASSUME TypeOK
  PROVE  /\ titleOwners \in Seq(TitleEntry) /\ Len(titleOwners) = Len(owner)
         /\ \A n \in 1 .. Len(owner) :
              titleOwners[n] = [customer |-> owner[n].customer, since |-> owner[n].from]
         /\ titleTold \in Seq(TitleEvent) /\ Len(titleTold) = Len(ownerEvents)
         /\ \A n \in 1 .. Len(ownerEvents) :
              titleTold[n] = [customer |-> ownerEvents[n].customer,
                              previous |-> ownerEvents[n].previous, since |-> ownerEvents[n].from]
  <1>1. /\ owner \in Seq(OwnerRow) /\ Len(owner) \in Nat
        /\ ownerEvents \in Seq(OwnerEvent) /\ Len(ownerEvents) \in Nat
    BY DEF TypeOK
  <1>2. ASSUME NEW n \in 1 .. Len(owner)
        PROVE  [customer |-> owner[n].customer, since |-> owner[n].from] \in TitleEntry
    <2>1. owner[n] \in OwnerRow
      BY <1>1, ElementOfSeq
    <2> QED
      BY <2>1 DEF OwnerRow, TitleEntry
  <1>3. ASSUME NEW n \in 1 .. Len(ownerEvents)
        PROVE  [customer |-> ownerEvents[n].customer, previous |-> ownerEvents[n].previous,
                since |-> ownerEvents[n].from] \in TitleEvent
    <2>1. ownerEvents[n] \in OwnerEvent
      BY <1>1, ElementOfSeq
    <2> QED
      BY <2>1 DEF OwnerEvent, TitleEvent
  <1>4. titleOwners \in Seq(TitleEntry) /\ Len(titleOwners) = Len(owner)
    BY <1>1, <1>2 DEF titleOwners
  <1>5. titleTold \in Seq(TitleEvent) /\ Len(titleTold) = Len(ownerEvents)
    BY <1>1, <1>3 DEF titleTold
  <1>6. \A n \in 1 .. Len(owner) :
          titleOwners[n] = [customer |-> owner[n].customer, since |-> owner[n].from]
    BY DEF titleOwners
  <1>7. \A n \in 1 .. Len(ownerEvents) :
          titleTold[n] = [customer |-> ownerEvents[n].customer,
                          previous |-> ownerEvents[n].previous, since |-> ownerEvents[n].from]
    BY DEF titleTold
  <1> QED
    BY <1>2, <1>4, <1>5, <1>6, <1>7

LEMMA TitleInit == Init => Title!Init
  BY DEF Init, Title!Init, titleCar, titleOwners, titleTold

\* Tables left alone leave the register alone.
LEMMA TitleStutter ==
  ASSUME UNCHANGED <<vehicle, owner, ownerEvents>>
  PROVE  UNCHANGED Title!tvars
  BY DEF Title!tvars, titleCar, titleOwners, titleTold

\* One more row and event are one more entry and announcement.
LEMMA TitleGrows ==
  ASSUME TypeOK, TypeOK',
         Len(owner') = Len(owner) + 1, Len(ownerEvents') = Len(ownerEvents) + 1,
         \A n \in 1 .. Len(owner) : /\ owner'[n].customer = owner[n].customer
                                    /\ owner'[n].from = owner[n].from,
         \A n \in 1 .. Len(ownerEvents) : ownerEvents'[n] = ownerEvents[n],
         NEW c \in Customer, NEW p \in Customer \cup {NoCustomer}, NEW d \in Day,
         owner'[Len(owner) + 1].customer = c, owner'[Len(owner) + 1].from = d,
         ownerEvents'[Len(ownerEvents) + 1] = [customer |-> c, previous |-> p, from |-> d]
  PROVE  /\ titleOwners' = Append(titleOwners, [customer |-> c, since |-> d])
         /\ titleTold' = Append(titleTold, [customer |-> c, previous |-> p, since |-> d])
  <1>0. Len(owner) \in Nat /\ Len(ownerEvents) \in Nat
    BY DEF TypeOK
  <1>1. /\ titleOwners' \in Seq(TitleEntry) /\ Len(titleOwners') = Len(owner')
        /\ \A n \in 1 .. Len(owner') :
             titleOwners'[n] = [customer |-> owner'[n].customer, since |-> owner'[n].from]
    <2>1. (TypeOK => titleOwners \in Seq(TitleEntry) /\ Len(titleOwners) = Len(owner)
              /\ \A n \in 1 .. Len(owner) :
                   titleOwners[n] = [customer |-> owner[n].customer, since |-> owner[n].from])'
      BY TitleRows, PTL
    <2> QED
      BY <2>1
  <1>2. /\ titleTold' \in Seq(TitleEvent) /\ Len(titleTold') = Len(ownerEvents')
        /\ \A n \in 1 .. Len(ownerEvents') :
             titleTold'[n] = [customer |-> ownerEvents'[n].customer,
                              previous |-> ownerEvents'[n].previous, since |-> ownerEvents'[n].from]
    <2>1. (TypeOK => titleTold \in Seq(TitleEvent) /\ Len(titleTold) = Len(ownerEvents)
              /\ \A n \in 1 .. Len(ownerEvents) :
                   titleTold[n] = [customer |-> ownerEvents[n].customer,
                                   previous |-> ownerEvents[n].previous,
                                   since |-> ownerEvents[n].from])'
      BY TitleRows, PTL
    <2> QED
      BY <2>1
  <1>3. titleOwners' = Append(titleOwners, [customer |-> c, since |-> d])
    <2>1. [customer |-> c, since |-> d] \in TitleEntry
      BY DEF TitleEntry
    <2>2. ASSUME NEW n \in 1 .. Len(titleOwners) PROVE titleOwners'[n] = titleOwners[n]
      <3>1. n \in 1 .. Len(owner) /\ n \in 1 .. Len(owner')
        BY <1>0, TitleRows
      <3>2. titleOwners[n] = [customer |-> owner[n].customer, since |-> owner[n].from]
        BY <3>1, TitleRows
      <3>3. titleOwners'[n] = [customer |-> owner'[n].customer, since |-> owner'[n].from]
        BY <1>1, <3>1
      <3> QED
        BY <3>1, <3>2, <3>3
    <2>3. titleOwners'[Len(titleOwners) + 1] = [customer |-> c, since |-> d]
      BY <1>0, <1>1, TitleRows
    <2> QED
      BY <1>1, <2>1, <2>2, <2>3, TitleRows, IsAppend
  <1>4. titleTold' = Append(titleTold, [customer |-> c, previous |-> p, since |-> d])
    <2>1. [customer |-> c, previous |-> p, since |-> d] \in TitleEvent
      BY DEF TitleEvent
    <2>2. ASSUME NEW n \in 1 .. Len(titleTold) PROVE titleTold'[n] = titleTold[n]
      <3>1. n \in 1 .. Len(ownerEvents) /\ n \in 1 .. Len(ownerEvents')
        BY <1>0, TitleRows
      <3>2. titleTold[n] = [customer |-> ownerEvents[n].customer,
                            previous |-> ownerEvents[n].previous, since |-> ownerEvents[n].from]
        BY <3>1, TitleRows
      <3>3. titleTold'[n] = [customer |-> ownerEvents'[n].customer,
                             previous |-> ownerEvents'[n].previous, since |-> ownerEvents'[n].from]
        BY <1>2, <3>1
      <3> QED
        BY <3>1, <3>2, <3>3
    <2>3. titleTold'[Len(titleTold) + 1] = [customer |-> c, previous |-> p, since |-> d]
      BY <1>0, <1>2, TitleRows
    <2> QED
      BY <1>2, <2>1, <2>2, <2>3, TitleRows, IsAppend
  <1> QED
    BY <1>3, <1>4

\* Every commit is one entry of the register.
LEMMA TitleStep == IInv /\ [Next]_vars => [Title!Next]_(Title!tvars)
  <1> SUFFICES ASSUME IInv, [Next]_vars PROVE Title!Next \/ UNCHANGED Title!tvars
    OBVIOUS
  <1>0. TypeOK /\ OwnersTold /\ IInv' /\ TypeOK' /\ OwnersTold'
    BY NextInv DEF IInv
  <1>1. CASE UNCHANGED tables
    BY <1>1, TitleStutter DEF tables
  <1>2. ASSUME NEW h \in Handler, RegisterCommit(h) \/ UpdateCommit(h)
        PROVE  Title!Next
    <2>1. UNCHANGED <<owner, ownerEvents>>
      BY <1>2 DEF RegisterCommit, UpdateCommit
    <2>2. UNCHANGED <<titleOwners, titleTold>>
      BY <2>1 DEF titleOwners, titleTold
    <2>3. vehicle' \in Vehicle /\ vehicle' # NoVehicle
      <3>1. CASE RegisterCommit(h)
        <4>1. req[h] \in RegisterReq
          BY <1>0, <3>1, RequestKinds DEF RegisterCommit, At
        <4> QED
          BY <3>1, <4>1, OwnershipAssumption DEF RegisterCommit, RegisterReq, Vehicle
      <3>2. CASE UpdateCommit(h)
        <4>1. req[h] \in UpdateReq
          BY <1>0, <3>2, RequestKinds DEF UpdateCommit, At
        <4>2. req[h].current = vehicle /\ vehicle \in Vehicle
          BY <1>0, <3>2 DEF IInv, RequestOK, UpdateCommit, At, TypeOK
        <4>3. Updated(req[h], vehicle) \in Vehicle
          BY <4>1, <4>2 DEF Updated, Given, UpdateReq, Vehicle
        <4> QED
          BY <3>2, <4>2, <4>3, OwnershipAssumption DEF UpdateCommit
      <3> QED
        BY <1>2, <3>1, <3>2
    <2>4. titleCar' \in Title!Car
      BY <2>3 DEF titleCar, Title!Car, Vehicle
    <2>5. titleCar = NoVehicle \/ ~Title!Scrapped
      <3>1. vehicle = NoVehicle \/ ~IsScrapped
        BY <1>0, <1>2 DEF IInv, RequestOK, RegisterCommit, UpdateCommit, At
      <3> QED
        BY <3>1 DEF titleCar, Title!Scrapped, IsScrapped
    <2> QED
      BY <2>2, <2>4, <2>5 DEF Title!Next, Title!Register, Title!Change
  <1>3. ASSUME NEW h \in Handler, AssignCommit(h)
        PROVE  Title!Next
    <2>0. /\ pc[h] = "written" /\ req[h].op = "assign" /\ UNCHANGED vehicle
          /\ owner' = Append(owner, NewOwner(req[h]))
          /\ ownerEvents' = Append(ownerEvents, [customer |-> req[h].customer, previous |-> NoCustomer,
                                                 from |-> req[h].day])
      BY <1>3 DEF AssignCommit, At
    <2>1. req[h].customer \in Customer /\ req[h].day \in Day
      BY <1>0, <2>0, RequestKinds DEF AssignReq
    <2>2. owner = <<>> /\ vehicle # NoVehicle /\ ~IsScrapped
      BY <1>0, <2>0 DEF IInv, RequestOK, At
    <2>3. Len(owner) = 0 /\ Len(ownerEvents) = 0 /\ ownerEvents = <<>>
      BY <1>0, <2>2, EmptySeq DEF OwnersTold, TypeOK
    <2>4. /\ Len(owner') = 1 /\ Len(ownerEvents') = 1
          /\ owner'[1].customer = req[h].customer /\ owner'[1].from = req[h].day
          /\ ownerEvents'[1] = [customer |-> req[h].customer, previous |-> NoCustomer,
                                from |-> req[h].day]
      BY <2>0, <2>2, <2>3 DEF NewOwner
    <2>5. /\ titleOwners' = Append(titleOwners, [customer |-> req[h].customer, since |-> req[h].day])
          /\ titleTold' = Append(titleTold, [customer |-> req[h].customer, previous |-> NoCustomer,
                                             since |-> req[h].day])
      <3>1. /\ Len(owner') = Len(owner) + 1 /\ Len(ownerEvents') = Len(ownerEvents) + 1
            /\ owner'[Len(owner) + 1].customer = req[h].customer
            /\ owner'[Len(owner) + 1].from = req[h].day
            /\ ownerEvents'[Len(ownerEvents) + 1] =
                 [customer |-> req[h].customer, previous |-> NoCustomer, from |-> req[h].day]
        BY <2>3, <2>4
      <3>2. 1 .. Len(owner) = {} /\ 1 .. Len(ownerEvents) = {}
        BY <2>3
      <3> QED
        BY <1>0, <2>1, <3>1, <3>2, TitleGrows
    <2>6. titleOwners = <<>>
      BY <1>0, <2>3, TitleRows, EmptySeq
    <2>7. titleOwners' = <<[customer |-> req[h].customer, since |-> req[h].day]>>
      BY <2>5, <2>6
    <2>8. titleCar' = titleCar /\ titleCar # NoVehicle /\ ~Title!Scrapped
      <3>1. vehicle \in Vehicle
        BY <1>0, <2>2 DEF TypeOK
      <3>2. titleCar = [status |-> vehicle.status, warranty |-> vehicle.warranty]
        BY <2>2 DEF titleCar
      <3>3. titleCar \in [status : Status, warranty : Warranty]
        BY <3>1, <3>2 DEF Vehicle
      <3>4. titleCar # NoVehicle
        BY <3>3, OwnershipAssumption
      <3> QED
        BY <2>0, <2>2, <3>2, <3>4 DEF titleCar, Title!Scrapped, IsScrapped
    <2>9. Title!Give(req[h].customer, req[h].day)
      BY <2>5, <2>6, <2>7, <2>8 DEF Title!Give
    <2> QED
      BY <2>1, <2>9 DEF Title!Next
  <1>4. ASSUME NEW h \in Handler, TransferCommit(h)
        PROVE  Title!Next
    <2> DEFINE L == Len(owner)
    <2>0. /\ pc[h] = "written" /\ req[h].op = "transfer" /\ UNCHANGED vehicle
          /\ ownerEvents' = Append(ownerEvents, [customer |-> req[h].customer,
                                   previous |-> req[h].previous, from |-> req[h].day])
      BY <1>4 DEF TransferCommit, At
    <2>1. req[h].customer \in Customer /\ req[h].previous \in Customer /\ req[h].day \in Day
      BY <1>0, <2>0, RequestKinds DEF TransferReq
    <2>2. /\ owner # <<>> /\ req[h].row = L /\ owner[L].customer = req[h].previous
          /\ owner[L].from <= req[h].day
      BY <1>0, <2>0 DEF IInv, RequestOK, At, HoldsOwner
    <2>3. owner \in Seq(OwnerRow) /\ L \in Nat /\ L \in 1 .. L
      BY <1>0, <2>2, EmptySeq DEF TypeOK
    <2>4. PICK rows \in Seq(OwnerRow) :
            /\ owner' = Append(rows, NewOwner(req[h])) /\ Len(rows) = L
            /\ \A n \in 1 .. L : rows[n].customer = owner[n].customer /\ rows[n].from = owner[n].from
      BY <1>0, <1>4, <2>1, <2>2, EndLast DEF TransferCommit, IInv
    <2>5. NewOwner(req[h]) \in OwnerRow
      BY <2>1 DEF NewOwner, OwnerRow
    <2>6. /\ Len(owner') = L + 1 /\ owner'[L + 1] = NewOwner(req[h])
          /\ \A n \in 1 .. L : owner'[n].customer = owner[n].customer /\ owner'[n].from = owner[n].from
      BY <2>3, <2>4, <2>5, AppendProperties
    <2>7. owner'[L + 1].customer = req[h].customer /\ owner'[L + 1].from = req[h].day
      BY <2>6 DEF NewOwner
    <2>8. /\ Len(ownerEvents) = L /\ ownerEvents \in Seq(OwnerEvent)
          /\ [customer |-> req[h].customer, previous |-> req[h].previous, from |-> req[h].day]
               \in OwnerEvent
      BY <1>0, <2>1 DEF OwnersTold, TypeOK, OwnerEvent
    <2>9. /\ Len(ownerEvents') = L + 1
          /\ ownerEvents'[L + 1] = [customer |-> req[h].customer, previous |-> req[h].previous,
                                    from |-> req[h].day]
          /\ \A n \in 1 .. L : ownerEvents'[n] = ownerEvents[n]
      BY <2>0, <2>8, AppendProperties
    <2>10. /\ titleOwners' = Append(titleOwners, [customer |-> req[h].customer, since |-> req[h].day])
           /\ titleTold' = Append(titleTold, [customer |-> req[h].customer,
                                              previous |-> req[h].previous, since |-> req[h].day])
      BY <1>0, <2>1, <2>6, <2>7, <2>8, <2>9, TitleGrows
    <2>11. /\ Len(titleOwners) = L /\ titleOwners # <<>>
           /\ titleOwners[L] = [customer |-> owner[L].customer, since |-> owner[L].from]
           /\ titleOwners[L].customer = req[h].previous /\ titleOwners[L].since = owner[L].from
      <3>1. Len(titleOwners) = L /\ titleOwners \in Seq(TitleEntry)
        BY <1>0, TitleRows
      <3>2. titleOwners[L] = [customer |-> owner[L].customer, since |-> owner[L].from]
        BY <1>0, <2>3, TitleRows
      <3>3. titleOwners # <<>>
        BY <2>3, <3>1, EmptySeq
      <3> QED
        BY <2>2, <3>1, <3>2, <3>3
    <2>12. titleCar' = titleCar
      BY <2>0 DEF titleCar
    <2>13. req[h].day >= titleOwners[L].since
      <3>1. owner[L] \in OwnerRow
        BY <2>3, ElementOfSeq
      <3>2. owner[L].from \in Nat /\ req[h].day \in Nat
        BY <2>1, <3>1, OwnershipAssumption DEF OwnerRow
      <3> QED
        BY <2>2, <2>11, <3>2
    <2>14. Title!Pass(req[h].customer, req[h].day)
      BY <2>10, <2>11, <2>12, <2>13 DEF Title!Pass
    <2> QED
      BY <2>1, <2>14 DEF Title!Next
  <1> QED
    BY <1>1, <1>2, <1>3, <1>4, TablesChange

\* Every request that succeeds is one atomic entry of the title register,
\* announced with the owner it really took the vehicle over from.
THEOREM ImplementsTitle == Spec => IsATitle
<1> QED
  BY TitleInit, TitleStep, Invariant, PTL DEF Spec, IsATitle, Title!Spec
=============================================================================
