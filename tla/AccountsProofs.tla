--------------------------- MODULE AccountsProofs ---------------------------
(***************************************************************************)
(* Proofs about Accounts, for any numbers of requests and users.           *)
(*                                                                         *)
(* A step that leaves the tables alone has to establish only what its own  *)
(* request claims (lemma Quiet).  A commit adds to the tables: accounts    *)
(* keep their role and maker and histories only grow (lemma Grows), so     *)
(* what the other requests have found out stays true, and what they have   *)
(* written is another user's row (Exclude).                                *)
(***************************************************************************)
EXTENDS Accounts, SequenceTheorems, TLAPS

LEMMA Initially == Init => IInv
  <1> SUFFICES ASSUME Init PROVE IInv
    OBVIOUS
  <1> USE DEF Init
  <1>1. ASSUME NEW e \in Email, Exists(e)
        PROVE  /\ account[e] \in Account /\ account[e].by = "setup"
               /\ account[e].status = "ACTIVE"
    BY <1>1 DEF Exists, Made, Account, Role, Status, Maker
  <1>2. TypeOK
    <2>1. account \in [Email -> Account \cup {NoAccount}]
      BY <1>1 DEF Exists
    <2>2. ASSUME NEW e \in Email, Exists(e)
          PROVE  Event("UserCreated", account[e]) \in UserEvent
      BY <1>1, <2>2 DEF Event, UserEvent, Account
    <2>3. told \in [Email -> Seq(UserEvent)]
      BY <2>2
    <2> QED
      BY <2>1, <2>3, AccountsAssumption DEF TypeOK, PC
  <1>3. EventsTell
    BY <1>1 DEF EventsTell, TellsHistory, Event
  <1>4. StaffAreMade /\ BootstrapIsFirst /\ OneBootstrap
    BY <1>1 DEF StaffAreMade, IsMade, BootstrapIsFirst, OneBootstrap
  <1>5. \A h \in Handler : RequestOK(h)
    BY DEF RequestOK
  <1>6. \A g, h \in Handler : g # h => Exclude(g, h)
    BY DEF Exclude
  <1> QED
    BY <1>2, <1>3, <1>4, <1>5, <1>6 DEF IInv

-----------------------------------------------------------------------------
(* Steps that leave the tables alone.                                      *)

LEMMA Quiet ==
  ASSUME IInv, NEW h \in Handler, UNCHANGED tables, TypeOK',
         \A k \in Handler \ {h} : pc'[k] = pc[k] /\ req'[k] = req[k],
         RequestOK(h)',
         \A g \in Handler \ {h} : Exclude(g, h)' /\ Exclude(h, g)'
  PROVE  IInv'
  <1> USE DEF tables
  <1>1. ASSUME NEW f \in Handler, NEW g \in Handler, f # g PROVE Exclude(f, g)'
    <2>1. CASE f # h /\ g # h
      BY <1>1, <2>1 DEF IInv, Exclude
    <2> QED
      BY <1>1, <2>1
  <1>2. ASSUME NEW k \in Handler PROVE RequestOK(k)'
    <2>1. CASE k # h
      BY <2>1 DEF IInv, RequestOK, Exists, RoleClaim, ActiveSince
    <2> QED
      BY <2>1
  <1>3. EventsTell' /\ StaffAreMade' /\ BootstrapIsFirst' /\ OneBootstrap'
    BY DEF IInv, EventsTell, TellsHistory, StaffAreMade, IsMade, BootstrapIsFirst, OneBootstrap,
           Exists, RoleClaim
  <1> QED
    BY <1>1, <1>2, <1>3 DEF IInv

LEMMA RefuseKeeps ==
  ASSUME IInv, NEW h \in Handler, Refuse(h)
  PROVE  IInv'
  <1>0. /\ TypeOK /\ UNCHANGED <<tables, arrived>>
        /\ pc' = [pc EXCEPT ![h] = "idle"] /\ req' = [req EXCEPT ![h] = NoReq]
    BY DEF IInv, Refuse, Finish
  <1>1. pc'[h] = "idle" /\ \A k \in Handler \ {h} : pc'[k] = pc[k] /\ req'[k] = req[k]
    BY <1>0 DEF TypeOK
  <1>2. TypeOK'
    BY <1>0, <1>1 DEF TypeOK, PC, tables
  <1>3. RequestOK(h)' /\ \A g \in Handler \ {h} : Exclude(g, h)' /\ Exclude(h, g)'
    BY <1>1 DEF RequestOK, Exclude
  <1> QED
    BY <1>0, <1>1, <1>2, <1>3, Quiet

LEMMA GoesTo ==
  ASSUME IInv, NEW h \in Handler, NEW p \in PC \ {"idle"}, pc[h] # "idle", GoTo(h, p),
         RequestOK(h)',
         \A g \in Handler \ {h} : Exclude(g, h)' /\ Exclude(h, g)'
  PROVE  IInv'
  <1>0. /\ TypeOK /\ UNCHANGED <<req, arrived, tables>>
        /\ pc' = [pc EXCEPT ![h] = p]
    BY DEF IInv, GoTo
  <1>1. \A k \in Handler \ {h} : pc'[k] = pc[k] /\ req'[k] = req[k]
    BY <1>0 DEF TypeOK
  <1>2. TypeOK'
    BY <1>0, <1>1 DEF TypeOK, tables
  <1> QED
    BY <1>0, <1>1, <1>2, Quiet

\* What a handler of that state knows of its own step.
LEMMA Stepped ==
  ASSUME IInv, NEW h \in Handler, NEW p \in PC, GoTo(h, p)
  PROVE  pc'[h] = p /\ \A k \in Handler \ {h} : pc'[k] = pc[k]
  BY DEF IInv, TypeOK, GoTo

\* A request arrives.
LEMMA TakeKeeps ==
  ASSUME IInv, NEW h \in Handler, NEW r \in Request, NEW p \in {"accepted", "allowed"},
         Take(h, r, p),
         p = "allowed" => r.kind = "register", r.kind = "register" => p = "allowed",
         r.kind = "register" => r.role = "CUSTOMER",
         r.kind \in {"create", "status"} \/ r.actor = Nobody,
         r.kind \in {"create", "status"} => /\ r.actor \in Email /\ RoleClaim(r.actor)
                                            /\ r.since \in 1 .. Len(told[r.actor]),
         r.kind = "bootstrap" => r.target = AdminEmail /\ r.role = "ADMIN"
  PROVE  IInv'
  <1>0. /\ TypeOK /\ pc[h] = "idle" /\ arrived < MaxRequests /\ arrived' = arrived + 1
        /\ req' = [req EXCEPT ![h] = r] /\ pc' = [pc EXCEPT ![h] = p] /\ UNCHANGED tables
    BY DEF IInv, Take
  <1>1. /\ pc'[h] = p /\ req'[h] = r
        /\ \A k \in Handler \ {h} : pc'[k] = pc[k] /\ req'[k] = req[k]
    BY <1>0 DEF TypeOK
  <1>2. TypeOK'
    BY <1>0, <1>1, AccountsAssumption DEF TypeOK, PC, tables
  <1>3. RequestOK(h)'
    BY <1>0, <1>1 DEF RequestOK, RoleClaim, Exists, tables
  <1>4. \A g \in Handler \ {h} : Exclude(g, h)' /\ Exclude(h, g)'
    BY <1>1 DEF Exclude
  <1> QED
    BY <1>0, <1>1, <1>2, <1>3, <1>4, Quiet

\* An account's history is not empty and ends with its present status.
LEMMA History ==
  ASSUME IInv, NEW e \in Email, Exists(e)
  PROVE  /\ account[e] \in Account /\ told[e] \in Seq(UserEvent) /\ Len(told[e]) \in Nat \ {0}
         /\ told[e][Len(told[e])].status = account[e].status
         /\ told[e][Len(told[e])].role = account[e].role
  <1>1. TellsHistory(e) /\ account[e] \in Account /\ told[e] \in Seq(UserEvent)
    BY DEF IInv, EventsTell, TypeOK, Exists
  <1>2. Len(told[e]) \in Nat \ {0}
    BY <1>1 DEF TellsHistory
  <1> QED
    BY <1>1, <1>2 DEF TellsHistory

LEMMA ArriveInv ==
  ASSUME IInv, NEW h \in Handler,
         Register(h) \/ AskToCreate(h) \/ AskForStatus(h) \/ Start(h)
  PROVE  IInv'
  <1>1. CASE Register(h)
    <2>1. PICK e \in Email, r \in Role :
            /\ r = "CUSTOMER"
            /\ Take(h, [kind |-> "register", actor |-> Nobody, target |-> e, role |-> r,
                        status |-> "ACTIVE", since |-> 0], "allowed")
      BY <1>1 DEF Register, SelfRegisterable
    <2> DEFINE q == [kind |-> "register", actor |-> Nobody, target |-> e, role |-> r,
                     status |-> "ACTIVE", since |-> 0]
    <2>2. q \in Request
      BY DEF Request, Kind, Status
    <2> QED
      BY <2>1, <2>2, TakeKeeps
  <1>2. CASE AskToCreate(h)
    <2>1. PICK a \in Email, e \in Email, r \in Role :
            /\ RoleClaim(a)
            /\ Take(h, [kind |-> "create", actor |-> a, target |-> e, role |-> r,
                        status |-> "ACTIVE", since |-> Len(told[a])], "accepted")
      BY <1>2 DEF AskToCreate
    <2>2. Len(told[a]) \in Nat \ {0}
      BY <2>1, History DEF RoleClaim
    <2> DEFINE q == [kind |-> "create", actor |-> a, target |-> e, role |-> r,
                     status |-> "ACTIVE", since |-> Len(told[a])]
    <2>3. q \in Request
      BY <2>2 DEF Request, Kind, Status
    <2> QED
      BY <2>1, <2>2, <2>3, TakeKeeps
  <1>3. CASE AskForStatus(h)
    <2>1. PICK a \in Email, e \in Email, s \in Status :
            /\ RoleClaim(a)
            /\ Take(h, [kind |-> "status", actor |-> a, target |-> e, role |-> "CUSTOMER",
                        status |-> s, since |-> Len(told[a])], "accepted")
      BY <1>3 DEF AskForStatus
    <2>2. Len(told[a]) \in Nat \ {0}
      BY <2>1, History DEF RoleClaim
    <2> DEFINE q == [kind |-> "status", actor |-> a, target |-> e, role |-> "CUSTOMER",
                     status |-> s, since |-> Len(told[a])]
    <2>3. q \in Request
      BY <2>2 DEF Request, Kind, Role
    <2> QED
      BY <2>1, <2>2, <2>3, TakeKeeps
  <1>4. CASE Start(h)
    <2> DEFINE q == [kind |-> "bootstrap", actor |-> Nobody, target |-> AdminEmail,
                     role |-> "ADMIN", status |-> "ACTIVE", since |-> 0]
    <2>1. q \in Request
      BY AccountsAssumption DEF Request, Kind, Status, Role
    <2>2. Take(h, q, "accepted")
      BY <1>4 DEF Start
    <2> QED
      BY <2>1, <2>2, TakeKeeps
  <1> QED
    BY <1>1, <1>2, <1>3, <1>4

-----------------------------------------------------------------------------
(* Checks.                                                                 *)

\* requireAdmin: an administrator is active now, and this is his request's time.
LEMMA RequireAdminInv ==
  ASSUME IInv, NEW h \in Handler, RequireAdmin(h)
  PROVE  IInv'
  <1>1. CASE Refuse(h)
    BY <1>1, RefuseKeeps
  <1>2. CASE GoTo(h, "allowed") /\ IsAdmin(req[h].actor)
    <2> DEFINE a == req[h].actor
    <2>1. /\ pc[h] = "accepted" /\ req[h].kind \in {"create", "status"} /\ RequestOK(h)
          /\ "allowed" \in PC \ {"idle"} /\ "allowed" \in PC
      BY DEF RequireAdmin, At, IInv, PC
    <2>2. a \in Email /\ req[h].since \in 1 .. Len(told[a]) /\ Exists(a)
      BY <2>1, <1>2 DEF RequestOK, IsAdmin
    <2>3. ActiveSince(a, req[h].since)
      BY <2>2, <1>2, History DEF ActiveSince, IsAdmin
    <2>4. pc'[h] = "allowed" /\ \A k \in Handler \ {h} : pc'[k] = pc[k]
      BY <2>1, <1>2, Stepped
    <2>5. RequestOK(h)'
      BY <2>1, <2>2, <2>3, <2>4, <1>2
         DEF RequestOK, GoTo, tables, Exists, RoleClaim, ActiveSince
    <2>6. \A g \in Handler \ {h} : Exclude(g, h)' /\ Exclude(h, g)'
      BY <2>4 DEF Exclude
    <2> QED
      BY <1>2, <2>1, <2>5, <2>6, GoesTo
  <1> QED
    BY <1>1, <1>2 DEF RequireAdmin

LEMMA BootstrapCheckInv ==
  ASSUME IInv, NEW h \in Handler, BootstrapCheck(h)
  PROVE  IInv'
  <1>1. CASE Refuse(h)
    BY <1>1, RefuseKeeps
  <1>2. CASE GoTo(h, "allowed") /\ \A e \in Email : ~RoleClaim(e)
    <2>1. /\ pc[h] = "accepted" /\ req[h].kind = "bootstrap" /\ RequestOK(h)
          /\ "allowed" \in PC \ {"idle"} /\ "allowed" \in PC
      BY DEF BootstrapCheck, At, IInv, PC
    <2>2. pc'[h] = "allowed" /\ \A k \in Handler \ {h} : pc'[k] = pc[k]
      BY <2>1, <1>2, Stepped
    <2>3. RequestOK(h)'
      BY <2>1, <2>2, <1>2 DEF RequestOK, GoTo, tables, Exists, RoleClaim
    <2>4. \A g \in Handler \ {h} : Exclude(g, h)' /\ Exclude(h, g)'
      BY <2>2 DEF Exclude
    <2> QED
      BY <1>2, <2>1, <2>3, <2>4, GoesTo
  <1> QED
    BY <1>1, <1>2 DEF BootstrapCheck

LEMMA InsertInv ==
  ASSUME IInv, NEW h \in Handler, Insert(h)
  PROVE  IInv'
  <1>1. CASE Refuse(h)
    BY <1>1, RefuseKeeps
  <1>2. CASE GoTo(h, "inserted") /\ ~Exists(req[h].target)
    <2>1. /\ pc[h] = "allowed" /\ req[h].kind # "status" /\ RequestOK(h)
          /\ \A g \in Handler \ {h} : pc[g] = "inserted" => req[g].target # req[h].target
          /\ "inserted" \in PC \ {"idle"} /\ "inserted" \in PC
      BY DEF Insert, Inserting, IInv, PC
    <2>2. pc'[h] = "inserted" /\ \A k \in Handler \ {h} : pc'[k] = pc[k]
      BY <2>1, <1>2, Stepped
    <2>3. RequestOK(h)'
      BY <2>1, <2>2, <1>2 DEF RequestOK, GoTo, tables, Exists, RoleClaim, ActiveSince
    <2>4. \A g \in Handler \ {h} : Exclude(g, h)' /\ Exclude(h, g)'
      BY <2>1, <2>2, <1>2 DEF Exclude, GoTo
    <2> QED
      BY <1>2, <2>1, <2>3, <2>4, GoesTo
  <1> QED
    BY <1>1, <1>2 DEF Insert

LEMMA StatusLockInv ==
  ASSUME IInv, NEW h \in Handler, StatusLock(h)
  PROVE  IInv'
  <1>1. CASE Refuse(h)
    BY <1>1, RefuseKeeps
  <1>2. CASE /\ GoTo(h, "updated") /\ Exists(req[h].target)
             /\ account[req[h].target].status # req[h].status
    <2>1. /\ pc[h] = "allowed" /\ req[h].kind = "status" /\ RequestOK(h)
          /\ \A g \in Handler \ {h} : ~HoldsRow(g, req[h].target)
          /\ "updated" \in PC \ {"idle"} /\ "updated" \in PC
      BY DEF StatusLock, At, IInv, PC
    <2>2. pc'[h] = "updated" /\ \A k \in Handler \ {h} : pc'[k] = pc[k]
      BY <2>1, <1>2, Stepped
    <2>3. RequestOK(h)'
      BY <2>1, <2>2, <1>2 DEF RequestOK, GoTo, tables, Exists, RoleClaim, ActiveSince
    <2>4. ASSUME NEW g \in Handler \ {h} PROVE Exclude(g, h)' /\ Exclude(h, g)'
      <3>1. pc[g] = "updated" => req[g].kind = "status"
        BY DEF IInv, RequestOK
      <3>2. pc[g] = "updated" => req[g].target # req[h].target
        BY <2>1, <3>1 DEF HoldsRow, At
      <3> QED
        BY <2>2, <3>2, <1>2 DEF Exclude, GoTo
    <2> QED
      BY <1>2, <2>1, <2>3, <2>4, GoesTo
  <1> QED
    BY <1>1, <1>2 DEF StatusLock

-----------------------------------------------------------------------------
(* Commits.                                                                *)

\* One user's row and history are written: either a new one, or one that
\* keeps its role and maker.
LEMMA Grows ==
  ASSUME IInv, NEW e \in Email, NEW u \in Account, NEW v \in UserEvent,
         Exists(e) => account[e].role = u.role /\ account[e].by = u.by,
         account' = [account EXCEPT ![e] = u],
         told' = [told EXCEPT ![e] = Append(@, v)]
  PROVE  /\ account' \in [Email -> Account \cup {NoAccount}]
         /\ told' \in [Email -> Seq(UserEvent)]
         /\ Exists(e)' /\ account'[e] = u /\ told'[e] = Append(told[e], v)
         /\ \A f \in Email \ {e} : account'[f] = account[f] /\ told'[f] = told[f]
         /\ \A f \in Email : Exists(f) => /\ Exists(f)' /\ account'[f].role = account[f].role
                                          /\ account'[f].by = account[f].by
         /\ \A f \in Email : RoleClaim(f) => RoleClaim(f)'
         /\ \A f \in Email : Len(told[f]) \in Nat /\ Len(told[f]) <= Len(told'[f])
         /\ \A f \in Email, n \in Nat : ActiveSince(f, n) => ActiveSince(f, n)'
  <1>1. /\ account \in [Email -> Account \cup {NoAccount}] /\ told \in [Email -> Seq(UserEvent)]
        /\ u # NoAccount
    BY AccountsAssumption DEF IInv, TypeOK
  <1>2. /\ account' \in [Email -> Account \cup {NoAccount}] /\ told' \in [Email -> Seq(UserEvent)]
        /\ Exists(e)' /\ account'[e] = u /\ told'[e] = Append(told[e], v)
        /\ \A f \in Email \ {e} : account'[f] = account[f] /\ told'[f] = told[f]
    BY <1>1 DEF Exists
  <1>3. \A f \in Email : Exists(f) => /\ Exists(f)' /\ account'[f].role = account[f].role
                                      /\ account'[f].by = account[f].by
    BY <1>2 DEF Exists
  <1>4. \A f \in Email : RoleClaim(f) => RoleClaim(f)'
    BY <1>3 DEF RoleClaim
  <1>5. ASSUME NEW f \in Email
        PROVE  /\ Len(told[f]) \in Nat /\ Len(told[f]) <= Len(told'[f])
               /\ \A i \in 1 .. Len(told[f]) : told'[f][i] = told[f][i]
    <2>1. CASE f = e
      BY <1>1, <1>2, <2>1
    <2>2. CASE f # e
      BY <1>1, <1>2, <2>2
    <2> QED
      BY <2>1, <2>2
  <1>6. ASSUME NEW f \in Email, NEW n \in Nat, ActiveSince(f, n) PROVE ActiveSince(f, n)'
    <2>1. PICK i \in n .. Len(told[f]) : /\ i > 0 /\ told[f][i].role = "ADMIN"
                                         /\ told[f][i].status = "ACTIVE"
      BY <1>6 DEF ActiveSince
    <2>2. i \in n .. Len(told'[f]) /\ told'[f][i] = told[f][i]
      BY <2>1, <1>5, <1>2
    <2> QED
      BY <2>1, <2>2 DEF ActiveSince
  <1> QED
    BY <1>2, <1>3, <1>4, <1>5, <1>6

\* What the other requests have established outlives a commit that does not
\* touch the user they have written.
LEMMA OthersKeep ==
  ASSUME IInv, NEW h \in Handler, NEW e \in Email, NEW u \in Account, NEW v \in UserEvent,
         Exists(e) => account[e].role = u.role /\ account[e].by = u.by,
         account' = [account EXCEPT ![e] = u],
         told' = [told EXCEPT ![e] = Append(@, v)],
         ~Exists(e) /\ u.role = "ADMIN" => u.by \in Email \cup {"bootstrap"},
         NEW k \in Handler \ {h}, pc'[k] = pc[k], req'[k] = req[k],
         pc[k] \in {"inserted", "updated"} => req[k].target # e
  PROVE  RequestOK(k)'
  <1>0. RequestOK(k) /\ (pc[k] # "idle" => req[k] \in Request)
    BY DEF IInv, TypeOK
  <1>1. CASE pc[k] = "idle"
    BY <1>1 DEF RequestOK
  <1>2. CASE pc[k] # "idle"
    <2> PICK r \in Request : r = req[k]
      BY <1>0, <1>2
    <2>1. r \in Request /\ req'[k] = r
      OBVIOUS
    <2>2. /\ pc[k] = "inserted" => ~Exists(r.target)'
          /\ pc[k] = "updated" => Exists(r.target)' /\ account'[r.target].status # r.status
      BY <2>1, <1>0, Grows DEF RequestOK, Exists, Request
    <2>3. r.kind \in {"create", "status"} =>
            /\ r.actor \in Email /\ RoleClaim(r.actor)'
            /\ r.since \in 1 .. Len(told'[r.actor])
            /\ pc[k] # "accepted" => ActiveSince(r.actor, r.since)'
      <3> SUFFICES ASSUME r.kind \in {"create", "status"}
                   PROVE  /\ r.actor \in Email /\ RoleClaim(r.actor)'
                          /\ r.since \in 1 .. Len(told'[r.actor])
                          /\ pc[k] # "accepted" => ActiveSince(r.actor, r.since)'
        OBVIOUS
      <3>1. /\ r.actor \in Email /\ RoleClaim(r.actor)
            /\ r.since \in 1 .. Len(told[r.actor])
            /\ pc[k] # "accepted" => ActiveSince(r.actor, r.since)
        BY <1>0, <1>2 DEF RequestOK
      <3>2. Len(told[r.actor]) <= Len(told'[r.actor]) /\ Len(told'[r.actor]) \in Nat
        BY <3>1, Grows
      <3>3. RoleClaim(r.actor)'
        BY <3>1, Grows
      <3>4. pc[k] # "accepted" => ActiveSince(r.actor, r.since)'
        <4>1. Len(told[r.actor]) \in Nat /\ r.since \in Nat
          BY <3>1, Grows
        <4> QED
          BY <3>1, <4>1, Grows
      <3> QED
        BY <3>1, <3>2, <3>3, <3>4
    <2>4. r.kind = "bootstrap" /\ pc[k] # "accepted" =>
            \A f \in Email : RoleClaim(f)' => account'[f].by \in Email \cup {"bootstrap"}
      <3> SUFFICES ASSUME r.kind = "bootstrap", pc[k] # "accepted", NEW f \in Email, RoleClaim(f)'
                   PROVE  account'[f].by \in Email \cup {"bootstrap"}
        OBVIOUS
      <3>1. \A g \in Email : RoleClaim(g) => account[g].by \in Email \cup {"bootstrap"}
        BY <1>0, <1>2 DEF RequestOK
      <3>2. CASE Exists(f)
        BY <3>1, <3>2, Grows DEF RoleClaim
      <3>3. CASE ~Exists(f)
        BY <3>3, Grows DEF RoleClaim, Exists
      <3> QED
        BY <3>2, <3>3
    <2> QED
      BY <1>0, <1>2, <2>1, <2>2, <2>3, <2>4 DEF RequestOK
  <1> QED
    BY <1>1, <1>2

\* The committing request is over; the others keep their places.
LEMMA Committed ==
  ASSUME IInv, NEW h \in Handler, Finish(h),
         account' \in [Email -> Account \cup {NoAccount}], told' \in [Email -> Seq(UserEvent)]
  PROVE  /\ TypeOK' /\ RequestOK(h)'
         /\ \A k \in Handler \ {h} : pc'[k] = pc[k] /\ req'[k] = req[k]
         /\ \A f, g \in Handler : f # g => Exclude(f, g)'
  <1>0. /\ TypeOK /\ arrived' = arrived
        /\ pc' = [pc EXCEPT ![h] = "idle"] /\ req' = [req EXCEPT ![h] = NoReq]
    BY DEF IInv, Finish
  <1>1. pc'[h] = "idle" /\ \A k \in Handler \ {h} : pc'[k] = pc[k] /\ req'[k] = req[k]
    BY <1>0 DEF TypeOK
  <1>2. TypeOK'
    BY <1>0, <1>1 DEF TypeOK, PC
  <1>3. RequestOK(h)'
    BY <1>1 DEF RequestOK
  <1>4. ASSUME NEW f \in Handler, NEW g \in Handler, f # g PROVE Exclude(f, g)'
    <2>1. CASE f = h \/ g = h
      BY <1>1, <2>1 DEF Exclude
    <2>2. CASE f # h /\ g # h
      BY <1>1, <1>4, <2>2 DEF IInv, Exclude
    <2> QED
      BY <2>1, <2>2
  <1> QED
    BY <1>1, <1>2, <1>3, <1>4

LEMMA InsertCommitInv ==
  ASSUME IInv, NEW h \in Handler, InsertCommit(h)
  PROVE  IInv'
  <1>0. TypeOK /\ RequestOK(h) /\ pc[h] = "inserted" /\ req[h] \in Request /\ Finish(h)
    BY DEF IInv, InsertCommit, TypeOK
  <1> PICK r \in Request : r = req[h]
    BY <1>0
  <1> DEFINE e == r.target
             u == Made(r.role, MadeBy(r))
             v == Event("UserCreated", u)
  <1>1. /\ TypeOK /\ RequestOK(h) /\ pc[h] = "inserted" /\ e \in Email /\ e = req[h].target
        /\ Finish(h) /\ account' = [account EXCEPT ![e] = u]
        /\ told' = [told EXCEPT ![e] = Append(@, v)]
    BY <1>0 DEF InsertCommit, Request
  <1>2. ~Exists(e) /\ told[e] = <<>> /\ r.kind \in {"register", "create", "bootstrap"}
    BY <1>1 DEF RequestOK, IInv, EventsTell, TellsHistory, Request, Kind
  <1>3. /\ r.kind = "register" => MadeBy(r) = "self" /\ r.role = "CUSTOMER"
        /\ r.kind = "bootstrap" => MadeBy(r) = "bootstrap" /\ e = AdminEmail /\ r.role = "ADMIN"
        /\ r.kind = "create" => MadeBy(r) = r.actor /\ r.actor \in Email /\ RoleClaim(r.actor)
    BY <1>1, <1>2 DEF RequestOK, MadeBy
  <1>4. /\ u \in Account /\ v \in UserEvent /\ u.role = r.role /\ u.by = MadeBy(r)
        /\ u.status = "ACTIVE" /\ v.type = "UserCreated" /\ v.status = "ACTIVE" /\ v.role = r.role
    BY <1>1, <1>2, <1>3 DEF Made, Event, Account, UserEvent, Status, Maker, Request
  <1> HIDE DEF u, v
  <1>5. u.role = "ADMIN" => u.by \in Email \cup {"bootstrap"}
    BY <1>2, <1>3, <1>4
  <1>6. /\ account' \in [Email -> Account \cup {NoAccount}] /\ told' \in [Email -> Seq(UserEvent)]
        /\ Exists(e)' /\ account'[e] = u /\ told'[e] = Append(told[e], v)
        /\ \A f \in Email \ {e} : account'[f] = account[f] /\ told'[f] = told[f]
        /\ \A f \in Email : RoleClaim(f) => RoleClaim(f)'
    BY <1>1, <1>2, <1>4, Grows
  <1>7. /\ TypeOK' /\ RequestOK(h)' /\ \A f, g \in Handler : f # g => Exclude(f, g)'
        /\ \A k \in Handler \ {h} : pc'[k] = pc[k] /\ req'[k] = req[k]
    BY <1>1, <1>6, Committed
  <1>8. ASSUME NEW k \in Handler PROVE RequestOK(k)'
    <2>1. CASE k # h
      <3>1. pc[k] \in {"inserted", "updated"} => req[k].target # e
        BY <1>1, <1>2, <2>1 DEF IInv, Exclude, RequestOK
      <3> QED
        BY <3>1, <2>1, <1>1, <1>2, <1>4, <1>5, <1>7, OthersKeep
    <2> QED
      BY <2>1, <1>7
  <1>9. EventsTell'
    <2>1. TellsHistory(e)'
      BY <1>2, <1>4, <1>6 DEF TellsHistory
    <2>2. ASSUME NEW f \in Email \ {e} PROVE TellsHistory(f)'
      BY <1>6 DEF IInv, EventsTell, TellsHistory, Exists
    <2> QED
      BY <2>1, <2>2 DEF EventsTell
  <1>10. StaffAreMade'
    <2> SUFFICES ASSUME NEW f \in Email, Exists(f)' PROVE IsMade(f)'
      BY DEF StaffAreMade
    <2>1. CASE f = e
      <3>1. r.kind = "create" => r.actor # e /\ RoleClaim(r.actor)'
        BY <1>2, <1>3, <1>6 DEF RoleClaim
      <3> QED
        BY <2>1, <3>1, <1>2, <1>3, <1>4, <1>6 DEF IsMade, RoleClaim, Exists
    <2>2. CASE f # e
      BY <2>2, <1>6 DEF IInv, StaffAreMade, IsMade, Exists, RoleClaim
    <2> QED
      BY <2>1, <2>2
  <1>11. OneBootstrap'
    <2>1. CASE MadeBy(r) = "bootstrap"
      BY <2>1, <1>2, <1>3, <1>4, <1>6, AccountsAssumption DEF IInv, OneBootstrap, Exists
    <2>2. CASE MadeBy(r) # "bootstrap"
      BY <2>2, <1>4, <1>6 DEF IInv, OneBootstrap, Exists
    <2> QED
      BY <2>1, <2>2
  <1>12. BootstrapIsFirst'
    <2> SUFFICES ASSUME NEW b \in Email, Exists(b)', account'[b].by = "bootstrap",
                        NEW f \in Email \ {b}, RoleClaim(f)'
                 PROVE  account'[f].by \in Email
      BY DEF BootstrapIsFirst
    <2>1. b = AdminEmail /\ (account'[f].by = "bootstrap" => FALSE)
      BY <1>11 DEF OneBootstrap, RoleClaim
    <2>2. CASE f = e
      BY <2>1, <2>2, <1>4, <1>5, <1>6 DEF RoleClaim
    <2>3. CASE f # e /\ b # e
      BY <2>3, <1>6 DEF IInv, BootstrapIsFirst, Exists, RoleClaim
    <2>4. CASE f # e /\ b = e
      <3>1. r.kind = "bootstrap"
        BY <2>4, <1>2, <1>3, <1>4, <1>6, AccountsAssumption
      <3>2. RoleClaim(f) /\ account'[f] = account[f]
        BY <2>4, <1>6 DEF RoleClaim, Exists
      <3> QED
        BY <3>1, <3>2, <2>1, <1>1 DEF RequestOK
    <2> QED
      BY <2>2, <2>3, <2>4
  <1> QED
    BY <1>7, <1>8, <1>9, <1>10, <1>11, <1>12 DEF IInv

LEMMA StatusCommitInv ==
  ASSUME IInv, NEW h \in Handler, StatusCommit(h)
  PROVE  IInv'
  <1>0. /\ TypeOK /\ RequestOK(h) /\ pc[h] = "updated" /\ req[h] \in Request /\ Finish(h)
        /\ Exists(req[h].target) /\ account[req[h].target].status # req[h].status
    BY DEF IInv, StatusCommit, At, TypeOK, RequestOK
  <1> PICK r \in Request : r = req[h]
    BY <1>0
  <1> DEFINE e == r.target
  <1>e. e \in Email /\ e = req[h].target /\ account[e] \in Account /\ r.status \in Status
    BY <1>0, History DEF Request
  <1> PICK u \in Account : u = [account[e] EXCEPT !.status = r.status]
    BY <1>e DEF Account
  <1> PICK v \in UserEvent : v = Event("UserUpdated", u)
    BY DEF Account, Event, UserEvent
  <1>1. /\ TypeOK /\ RequestOK(h) /\ pc[h] = "updated"
        /\ Finish(h) /\ account' = [account EXCEPT ![e] = u]
        /\ told' = [told EXCEPT ![e] = Append(@, v)]
    BY <1>0, <1>e DEF StatusCommit
  <1>2. e \in Email /\ Exists(e) /\ account[e] \in Account /\ account[e].status # r.status /\ r.status \in Status
    BY <1>0, <1>e
  <1>3. /\ u \in Account /\ v \in UserEvent /\ u.role = account[e].role /\ u.by = account[e].by
        /\ u.status = r.status /\ v.type = "UserUpdated" /\ v.status = r.status /\ v.role = u.role
    BY <1>2 DEF Account, Event, UserEvent
  <1>4. /\ account' \in [Email -> Account \cup {NoAccount}] /\ told' \in [Email -> Seq(UserEvent)]
        /\ Exists(e)' /\ account'[e] = u /\ told'[e] = Append(told[e], v)
        /\ \A f \in Email \ {e} : account'[f] = account[f] /\ told'[f] = told[f]
        /\ \A f \in Email : RoleClaim(f) => RoleClaim(f)'
    BY <1>1, <1>2, <1>3, Grows
  <1>5. \A f \in Email : /\ Exists(f)' <=> Exists(f)
                         /\ Exists(f) => /\ account'[f].role = account[f].role
                                         /\ account'[f].by = account[f].by
                         /\ RoleClaim(f)' <=> RoleClaim(f)
    <2> TAKE f \in Email
    <2>1. CASE f = e
      BY <2>1, <1>2, <1>3, <1>4 DEF RoleClaim
    <2>2. CASE f # e
      BY <2>2, <1>4 DEF Exists, RoleClaim
    <2> QED
      BY <2>1, <2>2
  <1>6. /\ TypeOK' /\ RequestOK(h)' /\ \A f, g \in Handler : f # g => Exclude(f, g)'
        /\ \A k \in Handler \ {h} : pc'[k] = pc[k] /\ req'[k] = req[k]
    BY <1>1, <1>4, Committed
  <1>7. ASSUME NEW k \in Handler PROVE RequestOK(k)'
    <2>1. CASE k # h
      <3>1. pc[k] \in {"inserted", "updated"} => req[k].target # e
        BY <1>1, <1>2, <2>1 DEF IInv, Exclude, RequestOK
      <3> QED
        BY <3>1, <2>1, <1>1, <1>2, <1>3, <1>6, OthersKeep
    <2> QED
      BY <2>1, <1>6
  <1>8. EventsTell'
    <2>1. TellsHistory(e)'
      <3> PICK s \in Seq(UserEvent) : s = told[e]
        BY <1>2, History
      <3>1. /\ TellsHistory(e) /\ Len(s) \in Nat \ {0} /\ s[Len(s)].status = account[e].status
        BY <1>2, History DEF IInv, EventsTell
      <3>a. Append(s, v) \in Seq(UserEvent)
        BY AppendProperties
      <3> PICK t \in Seq(UserEvent) : t = Append(s, v)
        BY <3>a
      <3>2. /\ t = told'[e] /\ Len(t) = Len(s) + 1 /\ t[Len(s) + 1] = v /\ t # <<>>
            /\ \A i \in 1 .. Len(s) : t[i] = s[i]
        BY <3>1, <1>3, <1>4, AppendProperties
      <3>3. /\ s[1].type = "UserCreated" /\ s[1].status = "ACTIVE"
            /\ \A i \in 1 .. Len(s) : s[i].role = account[e].role
            /\ \A i \in 2 .. Len(s) : s[i].type = "UserUpdated" /\ s[i].status # s[i - 1].status
        BY <3>1, <1>2 DEF TellsHistory
      <3>4. /\ t[1].type = "UserCreated" /\ t[1].status = "ACTIVE"
            /\ \A i \in 1 .. Len(t) : t[i].role = u.role
        <4>1. 1 \in 1 .. Len(s) /\ \A i \in 1 .. Len(t) : i \in 1 .. Len(s) \/ i = Len(s) + 1
          BY <3>1, <3>2
        <4>2. t[1] = s[1]
          BY <4>1, <3>2
        <4>3. ASSUME NEW i \in 1 .. Len(t) PROVE t[i].role = u.role
          <5>1. CASE i \in 1 .. Len(s)
            BY <5>1, <3>2, <3>3, <1>3
          <5>2. CASE i = Len(s) + 1
            BY <5>2, <3>2, <1>3
          <5> QED
            BY <4>1, <5>1, <5>2
        <4> QED
          BY <4>2, <4>3, <3>3
      <3>5. ASSUME NEW i \in 2 .. Len(t)
            PROVE  t[i].type = "UserUpdated" /\ t[i].status # t[i - 1].status
        <4>1. CASE i = Len(t)
          <5>1. Len(s) \in 1 .. Len(s) /\ i - 1 = Len(s)
            BY <4>1, <3>1, <3>2
          <5>2. t[i] = v /\ t[i - 1] = s[Len(s)]
            BY <4>1, <5>1, <3>2
          <5> QED
            BY <5>2, <3>1, <1>2, <1>3
        <4>2. CASE i # Len(t)
          <5>1. i \in 2 .. Len(s) /\ i \in 1 .. Len(s) /\ i - 1 \in 1 .. Len(s)
            BY <4>2, <3>1, <3>2
          <5> QED
            BY <5>1, <3>2, <3>3
        <4> QED
          BY <4>1, <4>2
      <3>6. t[Len(t)] = v
        BY <3>1, <3>2
      <3>7. Exists(e)' /\ told'[e] = t /\ account'[e] = u
        BY <3>2, <1>4
      <3>8. /\ told'[e] # <<>>
            /\ told'[e][1].type = "UserCreated" /\ told'[e][1].status = "ACTIVE"
            /\ \A n \in 1 .. Len(told'[e]) : told'[e][n].role = account'[e].role
            /\ told'[e][Len(told'[e])].status = account'[e].status
        <4>1. t # <<>> /\ t[Len(t)].status = u.status
          BY <3>2, <3>6, <1>3
        <4> QED
          BY <4>1, <3>4, <3>7
      <3>9. \A n \in 2 .. Len(told'[e]) : /\ told'[e][n].type = "UserUpdated"
                                         /\ told'[e][n].status # told'[e][n - 1].status
        BY <3>5, <3>7
      <3> QED
        BY <3>7, <3>8, <3>9 DEF TellsHistory
    <2>2. ASSUME NEW f \in Email \ {e} PROVE TellsHistory(f)'
      BY <1>4 DEF IInv, EventsTell, TellsHistory, Exists
    <2> QED
      BY <2>1, <2>2 DEF EventsTell
  <1>9. StaffAreMade' /\ OneBootstrap' /\ BootstrapIsFirst'
    BY <1>5 DEF IInv, StaffAreMade, IsMade, OneBootstrap, BootstrapIsFirst, RoleClaim
  <1> QED
    BY <1>6, <1>7, <1>8, <1>9 DEF IInv

-----------------------------------------------------------------------------

LEMMA StepKeeps ==
  ASSUME IInv, [Next]_vars
  PROVE  IInv'
  <1>1. CASE UNCHANGED vars
    <2> USE <1>1 DEF vars
    <2>1. TypeOK'
      BY DEF IInv, TypeOK
    <2>2. (\A h \in Handler : RequestOK(h)') /\ \A g, h \in Handler : g # h => Exclude(g, h)'
      BY DEF IInv, RequestOK, Exclude, Exists, RoleClaim, ActiveSince
    <2>3. EventsTell' /\ StaffAreMade' /\ BootstrapIsFirst' /\ OneBootstrap'
      BY DEF IInv, EventsTell, TellsHistory, StaffAreMade, IsMade, BootstrapIsFirst,
             OneBootstrap, Exists, RoleClaim
    <2> QED
      BY <2>1, <2>2, <2>3 DEF IInv
  <1>2. ASSUME NEW h \in Handler, Fail(h) PROVE IInv'
    BY <1>2, RefuseKeeps DEF Fail
  <1> QED
    BY <1>1, <1>2, ArriveInv, RequireAdminInv, BootstrapCheckInv, InsertInv, InsertCommitInv,
       StatusLockInv, StatusCommitInv DEF Next

\* Everything below holds because this does.
THEOREM Invariant == Spec => []IInv
  BY Initially, StepKeeps, PTL DEF Spec

\* The tables, the events and the requests hold values of their types.
THEOREM TypeCorrect == Spec => []TypeOK
  <1>1. IInv => TypeOK
    BY DEF IInv
  <1> QED
    BY <1>1, Invariant, PTL

\* UserCreated and UserUpdated tell each user's history.
THEOREM EventsAreTrue == Spec => []EventsTell
  <1>1. IInv => EventsTell
    BY DEF IInv
  <1> QED
    BY <1>1, Invariant, PTL

\* Nobody becomes staff by registering.
THEOREM NoSelfMadeStaff == Spec => []StaffAreMade
  <1>1. IInv => StaffAreMade
    BY DEF IInv
  <1> QED
    BY <1>1, Invariant, PTL

\* However many replicas start at once, only the first administrator there
\* ever is can be a bootstrapped one.
THEOREM BootstrapOnce == Spec => []BootstrapIsFirst
  <1>1. IInv => BootstrapIsFirst
    BY DEF IInv
  <1> QED
    BY <1>1, Invariant, PTL

\* Administrative writes are made for somebody who was an active administrator
\* while the request ran.
THEOREM OnlyAdministrators == Spec => []AdminWhileItRan
  <1>1. ASSUME IInv PROVE AdminWhileItRan
    <2> SUFFICES ASSUME NEW h \in Handler, Administrative(h)
                 PROVE  ActiveSince(req[h].actor, req[h].since)
      BY DEF AdminWhileItRan
    <2>1. RequestOK(h) /\ pc[h] \in {"inserted", "updated"} /\ req[h].actor # Nobody
      BY <1>1 DEF IInv, Administrative
    <2> QED
      BY <2>1 DEF RequestOK
  <1> QED
    BY <1>1, Invariant, PTL
=============================================================================
