-------------------------- MODULE CustomersProofs --------------------------
(***************************************************************************)
(* Customers: for any number of requests, handlers, emails and users the   *)
(* events of a profile are its history.                                    *)
(*                                                                         *)
(* What a commit writes was decided by an earlier statement.  IInv says    *)
(* what keeps that decision true: a row that is written is still one the   *)
(* statement's WHERE clause finds, and is written by one request only; an  *)
(* inserted row is the only one of its email.                              *)
(***************************************************************************)
EXTENDS Customers, SequenceTheorems, TLAPS

\* The kinds of request that reach a control state.
KindsAt(place) ==
  CASE place = "find" -> {"link"}
    [] place \in {"write", "written"} -> {"update", "delete", "link"}
    [] OTHER -> {"create", "link"}

\* What a request in flight has established.
RequestOK(h) ==
  /\ pc[h] # "idle" => req[h].kind \in KindsAt(pc[h])
  /\ pc[h] = "written" => Wanted(req[h])
  /\ pc[h] = "inserted" => ~Exists(req[h].email)

\* A row that is written, or inserted, is one handler's.
OneWriter ==
  \A g, h \in Handler :
    (pc[g] = pc[h] /\ pc[g] \in {"written", "inserted"} /\ req[g].email = req[h].email) => g = h

IInv == TypeOK /\ (\A h \in Handler : RequestOK(h)) /\ OneWriter /\ EventsTell

-----------------------------------------------------------------------------
(* Facts about histories                                                   *)

\* A profile's first event is a history.
LEMMA FirstEvent ==
  ASSUME NEW p \in Profile, NEW ev \in Event,
         ev.type = "CustomerCreated", ev.of = 0,
         ev.linked = p.linked, ev.version = p.version, ~p.deleted
  PROVE  IsHistory(Append(<<>>, ev), p)
<1>1. Append(<<>>, ev) = <<ev>> /\ Len(<<ev>>) = 1 /\ <<ev>>[1] = ev
  OBVIOUS
<1>2. p.deleted \in BOOLEAN
  BY DEF Profile
<1> QED
  BY <1>1, <1>2 DEF IsHistory

\* A change made to the profile as it is, and told as it was made, makes its
\* history longer.
LEMMA NextEvent ==
  ASSUME NEW t \in Seq(Event), NEW p \in Profile, NEW q \in Profile, NEW ev \in Event,
         IsHistory(t, p), ~p.deleted,
         ev.type # "CustomerCreated", ev.of = p.version,
         p.linked => ev.linked,
         ev.version = ev.of + (IF ev.type = "CustomerUpdated" THEN 1 ELSE 0),
         ev.linked = q.linked, ev.version = q.version,
         (ev.type = "CustomerDeleted") = q.deleted
  PROVE  IsHistory(Append(t, ev), q)
<1> DEFINE u == Append(t, ev)
<1>1. Len(t) \in Nat /\ Len(t) >= 1
  BY EmptySeq, LenProperties DEF IsHistory
<1>2. /\ Len(u) = Len(t) + 1 /\ u[Len(u)] = ev
      /\ \A n \in 1 .. Len(t) : u[n] = t[n]
  BY AppendProperties, <1>1
<1>3. u[1] = t[1] /\ u # <<>> /\ u[Len(u) - 1] = t[Len(t)]
  BY <1>1, <1>2
<1> HIDE DEF u
<1>4. ASSUME NEW n \in 2 .. Len(u)
      PROVE  /\ u[n].type # "CustomerCreated" /\ u[n].of = u[n - 1].version
             /\ u[n - 1].type # "CustomerDeleted"
             /\ u[n - 1].linked => u[n].linked
             /\ u[n].version = u[n].of + (IF u[n].type = "CustomerUpdated" THEN 1 ELSE 0)
  <2>1. CASE n = Len(u)
    BY <1>3, <1>2, <2>1 DEF IsHistory
  <2>2. CASE n # Len(u)
    <3>1. n \in 2 .. Len(t) /\ n \in 1 .. Len(t) /\ n - 1 \in 1 .. Len(t)
      BY <2>2, <1>1, <1>2
    <3>2. u[n] = t[n] /\ u[n - 1] = t[n - 1]
      BY <3>1, <1>2
    <3> QED
      BY <3>1, <3>2 DEF IsHistory
  <2> QED
    BY <2>1, <2>2
<1> QED
  BY <1>2, <1>3, <1>4 DEF IsHistory, u

-----------------------------------------------------------------------------
(* Steps that change no row                                                *)

\* A handler goes on, or is done: the rows stay, and so does what the others
\* have established.  The mover must have established its own.
LEMMA OnlyControl ==
  ASSUME IInv, NEW h \in Handler, UNCHANGED tables,
         NEW place \in PC, NEW r \in Request \cup {NoReq},
         pc' = [pc EXCEPT ![h] = place], req' = [req EXCEPT ![h] = r],
         arrived' \in 0 .. MaxRequests,
         place # "idle" => r \in Request /\ r.kind \in KindsAt(place),
         place = "written" => Wanted(r),
         place = "inserted" => ~Exists(r.email),
         place \in {"written", "inserted"} => Free(h, r.email, place)
  PROVE  IInv'
<1>1. /\ TypeOK /\ OneWriter /\ EventsTell
      /\ \A g \in Handler : RequestOK(g)
  BY DEF IInv
<1>2. /\ pc'[h] = place /\ req'[h] = r
      /\ \A g \in Handler \ {h} : pc'[g] = pc[g] /\ req'[g] = req[g]
  BY <1>1 DEF TypeOK
<1>3. profile' = profile /\ told' = told
  BY DEF tables
<1>4. TypeOK'
  BY <1>1, <1>2, <1>3 DEF TypeOK
<1>5. ASSUME NEW g \in Handler PROVE RequestOK(g)'
  <2>1. CASE g = h
    BY <2>1, <1>2, <1>3 DEF RequestOK, Wanted, Live, Exists
  <2>2. CASE g # h
    <3>1. RequestOK(g) /\ pc'[g] = pc[g] /\ req'[g] = req[g]
      BY <2>2, <1>1, <1>2
    <3> QED
      BY <3>1, <1>3 DEF RequestOK, Wanted, Live, Exists
  <2> QED
    BY <2>1, <2>2
<1>6. OneWriter'
  <2> SUFFICES ASSUME NEW f \in Handler, NEW g \in Handler,
                      pc'[f] = pc'[g], pc'[f] \in {"written", "inserted"},
                      req'[f].email = req'[g].email, f # g
               PROVE  FALSE
    BY DEF OneWriter
  <2>1. CASE f = h
    BY <2>1, <1>2 DEF Free
  <2>2. CASE g = h
    BY <2>2, <1>2 DEF Free
  <2>3. CASE f # h /\ g # h
    BY <2>3, <1>1, <1>2 DEF OneWriter
  <2> QED
    BY <2>1, <2>2, <2>3
<1>7. EventsTell'
  BY <1>1, <1>3 DEF EventsTell, Exists
<1> QED
  BY <1>4, <1>5, <1>6, <1>7 DEF IInv

\* A commit: its row's history is longer, and it was the only one that had
\* written or inserted that row.
LEMMA OneCommits ==
  ASSUME IInv, NEW h \in Handler, pc[h] \in {"written", "inserted"},
         NEW row \in Profile, NEW event \in Event,
         Commit(h, req[h].email, row, event),
         IsHistory(Append(told[req[h].email], event), row)
  PROVE  IInv'
<1>1. /\ TypeOK /\ OneWriter /\ EventsTell
      /\ \A g \in Handler : RequestOK(g)
  BY DEF IInv
<1>2. PICK r \in Request : r = req[h]
  BY <1>1 DEF TypeOK
<1> DEFINE e == r.email
<1>3. /\ e \in Email
      /\ IsHistory(Append(told[e], event), row)
  BY <1>2 DEF Request
<1>4. /\ profile' = [profile EXCEPT ![e] = row]
      /\ told' = [told EXCEPT ![e] = Append(@, event)]
      /\ pc' = [pc EXCEPT ![h] = "idle"]
      /\ req' = [req EXCEPT ![h] = NoReq]
      /\ arrived' = arrived
  BY <1>2 DEF Commit, Finish
<1> HIDE DEF e
<1>5. /\ profile'[e] = row /\ told'[e] = Append(told[e], event)
      /\ \A f \in Email \ {e} : profile'[f] = profile[f] /\ told'[f] = told[f]
      /\ pc'[h] = "idle"
      /\ \A g \in Handler \ {h} : pc'[g] = pc[g] /\ req'[g] = req[g]
  BY <1>1, <1>3, <1>4 DEF TypeOK
<1>6. TypeOK'
  <2>1. told[e] \in Seq(Event) /\ Append(told[e], event) \in Seq(Event)
    BY <1>1, <1>3, AppendProperties DEF TypeOK
  <2>2. profile' \in [Email -> Profile \cup {NoProfile}] /\ told' \in [Email -> Seq(Event)]
    BY <1>1, <1>3, <1>4, <2>1 DEF TypeOK
  <2>3. /\ pc' \in [Handler -> PC] /\ req' \in [Handler -> Request \cup {NoReq}]
        /\ \A g \in Handler : pc'[g] # "idle" => req'[g] \in Request
        /\ arrived' \in 0 .. MaxRequests
    BY <1>1, <1>4, <1>5 DEF TypeOK, PC
  <2> QED
    BY <2>2, <2>3 DEF TypeOK
<1>7. ASSUME NEW g \in Handler \ {h}, pc[g] \in {"written", "inserted"}
      PROVE  req[g].email \in Email \ {e}
  <2>1. req[g].email # e
    <3>1. CASE pc[g] = pc[h]
      BY <1>1, <1>2, <1>7, <3>1 DEF OneWriter, e
    <3>2. CASE pc[g] = "written" /\ pc[h] = "inserted"
      BY <1>1, <1>2, <3>2 DEF RequestOK, Wanted, Live, e
    <3>3. CASE pc[g] = "inserted" /\ pc[h] = "written"
      BY <1>1, <1>2, <3>3 DEF RequestOK, Wanted, Live, e
    <3> QED
      BY <1>7, <3>1, <3>2, <3>3
  <2>2. req[g] \in Request
    BY <1>1, <1>7 DEF TypeOK
  <2> QED
    BY <2>1, <2>2 DEF Request
<1>8. ASSUME NEW g \in Handler PROVE RequestOK(g)'
  <2>1. CASE g = h
    BY <2>1, <1>5 DEF RequestOK
  <2>2. CASE g # h
    <3>1. RequestOK(g) /\ pc'[g] = pc[g] /\ req'[g] = req[g]
      BY <2>2, <1>1, <1>5
    <3>2. pc[g] \in {"written", "inserted"} => profile'[req[g].email] = profile[req[g].email]
      BY <2>2, <1>5, <1>7
    <3> QED
      BY <3>1, <3>2 DEF RequestOK, Wanted, Live, Exists
  <2> QED
    BY <2>1, <2>2
<1>9. OneWriter'
  BY <1>1, <1>5 DEF OneWriter
<1>10. EventsTell'
  <2> SUFFICES ASSUME NEW f \in Email
               PROVE  IF profile'[f] # NoProfile THEN IsHistory(told'[f], profile'[f])
                      ELSE told'[f] = <<>>
    BY DEF EventsTell, Exists
  <2>1. CASE f = e
    BY <2>1, <1>3, <1>5, CustomersAssumption
  <2>2. CASE f # e
    BY <2>2, <1>1, <1>5 DEF EventsTell, Exists
  <2> QED
    BY <2>1, <2>2
<1> QED
  BY <1>6, <1>8, <1>9, <1>10 DEF IInv

-----------------------------------------------------------------------------
(* One lemma per kind of step                                              *)

\* A request arrives.
LEMMA TakeStep ==
  ASSUME IInv, NEW h \in Handler, NEW kind \in Kind, NEW e \in Email, NEW read \in Nat,
         NEW place \in {"find", "write", "insert"}, kind \in KindsAt(place),
         Take(h, kind, e, read, place)
  PROVE  IInv'
<1>1. [kind |-> kind, email |-> e, read |-> read] \in Request
  BY DEF Request
<1>2. arrived' \in 0 .. MaxRequests
  BY CustomersAssumption DEF IInv, TypeOK, Take
<1> QED
  BY <1>1, <1>2, OnlyControl DEF Take, PC

\* A request ends without a change.
LEMMA RefuseStep ==
  ASSUME IInv, NEW h \in Handler, Refuse(h)
  PROVE  IInv'
<1>1. arrived' \in 0 .. MaxRequests
  BY DEF IInv, TypeOK, Refuse, Finish
<1> QED
  BY <1>1, OnlyControl DEF Refuse, Finish, PC

\* A request goes on: what it was allowed to be before, it may be there, and
\* it has the row if it writes or inserts it.
LEMMA GoToStep ==
  ASSUME IInv, NEW h \in Handler, pc[h] # "idle",
         NEW place \in PC \ {"idle"}, GoTo(h, place),
         req[h].kind \in KindsAt(place),
         place = "written" => Wanted(req[h]),
         place = "inserted" => ~Exists(req[h].email),
         place \in {"written", "inserted"} => Free(h, req[h].email, place)
  PROVE  IInv'
<1>1. PICK r \in Request : r = req[h]
  BY DEF IInv, TypeOK
<1>2. /\ arrived' \in 0 .. MaxRequests
      /\ req' = [req EXCEPT ![h] = r]
      /\ pc' = [pc EXCEPT ![h] = place] /\ UNCHANGED tables
  BY <1>1 DEF IInv, TypeOK, GoTo
<1> QED
  BY <1>1, <1>2, OnlyControl

\* The row that is written is live, and its new state is told as it is.
LEMMA WrittenStep ==
  ASSUME IInv, NEW h \in Handler, NEW kind \in Kind,
         NEW type \in {"CustomerUpdated", "CustomerDeleted"},
         NEW row, NEW of, Written(h, kind, type, row, of),
         row \in Profile, of = Row(h).version,
         Row(h).linked => row.linked,
         row.version = of + (IF type = "CustomerUpdated" THEN 1 ELSE 0),
         (type = "CustomerDeleted") = row.deleted
  PROVE  IInv'
<1> DEFINE e == req[h].email
           ev == [type |-> type, linked |-> row.linked, version |-> row.version, of |-> of]
<1>1. TypeOK /\ RequestOK(h) /\ EventsTell /\ req[h] \in Request
  BY DEF IInv, TypeOK, Written
<1>2. e \in Email /\ Live(e) /\ pc[h] = "written" /\ Commit(h, e, row, ev)
  BY <1>1 DEF Written, RequestOK, Wanted, Request
<1>3. /\ told[e] \in Seq(Event) /\ profile[e] \in Profile
      /\ IsHistory(told[e], profile[e]) /\ ~profile[e].deleted
  BY <1>1, <1>2 DEF TypeOK, EventsTell, Live, Exists
<1>4. PICK t \in Seq(Event), p \in Profile : t = told[e] /\ p = profile[e]
  BY <1>3
<1>5. p.version \in Nat \ {0} /\ of = p.version
  BY <1>4 DEF Profile, Row
<1>6. ev \in Event
  BY <1>5 DEF Event, Profile
<1>7. /\ ev.type = type /\ ev.of = of /\ ev.linked = row.linked /\ ev.version = row.version
      /\ p.linked => row.linked
  BY <1>4 DEF Row
<1> HIDE DEF e, ev
<1>8. IsHistory(Append(t, ev), row)
  BY <1>3, <1>4, <1>5, <1>6, <1>7, NextEvent
<1> QED
  BY <1>2, <1>4, <1>6, <1>8, OneCommits DEF e

-----------------------------------------------------------------------------
(* The invariant                                                           *)

LEMMA InitOK == Init => IInv
<1> SUFFICES ASSUME Init PROVE IInv
  OBVIOUS
<1>1. /\ profile = [e \in Email |-> NoProfile] /\ told = [e \in Email |-> <<>>]
      /\ pc = [h \in Handler |-> "idle"] /\ req = [h \in Handler |-> NoReq] /\ arrived = 0
  BY DEF Init
<1>2. TypeOK
  <2>1. told \in [Email -> Seq(Event)]
    BY <1>1, EmptySeq
  <2> QED
    BY <1>1, <2>1, CustomersAssumption DEF TypeOK, PC
<1>3. /\ \A h \in Handler : RequestOK(h)
      /\ OneWriter /\ EventsTell
  BY <1>1 DEF RequestOK, OneWriter, EventsTell, Exists
<1> QED
  BY <1>2, <1>3 DEF IInv

LEMMA StepOK == IInv /\ [Next]_vars => IInv'
<1> SUFFICES ASSUME IInv, [Next]_vars PROVE IInv'
  OBVIOUS
<1>1. ASSUME NEW h \in Handler, CreateCustomer(h) PROVE IInv'
  BY <1>1, TakeStep DEF CreateCustomer, Kind, KindsAt
<1>2. ASSUME NEW h \in Handler, UpdateProfile(h) PROVE IInv'
  <2>1. PICK e \in Email : \E v \in ReadBefore(e) : Take(h, "update", e, v, "write")
    BY <1>2 DEF UpdateProfile
  <2>2. PICK v \in ReadBefore(e) : Take(h, "update", e, v, "write")
    BY <2>1
  <2>3. v \in Nat
    <3>1. PICK n \in 1 .. Len(told[e]) : v = told[e][n].version
      BY DEF ReadBefore
    <3>2. told[e] \in Seq(Event)
      BY DEF IInv, TypeOK
    <3>3. told[e][n] \in Event
      BY <3>1, <3>2, ElementOfSeq
    <3> QED
      BY <3>1, <3>3 DEF Event
  <2> QED
    BY <2>2, <2>3, TakeStep DEF Kind, KindsAt
<1>3. ASSUME NEW h \in Handler, DeleteProfile(h) PROVE IInv'
  BY <1>3, TakeStep DEF DeleteProfile, Kind, KindsAt
<1>4. ASSUME NEW h \in Handler, Deliver(h) PROVE IInv'
  BY <1>4, TakeStep, CustomersAssumption DEF Deliver, Kind, KindsAt
<1>5. ASSUME NEW h \in Handler, FindUser(h) PROVE IInv'
  <2>1. pc[h] = "find" /\ req[h].kind = "link"
    BY <1>5 DEF FindUser, IInv, RequestOK, KindsAt
  <2> QED
    BY <1>5, <2>1, RefuseStep, GoToStep DEF FindUser, KindsAt, PC
<1>6. ASSUME NEW h \in Handler, Write(h) PROVE IInv'
  <2>1. /\ pc[h] = "write" /\ req[h].kind \in {"update", "delete", "link"}
        /\ Free(h, req[h].email, "written")
    BY <1>6 DEF Write, IInv, RequestOK, KindsAt
  <2>2. CASE Wanted(req[h]) /\ GoTo(h, "written")
    BY <2>1, <2>2, GoToStep DEF KindsAt, PC
  <2>3. CASE req[h].kind = "link" /\ GoTo(h, "insert")
    BY <2>1, <2>3, GoToStep DEF KindsAt, PC
  <2>4. CASE Refuse(h)
    BY <2>4, RefuseStep
  <2> QED
    BY <1>6, <2>2, <2>3, <2>4 DEF Write
<1>7. ASSUME NEW h \in Handler, Insert(h) PROVE IInv'
  <2>1. /\ pc[h] = "insert" /\ req[h].kind \in {"create", "link"}
        /\ Free(h, req[h].email, "inserted")
    BY <1>7 DEF Insert, IInv, RequestOK, KindsAt
  <2>2. CASE ~Exists(req[h].email) /\ GoTo(h, "inserted")
    BY <2>1, <2>2, GoToStep DEF KindsAt, PC
  <2>3. CASE Refuse(h)
    BY <2>3, RefuseStep
  <2> QED
    BY <1>7, <2>2, <2>3 DEF Insert
<1>8. ASSUME NEW h \in Handler, pc[h] = "written"
      PROVE  Row(h) \in Profile /\ ~Row(h).deleted /\ Wanted(req[h])
  <2>1. Wanted(req[h]) /\ req[h] \in Request
    BY <1>8 DEF IInv, RequestOK, TypeOK
  <2>2. req[h].email \in Email /\ Live(req[h].email)
    BY <2>1 DEF Wanted, Request
  <2> QED
    BY <2>1, <2>2 DEF Row, Live, Exists, IInv, TypeOK
<1>9. ASSUME NEW h \in Handler, UpdateCommit(h) PROVE IInv'
  <2>1. pc[h] = "written" /\ req[h].kind = "update"
    BY <1>9 DEF UpdateCommit, Written
  <2>2. Row(h) \in Profile /\ ~Row(h).deleted /\ Row(h).version = req[h].read
    BY <1>8, <2>1 DEF Wanted, Row
  <2>3. PICK p \in Profile : p = Row(h)
    BY <2>2
  <2> DEFINE row == [p EXCEPT !.version = @ + 1]
  <2>4. /\ row \in Profile /\ row.linked = p.linked /\ row.deleted = p.deleted
        /\ row.version = p.version + 1 /\ p.deleted = FALSE
    BY <2>2, <2>3 DEF Profile
  <2>5. Written(h, "update", "CustomerUpdated", row, p.version)
    BY <1>9, <2>2, <2>3 DEF UpdateCommit
  <2>6. p.version \in Nat
    BY <2>2, <2>3 DEF Profile
  <2> HIDE DEF row
  <2>7. /\ "update" \in Kind /\ p.version = Row(h).version /\ (Row(h).linked => row.linked)
        /\ row.version = p.version + (IF "CustomerUpdated" = "CustomerUpdated" THEN 1 ELSE 0)
        /\ ("CustomerUpdated" = "CustomerDeleted") = row.deleted
    BY <2>3, <2>4, <2>6 DEF Kind
  <2> QED
    BY <2>4, <2>5, <2>7, WrittenStep
<1>10. ASSUME NEW h \in Handler, DeleteCommit(h) PROVE IInv'
  <2>1. PICK p \in Profile : p = Row(h)
    BY <1>8, <1>10 DEF DeleteCommit, Written
  <2>2. PICK q \in Profile : q = Deleted(p)
    BY DEF Profile, Deleted
  <2>3. q.linked = p.linked /\ q.deleted = TRUE /\ q.version = p.version /\ p.version \in Nat
    BY <2>2 DEF Profile, Deleted
  <2>4. Written(h, "delete", "CustomerDeleted", q, p.version)
    BY <1>10, <2>1, <2>2 DEF DeleteCommit
  <2>5. Row(h).linked => q.linked
    BY <2>1, <2>3
  <2>6. q.version = p.version + (IF "CustomerDeleted" = "CustomerUpdated" THEN 1 ELSE 0)
    BY <2>3
  <2>7. ("CustomerDeleted" = "CustomerDeleted") = q.deleted
    BY <2>3
  <2>8. "delete" \in Kind /\ p.version = Row(h).version
    BY <2>1 DEF Kind
  <2> QED
    BY <2>4, <2>5, <2>6, <2>7, <2>8, WrittenStep
<1>11. ASSUME NEW h \in Handler, LinkCommit(h) PROVE IInv'
  <2>1. Row(h) \in Profile /\ ~Row(h).deleted
    BY <1>8, <1>11 DEF LinkCommit, Written
  <2>2. PICK p \in Profile : p = Row(h)
    BY <2>1
  <2>3. PICK q \in Profile : q = [linked |-> TRUE, deleted |-> FALSE, version |-> p.version + 1]
    <3>1. p.version + 1 \in Nat \ {0}
      BY DEF Profile
    <3> QED
      BY <3>1 DEF Profile
  <2>4. Written(h, "link", "CustomerUpdated", q, p.version)
    BY <1>11, <2>2, <2>3 DEF LinkCommit
  <2>5. q.linked = TRUE /\ q.deleted = FALSE /\ q.version = p.version + 1
    BY <2>3 DEF Profile
  <2>6. p.version \in Nat
    BY DEF Profile
  <2>7. q.version = p.version + (IF "CustomerUpdated" = "CustomerUpdated" THEN 1 ELSE 0)
    BY <2>5, <2>6
  <2>8. ("CustomerUpdated" = "CustomerDeleted") = q.deleted
    BY <2>5, <2>6
  <2>9. Row(h).linked => q.linked
    BY <2>5
  <2>10. "link" \in Kind /\ p.version = Row(h).version
    BY <2>2 DEF Kind
  <2> QED
    BY <2>4, <2>7, <2>8, <2>9, <2>10, WrittenStep
<1>12. ASSUME NEW h \in Handler, InsertCommit(h) PROVE IInv'
  <2> DEFINE isLink == req[h].kind = "link"
             row == [linked |-> isLink, deleted |-> FALSE, version |-> 1]
             ev == [type |-> "CustomerCreated", linked |-> isLink, version |-> 1, of |-> 0]
  <2>1. pc[h] = "inserted" /\ Commit(h, req[h].email, row, ev)
    BY <1>12 DEF InsertCommit
  <2>2. isLink \in BOOLEAN
    OBVIOUS
  <2> HIDE DEF isLink
  <2>3. row \in Profile /\ ev \in Event
    BY <2>2 DEF Profile, Event
  <2>4. IsHistory(Append(<<>>, ev), row)
    BY <2>3, FirstEvent
  <2>5. told[req[h].email] = <<>>
    <3>1. ~Exists(req[h].email) /\ req[h].email \in Email
      BY <2>1 DEF IInv, RequestOK, TypeOK, Request
    <3> QED
      BY <3>1 DEF IInv, EventsTell
  <2> HIDE DEF row, ev
  <2> QED
    BY <2>1, <2>3, <2>4, <2>5, OneCommits
<1>13. ASSUME NEW h \in Handler, Fail(h) PROVE IInv'
  BY <1>13, RefuseStep DEF Fail
<1>14. CASE UNCHANGED vars
  BY <1>14 DEF vars, tables, IInv, TypeOK, RequestOK, OneWriter, EventsTell, Wanted, Live, Exists
<1> QED
  BY <1>1, <1>2, <1>3, <1>4, <1>5, <1>6, <1>7, <1>9, <1>10, <1>11, <1>12, <1>13, <1>14 DEF Next

\* The invariant holds in every reachable state, for any number of handlers,
\* emails, users and requests.
THEOREM Invariant == Spec => []IInv
BY InitOK, StepOK, PTL DEF Spec

\* What customer-service tells of a profile is its history, ending at the row:
\* no change overwrites one that its author has not seen (Update's optimistic
\* lock), and a link stays (LinkUser).
THEOREM EventsAreTrue == Spec => []EventsTell
<1>1. IInv => EventsTell
  BY DEF IInv
<1> QED
  BY Invariant, <1>1, PTL
=============================================================================
