--------------------------- MODULE SessionsProofs ---------------------------
(***************************************************************************)
(* Sessions: for any number of requests, accounts, addresses, limits and   *)
(* faults a login is one session at most, a logout ends it for good, and   *)
(* the throttle holds.                                                     *)
(*                                                                         *)
(* SessionInv is about tokens: every one is of a session that exists, is   *)
(* its newest, and while a request carries it to the next there is none in *)
(* the store.  ThrottleInv counts: an attempt is in its counter, in a      *)
(* request that owes it, or in a call that failed.  What the throttle lets *)
(* through beyond its limit has passed it and not yet been counted, which  *)
(* is fewer requests than are in flight.                                   *)
(***************************************************************************)
EXTENDS Sessions, SequenceTheorems, FiniteSetTheorems, TLAPS

-----------------------------------------------------------------------------
(* Facts about requests                                                    *)

\* What a request may become: it goes through its limits.
LEMMA RequestDone ==
  ASSUME NEW r \in Request, NEW n \in 0 .. 2
  PROVE  /\ [r EXCEPT !.done = n] \in Request
         /\ [r EXCEPT !.done = n].kind = r.kind
         /\ [r EXCEPT !.done = n].ip = r.ip
         /\ [r EXCEPT !.done = n].email = r.email
         /\ [r EXCEPT !.done = n].token = r.token
         /\ [r EXCEPT !.done = n].since = r.since
         /\ [r EXCEPT !.done = n].done = n
BY DEF Request

\* The limits of a request are keys, and there are two at most.
LEMMA LimitIsKey ==
  ASSUME NEW r \in Request, NEW n \in Nat
  PROVE  Limit(r, n) \in Key /\ Limits(r) \in 0 .. 2
BY DEF Request, Limit, Limits, Key

\* A request in flight.
LEMMA InFlight ==
  ASSUME SessionInv, NEW h \in Handler, pc[h] # "idle"
  PROVE  /\ req[h] \in Request /\ req[h].kind \in KindsAt(pc[h])
         /\ req[h].email \in Email /\ req[h].ip \in Ip
         /\ req[h].kind \in {"refresh", "logout"} => req[h].token[1] \in 1 .. Len(session)
         /\ req[h].since \in Nat /\ req[h].since <= Len(active[req[h].email])
         /\ pc[h] \in {"check", "over", "count"} => req[h].done < Limits(req[h])
<1>1. req[h] \in Request /\ RequestOK(h)
  BY DEF SessionInv, TypeOK
<1>2. PICK r \in Request : r = req[h]
  BY <1>1
<1>3. r.email \in Email /\ r.ip \in Ip /\ r.since \in Nat
  BY DEF Request
<1> QED
  BY <1>1, <1>2, <1>3 DEF RequestOK

-----------------------------------------------------------------------------
(* Tokens and sessions                                                     *)

\* Handlers H go on, tokens may be lost, accounts change: sessions stay, and
\* who carried a token is the only one who still may.
LEMMA Moves ==
  ASSUME SessionInv, TypeOK', NEW H \in SUBSET Handler,
         session' = session, ended' = ended, store' \subseteq store,
         \A e \in Email : /\ Len(active[e]) <= Len(active'[e])
                          /\ \A i \in 1 .. Len(active[e]) : active'[e][i] = active[e][i],
         \A g \in Handler \ H : pc'[g] = pc[g] /\ req'[g] = req[g],
         \A h \in H : /\ RequestOK(h)'
                      /\ pc'[h] = "issue" => ActiveSince(active[req[h].email], req[h].since)
                      /\ pc'[h] = "issue" => req'[h] = req[h] /\ pc[h] # "idle"
                      /\ \A s \in 1 .. Len(session) : Carries(h, s)' => Carries(h, s)
  PROVE  SessionInv'
<1>1. TypeOK /\ Issued /\ OneSession /\ EndedForGood /\ ActiveWhileItRan
  BY DEF SessionInv
<1>2. \A h \in Handler : RequestOK(h)
  BY DEF SessionInv
<1>3. ASSUME NEW h \in Handler, NEW s \in 1 .. Len(session), Carries(h, s)'
      PROVE  Carries(h, s)
  <2>1. CASE h \in H
    BY <1>3, <2>1
  <2>2. CASE h \notin H
    <3>1. pc'[h] = pc[h] /\ req'[h] = req[h]
      BY <2>2
    <3> QED
      BY <1>3, <3>1 DEF Carries
  <2> QED
    BY <2>1, <2>2
<1>4. Issued'
  BY <1>1 DEF Issued
<1>5. OneSession'
  <2> SUFFICES ASSUME NEW s \in 1 .. Len(session)
               PROVE  /\ \A t \in store' : t[1] = s => /\ t[2] = session[s].turn
                                                       /\ \A h \in Handler : ~Carries(h, s)'
                      /\ \A g, h \in Handler : Carries(g, s)' /\ Carries(h, s)' => g = h
    BY DEF OneSession
  <2>1. /\ \A t \in store : t[1] = s => /\ t[2] = session[s].turn
                                        /\ \A h \in Handler : ~Carries(h, s)
        /\ \A g, h \in Handler : Carries(g, s) /\ Carries(h, s) => g = h
    BY <1>1 DEF OneSession
  <2> QED
    BY <1>3, <2>1
<1>6. EndedForGood'
  <2>1. ended \subseteq 1 .. Len(session)
    BY <1>1 DEF TypeOK
  <2>2. \A s \in ended : (\A t \in store : t[1] # s) /\ \A h \in Handler : ~Carries(h, s)
    BY <1>1 DEF EndedForGood
  <2>3. \A s \in ended : (\A t \in store' : t[1] # s) /\ \A h \in Handler : ~Carries(h, s)'
    BY <1>3, <2>1, <2>2
  <2> QED
    BY <2>3 DEF EndedForGood
<1>7. ASSUME NEW a \in Seq(BOOLEAN), NEW b \in Seq(BOOLEAN), NEW n \in Nat, ActiveSince(a, n),
             Len(a) <= Len(b), \A i \in 1 .. Len(a) : b[i] = a[i]
      PROVE  ActiveSince(b, n)
  <2>1. Len(a) \in Nat /\ Len(b) \in Nat
    BY LenProperties
  <2>2. PICK i \in n .. Len(a) : i > 0 /\ a[i]
    BY <1>7 DEF ActiveSince
  <2>3. i \in n .. Len(b) /\ b[i]
    BY <1>7, <2>1, <2>2
  <2> QED
    BY <2>2, <2>3 DEF ActiveSince
<1>8. ActiveWhileItRan'
  <2> SUFFICES ASSUME NEW h \in Handler, pc'[h] = "issue"
               PROVE  ActiveSince(active'[req'[h].email], req'[h].since)
    BY DEF ActiveWhileItRan, ActiveSince
  <2>1. /\ pc[h] # "idle" /\ req'[h] = req[h]
        /\ ActiveSince(active[req[h].email], req[h].since)
    BY <1>1 DEF ActiveWhileItRan
  <2>2. PICK r \in Request : r = req[h]
    BY <1>1, <2>1 DEF TypeOK
  <2>3. r.email \in Email /\ r.since \in Nat
    BY DEF Request
  <2>4. active[r.email] \in Seq(BOOLEAN) /\ active'[r.email] \in Seq(BOOLEAN)
    BY <1>1, <2>3 DEF TypeOK
  <2>5. ActiveSince(active'[r.email], r.since)
    <3>1. PICK a \in Seq(BOOLEAN), b \in Seq(BOOLEAN), n \in Nat :
            a = active[r.email] /\ b = active'[r.email] /\ n = r.since
      BY <2>3, <2>4
    <3>2. Len(a) <= Len(b) /\ \A i \in 1 .. Len(a) : b[i] = a[i]
      BY <2>3, <3>1
    <3>3. ActiveSince(b, n)
      BY <1>7, <2>1, <2>2, <3>1, <3>2
    <3> QED
      BY <3>1, <3>3
  <2> QED
    BY <2>1, <2>2, <2>5
<1>9. ASSUME NEW h \in Handler PROVE RequestOK(h)'
  <2>1. CASE h \in H
    BY <2>1
  <2>2. CASE h \notin H /\ pc[h] # "idle"
    <3>1. pc'[h] = pc[h] /\ req'[h] = req[h] /\ RequestOK(h)
      BY <2>2, <1>2
    <3>2. PICK r \in Request : r = req[h]
      BY <1>1, <2>2 DEF TypeOK
    <3>3. r.email \in Email /\ r.since \in Nat
      BY DEF Request
    <3>4. active[r.email] \in Seq(BOOLEAN) /\ active'[r.email] \in Seq(BOOLEAN)
      BY <1>1, <3>3 DEF TypeOK
    <3>5. Len(active[r.email]) \in Nat /\ Len(active'[r.email]) \in Nat
      BY <3>4, LenProperties
    <3>6. r.since <= Len(active[r.email]) => r.since <= Len(active'[r.email])
      BY <3>3, <3>5
    <3> QED
      BY <3>1, <3>2, <3>6 DEF RequestOK
  <2>3. CASE h \notin H /\ pc[h] = "idle"
    BY <2>3 DEF RequestOK
  <2> QED
    BY <2>1, <2>2, <2>3
<1> QED
  BY <1>4, <1>5, <1>6, <1>8, <1>9 DEF SessionInv

\* One handler goes on, and carries no token it did not carry before.
LEMMA OneMoves ==
  ASSUME SessionInv, TypeOK', NEW h \in Handler,
         session' = session, ended' = ended, store' \subseteq store, active' = active,
         \A g \in Handler \ {h} : pc'[g] = pc[g] /\ req'[g] = req[g],
         RequestOK(h)',
         pc'[h] = "issue" => /\ ActiveSince(active[req[h].email], req[h].since)
                             /\ req'[h] = req[h] /\ pc[h] # "idle",
         \A s \in 1 .. Len(session) : Carries(h, s)' => Carries(h, s)
  PROVE  SessionInv'
<1> DEFINE H == {h}
<1>1. H \in SUBSET Handler
  OBVIOUS
<1>2. \A e \in Email : /\ Len(active[e]) <= Len(active'[e])
                       /\ \A i \in 1 .. Len(active[e]) : active'[e][i] = active[e][i]
  <2>1. \A e \in Email : active[e] \in Seq(BOOLEAN)
    BY DEF SessionInv, TypeOK
  <2> QED
    BY <2>1, LenProperties
<1>3. \A g \in Handler \ H : pc'[g] = pc[g] /\ req'[g] = req[g]
  OBVIOUS
<1>4. \A g \in H : /\ RequestOK(g)'
                   /\ pc'[g] = "issue" => ActiveSince(active[req[g].email], req[g].since)
                   /\ pc'[g] = "issue" => req'[g] = req[g] /\ pc[g] # "idle"
                   /\ \A s \in 1 .. Len(session) : Carries(g, s)' => Carries(g, s)
  <2> SUFFICES ASSUME NEW g \in Handler, g = h
               PROVE  /\ RequestOK(g)'
                      /\ pc'[g] = "issue" => ActiveSince(active[req[g].email], req[g].since)
                      /\ pc'[g] = "issue" => req'[g] = req[g] /\ pc[g] # "idle"
                      /\ \A s \in 1 .. Len(session) : Carries(g, s)' => Carries(g, s)
    OBVIOUS
  <2> QED
    BY DEF RequestOK, Carries
<1> HIDE DEF H
<1> QED
  BY <1>1, <1>2, <1>3, <1>4, Moves

-----------------------------------------------------------------------------
(* Types                                                                   *)

\* The parts of TypeOK.
RedisOK ==
  /\ session \in Seq([user : Email, turn : Nat \ {0}])
  /\ store \subseteq Token /\ ended \subseteq 1 .. Len(session)
CountsOK == counter \in [Key -> [count : Nat, expires : BOOLEAN]] /\ tried \in [Key -> Nat]
ControlOK ==
  /\ pc \in [Handler -> PC] /\ req \in [Handler -> Request \cup {NoReq}]
  /\ \A h \in Handler : pc[h] # "idle" => req[h] \in Request
  /\ arrived \in 0 .. MaxRequests

LEMMA TypeParts ==
  TypeOK <=> /\ active \in [Email -> Seq(BOOLEAN)]
             /\ RedisOK /\ CountsOK /\ ControlOK /\ faults \in 0 .. MaxFaults
BY DEF TypeOK, RedisOK, CountsOK, ControlOK

\* A handler goes on with request r.
LEMMA ControlStep ==
  ASSUME ControlOK, NEW h \in Handler, NEW place \in PC, NEW r \in Request \cup {NoReq},
         place # "idle" => r \in Request,
         pc' = [pc EXCEPT ![h] = place], req' = [req EXCEPT ![h] = r],
         arrived' \in 0 .. MaxRequests
  PROVE  ControlOK'
BY DEF ControlOK

LEMMA AnswerType ==
  ASSUME ControlOK, NEW h \in Handler, Answer(h)
  PROVE  ControlOK' /\ pc'[h] = "idle"
<1>1. ControlOK'
  BY ControlStep DEF Answer, PC, ControlOK
<1> QED
  BY <1>1 DEF Answer, ControlOK

LEMMA GoToType ==
  ASSUME ControlOK, NEW h \in Handler, pc[h] # "idle", NEW place \in PC, GoTo(h, place)
  PROVE  ControlOK' /\ pc'[h] = place /\ req' = req
BY DEF GoTo, ControlOK

\* The same request, with other limits done.
SameBut(r, q) == /\ q.kind = r.kind /\ q.ip = r.ip /\ q.email = r.email
                 /\ q.token = r.token /\ q.since = r.since

\* The request that goes on with n of its limits done.
LEMMA GoOnType ==
  ASSUME ControlOK, NEW h \in Handler, pc[h] # "idle",
         NEW place \in PC, NEW n \in 0 .. 2, GoOn(h, place, n)
  PROVE  /\ ControlOK' /\ pc'[h] = place
         /\ req'[h] \in Request /\ req'[h].done = n /\ SameBut(req[h], req'[h])
         /\ \A g \in Handler \ {h} : pc'[g] = pc[g] /\ req'[g] = req[g]
<1>1. PICK r \in Request : r = req[h]
  BY DEF ControlOK
<1>2. PICK q \in Request : q = [r EXCEPT !.done = n] /\ q.done = n /\ SameBut(r, q)
  BY RequestDone DEF SameBut
<1>3. req' = [req EXCEPT ![h] = q] /\ pc' = [pc EXCEPT ![h] = place] /\ arrived' = arrived
  BY <1>1, <1>2 DEF GoOn, ControlOK
<1>4. ControlOK'
  BY <1>3, ControlStep DEF ControlOK
<1> QED
  BY <1>1, <1>2, <1>3, <1>4 DEF ControlOK

\* What a request that passes its limits, or counts at them, may become.
LEMMA CheckedType ==
  ASSUME SessionInv, NEW h \in Handler, pc[h] \in {"check", "over"}, NEW isOver \in BOOLEAN,
         Checked(h, isOver)
  PROVE  /\ ControlOK' /\ tried' \in [Key -> Nat]
         /\ \A g \in Handler \ {h} : pc'[g] = pc[g] /\ req'[g] = req[g]
<1>1. /\ ControlOK /\ req[h] \in Request /\ tried \in [Key -> Nat]
      /\ req[h].done < Limits(req[h])
  BY InFlight, TypeParts DEF SessionInv, CountsOK
<1>2. PICK r \in Request : r = req[h]
  BY <1>1
<1>3. r.done + 1 < Limits(r) => r.done + 1 \in 0 .. 2
  BY LimitIsKey DEF Request
<1>4. PICK place \in {"check", "over"} : place = IF isOver THEN "over" ELSE pc[h]
  OBVIOUS
<1>5. \/ r.done + 1 < Limits(r) /\ GoOn(h, place, r.done + 1) /\ tried' = tried
      \/ Answer(h) /\ tried' = tried
      \/ GoOn(h, "verify", 0) /\ tried' = tried
      \/ GoOn(h, "count", 0) /\ tried' = Try(r)
  BY <1>2, <1>4 DEF Checked
<1>6. Try(r) \in [Key -> Nat]
  BY <1>1 DEF Try
<1>7. CASE r.done + 1 < Limits(r) /\ GoOn(h, place, r.done + 1) /\ tried' = tried
  <2>1. r.done + 1 \in 0 .. 2 /\ place \in PC
    BY <1>3, <1>7 DEF PC
  <2> QED
    BY <1>1, <1>7, <2>1, GoOnType
<1>8. CASE Answer(h) /\ tried' = tried
  BY <1>1, <1>8, AnswerType DEF Answer, ControlOK
<1>9. CASE GoOn(h, "verify", 0) /\ tried' = tried
  <2>1. 0 \in 0 .. 2 /\ "verify" \in PC
    BY DEF PC
  <2> QED
    BY <1>1, <1>9, <2>1, GoOnType
<1>10. CASE GoOn(h, "count", 0) /\ tried' = Try(r)
  <2>1. 0 \in 0 .. 2 /\ "count" \in PC
    BY DEF PC
  <2> QED
    BY <1>1, <1>6, <1>10, <2>1, GoOnType
<1> QED
  BY <1>5, <1>7, <1>8, <1>9, <1>10

LEMMA CountedType ==
  ASSUME SessionInv, NEW h \in Handler, pc[h] = "count",
         NEW c \in [count : Nat, expires : BOOLEAN], Counted(h, c)
  PROVE  /\ ControlOK' /\ counter' \in [Key -> [count : Nat, expires : BOOLEAN]]
         /\ \A g \in Handler \ {h} : pc'[g] = pc[g] /\ req'[g] = req[g]
<1>1. /\ ControlOK /\ req[h] \in Request
      /\ counter \in [Key -> [count : Nat, expires : BOOLEAN]]
      /\ req[h].done < Limits(req[h])
  BY InFlight, TypeParts DEF SessionInv, CountsOK
<1>2. PICK r \in Request : r = req[h]
  BY <1>1
<1>3. r.done \in 0 .. 2 /\ Limits(r) \in 0 .. 2 /\ r.done < Limits(r) /\ NextLimit(r) \in Key
  BY <1>1, <1>2, LimitIsKey DEF Request, NextLimit
<1>4. counter' \in [Key -> [count : Nat, expires : BOOLEAN]]
  BY <1>1, <1>2, <1>3 DEF Counted
<1>5. \/ r.done + 1 < Limits(r) /\ GoOn(h, "count", r.done + 1)
      \/ Answer(h)
      \/ GoOn(h, "create", 0)
  BY <1>2 DEF Counted
<1>6. CASE r.done + 1 < Limits(r) /\ GoOn(h, "count", r.done + 1)
  <2>1. r.done + 1 \in 0 .. 2
    BY <1>3, <1>6
  <2> QED
    BY <1>1, <1>4, <1>6, <2>1, GoOnType DEF PC
<1>7. CASE Answer(h)
  BY <1>1, <1>4, <1>7, AnswerType DEF Answer, ControlOK
<1>8. CASE GoOn(h, "create", 0)
  <2>1. 0 \in 0 .. 2 /\ "create" \in PC
    BY DEF PC
  <2> QED
    BY <1>1, <1>4, <1>8, <2>1, GoOnType
<1> QED
  BY <1>5, <1>6, <1>7, <1>8

-----------------------------------------------------------------------------
(* Steps that keep every token where it is, or lose it                     *)

\* A request that is answered.
LEMMA Answered ==
  ASSUME SessionInv, NEW h \in Handler, Answer(h),
         active' = active, session' = session, ended' = ended, store' \subseteq store,
         CountsOK', faults' \in 0 .. MaxFaults
  PROVE  SessionInv'
<1>1. TypeOK /\ ControlOK /\ RedisOK
  BY TypeParts DEF SessionInv
<1>2. /\ ControlOK' /\ pc'[h] = "idle"
      /\ \A g \in Handler \ {h} : pc'[g] = pc[g] /\ req'[g] = req[g]
  BY <1>1, AnswerType DEF Answer, ControlOK
<1>3. TypeOK'
  <2>1. RedisOK'
    BY <1>1 DEF RedisOK
  <2> QED
    BY <1>1, <1>2, <2>1, TypeParts DEF TypeOK, CountsOK, ControlOK, RedisOK
<1>4. /\ RequestOK(h)'
      /\ \A s \in 1 .. Len(session) : Carries(h, s)' => Carries(h, s)
  BY <1>2 DEF RequestOK, Carries
<1> QED
  BY <1>2, <1>3, <1>4, OneMoves

\* A request that goes on to a place where it carries no token.
LEMMA GoesOn ==
  ASSUME SessionInv, NEW h \in Handler, pc[h] # "idle",
         NEW place \in PC, place \notin {"status", "issue"}, NEW n \in 0 .. 2,
         GoOn(h, place, n), req[h].kind \in KindsAt(place),
         place \in {"check", "over", "count"} => n < Limits(req[h]),
         UNCHANGED <<active, session, ended, store>>,
         CountsOK', faults' \in 0 .. MaxFaults
  PROVE  SessionInv'
<1>1. TypeOK /\ ControlOK /\ RedisOK
  BY TypeParts DEF SessionInv
<1>2. /\ ControlOK' /\ pc'[h] = place
      /\ req'[h] \in Request /\ req'[h].done = n /\ SameBut(req[h], req'[h])
      /\ \A g \in Handler \ {h} : pc'[g] = pc[g] /\ req'[g] = req[g]
  BY <1>1, GoOnType
<1>3. TypeOK'
  <2>1. RedisOK'
    BY <1>1 DEF RedisOK
  <2> QED
    BY <1>1, <1>2, <2>1, TypeParts DEF TypeOK, CountsOK, ControlOK, RedisOK
<1>4. PICK r \in Request : r = req[h]
  BY <1>1 DEF ControlOK
<1>5. PICK q \in Request : q = req'[h] /\ q.done = n /\ SameBut(r, q)
  BY <1>2, <1>4
<1>7. RequestOK(h)'
  <2>1. /\ r.kind \in {"refresh", "logout"} => r.token[1] \in 1 .. Len(session)
        /\ r.since <= Len(active[r.email])
    BY <1>4, InFlight
  <2>2. Limits(q) = Limits(r)
    BY <1>5 DEF Limits, SameBut
  <2> QED
    BY <1>2, <1>4, <1>5, <2>1, <2>2 DEF RequestOK, SameBut
<1>8. \A s \in 1 .. Len(session) : Carries(h, s)' => Carries(h, s)
  BY <1>2 DEF Carries
<1> QED
  BY <1>2, <1>3, <1>7, <1>8, OneMoves

LEMMA CheckedStep ==
  ASSUME SessionInv, NEW h \in Handler, pc[h] \in {"check", "over"}, NEW isOver \in BOOLEAN,
         Checked(h, isOver), UNCHANGED <<active, session, store, counter, ended>>,
         faults' \in 0 .. MaxFaults
  PROVE  SessionInv'
<1>1. /\ req[h] \in Request /\ req[h].kind \in {"login", "register"}
      /\ req[h].done < Limits(req[h])
  BY InFlight DEF KindsAt
<1>2. PICK r \in Request : r = req[h]
  BY <1>1
<1>3. CountsOK'
  BY CheckedType, TypeParts DEF SessionInv, CountsOK
<1>4. PICK place \in {"check", "over"} : place = IF isOver THEN "over" ELSE pc[h]
  OBVIOUS
<1>5. CASE r.done + 1 < Limits(r)
  <2>1. GoOn(h, place, r.done + 1)
    BY <1>2, <1>4, <1>5 DEF Checked
  <2>2. /\ r.done + 1 \in 0 .. 2
        /\ place \in PC /\ place \notin {"status", "issue"} /\ r.kind \in KindsAt(place)
    BY <1>1, <1>2, <1>5, LimitIsKey DEF Request, PC, KindsAt
  <2> QED
    BY <1>2, <1>3, <1>5, <2>1, <2>2, GoesOn
<1>6. CASE ~(r.done + 1 < Limits(r)) /\ place = "over"
  <2>1. Answer(h)
    BY <1>2, <1>4, <1>6 DEF Checked
  <2> QED
    BY <1>3, <2>1, Answered
<1>7. CASE ~(r.done + 1 < Limits(r)) /\ place # "over" /\ r.kind = "login"
  <2>1. GoOn(h, "verify", 0)
    BY <1>2, <1>4, <1>7 DEF Checked
  <2>2. /\ 0 \in 0 .. 2
        /\ "verify" \in PC /\ "verify" \notin {"status", "issue"} /\ r.kind \in KindsAt("verify")
    BY <1>7 DEF PC, KindsAt
  <2> QED
    BY <1>2, <1>3, <2>1, <2>2, GoesOn
<1>8. CASE ~(r.done + 1 < Limits(r)) /\ place # "over" /\ r.kind # "login"
  <2>1. GoOn(h, "count", 0)
    BY <1>2, <1>4, <1>8 DEF Checked
  <2>2. /\ 0 \in 0 .. 2 /\ "count" \in PC /\ "count" \notin {"status", "issue"}
        /\ r.kind \in KindsAt("count") /\ 0 < Limits(r)
    BY <1>1, <1>2, <1>8 DEF PC, KindsAt, Limits
  <2> QED
    BY <1>2, <1>3, <2>1, <2>2, GoesOn
<1> QED
  BY <1>5, <1>6, <1>7, <1>8

LEMMA CountedStep ==
  ASSUME SessionInv, NEW h \in Handler, pc[h] = "count",
         NEW c \in [count : Nat, expires : BOOLEAN], Counted(h, c),
         UNCHANGED <<active, session, store, tried, ended>>, faults' \in 0 .. MaxFaults
  PROVE  SessionInv'
<1>1. /\ req[h] \in Request /\ req[h].kind \in {"login", "register"}
      /\ req[h].done < Limits(req[h])
  BY InFlight DEF KindsAt
<1>2. PICK r \in Request : r = req[h]
  BY <1>1
<1>3. CountsOK'
  BY CountedType, TypeParts DEF SessionInv, CountsOK
<1>4. CASE r.done + 1 < Limits(r)
  <2>1. GoOn(h, "count", r.done + 1)
    BY <1>2, <1>4 DEF Counted
  <2>2. /\ r.done + 1 \in 0 .. 2
        /\ "count" \in PC /\ "count" \notin {"status", "issue"} /\ r.kind \in KindsAt("count")
    BY <1>1, <1>2, <1>4, LimitIsKey DEF Request, PC, KindsAt
  <2> QED
    BY <1>2, <1>3, <1>4, <2>1, <2>2, GoesOn
<1>5. CASE ~(r.done + 1 < Limits(r)) /\ r.kind = "login"
  <2>1. Answer(h)
    BY <1>2, <1>5 DEF Counted
  <2> QED
    BY <1>3, <2>1, Answered
<1>6. CASE ~(r.done + 1 < Limits(r)) /\ r.kind # "login"
  <2>1. GoOn(h, "create", 0)
    BY <1>2, <1>6 DEF Counted
  <2>2. /\ 0 \in 0 .. 2
        /\ "create" \in PC /\ "create" \notin {"status", "issue"} /\ r.kind \in KindsAt("create")
    BY <1>1, <1>2, <1>6 DEF PC, KindsAt
  <2> QED
    BY <1>2, <1>3, <2>1, <2>2, GoesOn
<1> QED
  BY <1>4, <1>5, <1>6

\* A request arrives.
LEMMA TakeStep ==
  ASSUME SessionInv, NEW h \in Handler, NEW r \in Request,
         NEW place \in {"check", "consume", "logout"}, Take(h, r, place),
         r.kind \in KindsAt(place), place = "check" => r.done = 0,
         r.kind \in {"refresh", "logout"} => r.token[1] \in 1 .. Len(session),
         r.since = Len(active[r.email])
  PROVE  SessionInv'
<1>1. TypeOK /\ ControlOK /\ RedisOK /\ CountsOK
  BY TypeParts DEF SessionInv
<1>2. /\ pc' = [pc EXCEPT ![h] = place] /\ req' = [req EXCEPT ![h] = r]
      /\ arrived' = arrived + 1 /\ arrived < MaxRequests
      /\ active' = active /\ session' = session /\ store' = store /\ counter' = counter
      /\ tried' = tried /\ ended' = ended /\ faults' = faults
  BY DEF Take, redis
<1>3. ControlOK'
  <2>1. arrived' \in 0 .. MaxRequests
    BY <1>1, <1>2, SessionsAssumption DEF ControlOK
  <2> QED
    BY <1>1, <1>2, <2>1, ControlStep DEF PC
<1>4. TypeOK'
  BY <1>1, <1>2, <1>3 DEF TypeOK, ControlOK
<1>5. /\ pc'[h] = place /\ req'[h] = r
      /\ \A g \in Handler \ {h} : pc'[g] = pc[g] /\ req'[g] = req[g]
  BY <1>1, <1>2 DEF ControlOK
<1>6. RequestOK(h)'
  <2>1. r.email \in Email
    BY DEF Request
  <2>2. Len(active[r.email]) \in Nat
    BY <1>1, <2>1, LenProperties DEF TypeOK
  <2>3. place = "check" => r.done < Limits(r)
    BY DEF KindsAt, Limits
  <2> QED
    BY <1>2, <1>5, <2>2, <2>3 DEF RequestOK
<1>7. \A s \in 1 .. Len(session) : Carries(h, s)' => Carries(h, s)
  BY <1>5 DEF Carries
<1> QED
  BY <1>2, <1>4, <1>5, <1>6, <1>7, OneMoves

\* On to issue a token for an account that is active.
LEMMA ToIssue ==
  ASSUME SessionInv, NEW h \in Handler, pc[h] \in {"verify", "status"}, GoTo(h, "issue"),
         IsActive(req[h].email), UNCHANGED <<active, redis>>
  PROVE  SessionInv'
<1>1. TypeOK /\ ControlOK
  BY TypeParts DEF SessionInv
<1>2. /\ req[h].email \in Email /\ req[h].since \in Nat
      /\ req[h].since <= Len(active[req[h].email])
      /\ req[h].kind \in {"login", "refresh"} /\ (pc[h] = "verify" => req[h].kind = "login")
      /\ RequestOK(h)
  BY InFlight DEF KindsAt, SessionInv
<1>3. /\ active' = active /\ session' = session /\ store' = store /\ counter' = counter
      /\ tried' = tried /\ ended' = ended /\ faults' = faults /\ arrived' = arrived
      /\ pc'[h] = "issue" /\ req' = req /\ ControlOK'
      /\ \A g \in Handler \ {h} : pc'[g] = pc[g]
  BY <1>1, GoToType DEF GoTo, redis, PC, ControlOK
<1>4. TypeOK'
  BY <1>1, <1>3 DEF TypeOK, ControlOK
<1>5. ActiveSince(active[req[h].email], req[h].since)
  <2>1. PICK a \in Seq(BOOLEAN) : a = active[req[h].email]
    BY <1>1, <1>2 DEF TypeOK
  <2>2. a # <<>> /\ a[Len(a)]
    BY <2>1 DEF IsActive, Exists
  <2>3. Len(a) \in Nat /\ Len(a) > 0
    BY <2>2, LenProperties, EmptySeq
  <2>4. PICK i \in Nat : i = Len(a)
    BY <2>3
  <2>5. i \in req[h].since .. Len(a) /\ i > 0 /\ a[i]
    BY <1>2, <2>1, <2>2, <2>3, <2>4
  <2> QED
    BY <2>1, <2>5 DEF ActiveSince
<1>6. RequestOK(h)'
  BY <1>2, <1>3 DEF RequestOK, KindsAt
<1>7. \A s \in 1 .. Len(session) : Carries(h, s)' => Carries(h, s)
  BY <1>2, <1>3 DEF Carries
<1> QED
  BY <1>3, <1>4, <1>5, <1>6, <1>7, OneMoves

\* A token is consumed: nobody else has it, and it is not in the store.
LEMMA Consumed ==
  ASSUME SessionInv, NEW h \in Handler, pc[h] = "consume", GoTo(h, "status"),
         req[h].token \in store, store' = store \ {req[h].token},
         UNCHANGED <<active, session, counter, tried, ended, faults>>
  PROVE  SessionInv'
<1>1. TypeOK /\ ControlOK /\ Issued /\ OneSession /\ EndedForGood /\ ActiveWhileItRan
  BY TypeParts DEF SessionInv
<1>2. \A g \in Handler : RequestOK(g)
  BY DEF SessionInv
<1>3. /\ pc'[h] = "status" /\ req' = req /\ ControlOK' /\ arrived' = arrived
      /\ \A g \in Handler \ {h} : pc'[g] = pc[g]
  BY <1>1, GoToType DEF GoTo, PC, ControlOK
<1>4. PICK t \in Token : t = req[h].token
  BY <1>1 DEF TypeOK
<1> DEFINE s == t[1]
<1>5. s \in 1 .. Len(session) /\ t \in store /\ session[s].turn = t[2]
  BY <1>1, <1>4 DEF Issued, OneSession
<1>6. \A g \in Handler : ~Carries(g, s)
  BY <1>1, <1>5 DEF OneSession
<1>7. \A u \in store : u[1] = s => u = t
  <2> SUFFICES ASSUME NEW u \in store, u[1] = s PROVE u = t
    OBVIOUS
  <2>1. u \in Token /\ u[2] = t[2]
    BY <1>1, <1>5 DEF TypeOK, OneSession
  <2> QED
    BY <2>1 DEF Token
<1>8. s \notin ended
  BY <1>1, <1>5 DEF EndedForGood
<1>9. \A g \in Handler, v \in 1 .. Len(session) :
        Carries(g, v)' => Carries(g, v) \/ (g = h /\ v = s)
  <2> SUFFICES ASSUME NEW g \in Handler, NEW v \in 1 .. Len(session), Carries(g, v)', g # h
               PROVE  Carries(g, v)
    BY <1>3, <1>4 DEF Carries
  <2> QED
    BY <1>3 DEF Carries
<1> HIDE DEF s
<1>10. TypeOK'
  BY <1>1, <1>3 DEF TypeOK, ControlOK
<1>11. Issued'
  BY <1>1 DEF Issued
<1>12. OneSession'
  <2> SUFFICES ASSUME NEW v \in 1 .. Len(session)
               PROVE  /\ \A u \in store' : u[1] = v => /\ u[2] = session[v].turn
                                                       /\ \A g \in Handler : ~Carries(g, v)'
                      /\ \A f, g \in Handler : Carries(f, v)' /\ Carries(g, v)' => f = g
    BY DEF OneSession
  <2>1. /\ \A u \in store : u[1] = v => /\ u[2] = session[v].turn
                                        /\ \A g \in Handler : ~Carries(g, v)
        /\ \A f, g \in Handler : Carries(f, v) /\ Carries(g, v) => f = g
    BY <1>1 DEF OneSession
  <2>2. CASE v = s
    BY <1>4, <1>6, <1>7, <1>9, <2>2
  <2>3. CASE v # s
    BY <1>9, <2>1, <2>3
  <2> QED
    BY <2>2, <2>3
<1>13. EndedForGood'
  <2>1. ended \subseteq 1 .. Len(session)
    BY <1>1 DEF TypeOK
  <2>2. \A v \in ended : (\A u \in store : u[1] # v) /\ \A g \in Handler : ~Carries(g, v)
    BY <1>1 DEF EndedForGood
  <2>3. \A v \in ended : (\A u \in store' : u[1] # v) /\ \A g \in Handler : ~Carries(g, v)'
    BY <1>8, <1>9, <2>1, <2>2
  <2> QED
    BY <2>3 DEF EndedForGood
<1>14. ActiveWhileItRan'
  <2>1. \A g \in Handler : pc'[g] = "issue" => ActiveSince(active[req[g].email], req[g].since)
    BY <1>1, <1>3 DEF ActiveWhileItRan
  <2> QED
    BY <1>3, <2>1 DEF ActiveWhileItRan
<1>15. ASSUME NEW g \in Handler PROVE RequestOK(g)'
  <2>1. RequestOK(g)
    BY <1>2
  <2>2. CASE g = h
    BY <1>3, <2>1, <2>2 DEF RequestOK, KindsAt
  <2>3. CASE g # h
    BY <1>3, <2>1, <2>3 DEF RequestOK
  <2> QED
    BY <2>2, <2>3
<1> QED
  BY <1>10, <1>11, <1>12, <1>13, <1>14, <1>15 DEF SessionInv

-----------------------------------------------------------------------------
(* A token is saved                                                        *)

SessionRow == [user : Email, turn : Nat \ {0}]

\* What Saved does: session s is the new one or the one whose token the
\* request carries, and <<s, n>> its newest token.
LEMMA SavedOne ==
  ASSUME SessionInv, NEW h \in Handler, pc[h] = "issue", Saved(req[h])
  PROVE  /\ session' \in Seq(SessionRow)
         /\ Len(session') \in Nat /\ Len(session) \in Nat /\ Len(session) <= Len(session')
         /\ \E s \in 1 .. Len(session'), n \in Nat \ {0} :
              /\ store' = store \cup {<<s, n>>} /\ session'[s].turn = n
              /\ \A t \in store : t[1] # s
              /\ \A v \in 1 .. Len(session') :
                   v # s => v \in 1 .. Len(session) /\ session'[v] = session[v]
              /\ s \in 1 .. Len(session) => Carries(h, s)
<1>1. /\ session \in Seq(SessionRow) /\ Issued /\ OneSession
      /\ req[h] \in Request /\ req[h].kind \in {"login", "refresh"} /\ req[h].email \in Email
      /\ req[h].kind = "refresh" => req[h].token[1] \in 1 .. Len(session)
  BY InFlight DEF SessionInv, TypeOK, SessionRow, KindsAt
<1>2. PICK r \in Request : r = req[h]
  BY <1>1
<1>3. PICK q \in Seq(SessionRow) : q = session
  BY <1>1
<1>4. Len(q) \in Nat
  BY LenProperties
<1>5. CASE r.kind = "login"
  <2> DEFINE x == [user |-> r.email, turn |-> 1]
             p == Append(q, x)
  <2>1. x \in SessionRow /\ x.turn = 1
    BY <1>1, <1>2 DEF SessionRow
  <2>2. session' = p /\ store' = store \cup {<<Len(q) + 1, 1>>}
    BY <1>2, <1>3, <1>5 DEF Saved
  <2> HIDE DEF x
  <2>3. /\ p \in Seq(SessionRow) /\ Len(p) = Len(q) + 1 /\ p[Len(q) + 1] = x
        /\ \A v \in 1 .. Len(q) : p[v] = q[v]
    BY <2>1, AppendProperties
  <2> HIDE DEF p
  <2>4. \A t \in store : t[1] # Len(q) + 1
    BY <1>1, <1>3, <1>4 DEF Issued
  <2>5. Len(q) + 1 \in 1 .. Len(p) /\ Len(q) + 1 \notin 1 .. Len(q)
    BY <1>4, <2>3
  <2>6. \A v \in 1 .. Len(p) : v # Len(q) + 1 => v \in 1 .. Len(q)
    BY <1>4, <2>3
  <2>7. /\ store' = store \cup {<<Len(q) + 1, 1>>} /\ session'[Len(q) + 1].turn = 1
        /\ \A t \in store : t[1] # Len(q) + 1
        /\ \A v \in 1 .. Len(session') :
             v # Len(q) + 1 => v \in 1 .. Len(session) /\ session'[v] = session[v]
        /\ Len(q) + 1 \in 1 .. Len(session) => Carries(h, Len(q) + 1)
    BY <1>3, <2>1, <2>2, <2>3, <2>4, <2>5, <2>6
  <2>8. Len(q) + 1 \in 1 .. Len(session') /\ 1 \in Nat \ {0}
    BY <2>2, <2>5
  <2>9. Len(session') \in Nat /\ Len(session) \in Nat /\ Len(session) <= Len(session')
    BY <1>3, <1>4, <2>2, <2>3
  <2> QED
    BY <2>2, <2>3, <2>7, <2>8, <2>9
<1>6. CASE r.kind = "refresh"
  <2>1. PICK s \in 1 .. Len(q) : s = r.token[1]
    BY <1>1, <1>2, <1>3, <1>6
  <2>2. q[s] \in SessionRow
    BY ElementOfSeq
  <2>3. PICK n \in Nat \ {0} : n = q[s].turn + 1
    BY <2>2 DEF SessionRow
  <2>4. PICK x \in SessionRow : x = [q[s] EXCEPT !.turn = n] /\ x.turn = n
    <3>1. PICK w \in SessionRow : w = q[s]
      BY <2>2
    <3>2. [w EXCEPT !.turn = n] \in SessionRow /\ [w EXCEPT !.turn = n].turn = n
      BY DEF SessionRow
    <3> QED
      BY <3>1, <3>2
  <2> DEFINE p == [q EXCEPT ![s] = x]
  <2>5. session' = p /\ store' = store \cup {<<s, n>>}
    <3>1. /\ session' = [q EXCEPT ![s].turn = q[s].turn + 1]
          /\ store' = store \cup {<<s, q[s].turn + 1>>}
      BY <1>2, <1>3, <1>6, <2>1 DEF Saved
    <3>2. [q EXCEPT ![s].turn = q[s].turn + 1] = [q EXCEPT ![s] = [q[s] EXCEPT !.turn = n]]
      BY <2>3
    <3> QED
      BY <3>1, <3>2, <2>3, <2>4
  <2>6. /\ p \in Seq(SessionRow) /\ Len(p) = Len(q)
        /\ \A v \in 1 .. Len(q) : p[v] = IF v = s THEN x ELSE q[v]
    BY ExceptSeq
  <2> HIDE DEF p
  <2>7. Carries(h, s)
    BY <1>2, <1>6, <2>1 DEF Carries
  <2>8. \A t \in store : t[1] # s
    BY <1>1, <1>3, <2>7 DEF OneSession
  <2>9. /\ store' = store \cup {<<s, n>>} /\ session'[s].turn = n
        /\ \A t \in store : t[1] # s
        /\ \A v \in 1 .. Len(session') :
             v # s => v \in 1 .. Len(session) /\ session'[v] = session[v]
        /\ s \in 1 .. Len(session) => Carries(h, s)
    BY <1>3, <2>4, <2>5, <2>6, <2>7, <2>8
  <2>10. s \in 1 .. Len(session')
    BY <2>5, <2>6
  <2>11. Len(session') \in Nat /\ Len(session) \in Nat /\ Len(session) <= Len(session')
    BY <1>3, <1>4, <2>5, <2>6
  <2> QED
    BY <2>5, <2>6, <2>9, <2>10, <2>11
<1> QED
  BY <1>1, <1>2, <1>5, <1>6

\* The token is the newest, and the request that saved it carries it no more.
LEMMA IssueStep ==
  ASSUME SessionInv, NEW h \in Handler, pc[h] = "issue", Saved(req[h]),
         ControlOK', faults' \in 0 .. MaxFaults, UNCHANGED <<active, counter, tried, ended>>,
         \A g \in Handler \ {h} : pc'[g] = pc[g] /\ req'[g] = req[g],
         \/ pc'[h] = "idle"
         \/ pc'[h] = "reset" /\ req'[h] = req[h] /\ req[h].kind = "login"
  PROVE  SessionInv'
<1>1. TypeOK /\ ControlOK /\ Issued /\ OneSession /\ EndedForGood /\ ActiveWhileItRan
  BY TypeParts DEF SessionInv
<1>2. \A g \in Handler : RequestOK(g)
  BY DEF SessionInv
<1>3. /\ session' \in Seq(SessionRow)
      /\ Len(session') \in Nat /\ Len(session) \in Nat /\ Len(session) <= Len(session')
  BY SavedOne
<1>4. PICK s \in 1 .. Len(session'), n \in Nat \ {0} :
              /\ store' = store \cup {<<s, n>>} /\ session'[s].turn = n
              /\ \A t \in store : t[1] # s
              /\ \A v \in 1 .. Len(session') :
                   v # s => v \in 1 .. Len(session) /\ session'[v] = session[v]
              /\ s \in 1 .. Len(session) => Carries(h, s)
  BY SavedOne
<1>5. s \in Nat \ {0} /\ 1 .. Len(session) \subseteq 1 .. Len(session')
  BY <1>3
<1>6. \A g \in Handler, v \in 1 .. Len(session') :
        Carries(g, v)' => g # h /\ Carries(g, v)
  BY DEF Carries
<1>7. \A g \in Handler : ~Carries(g, s)'
  <2> SUFFICES ASSUME NEW g \in Handler, Carries(g, s)' PROVE FALSE
    OBVIOUS
  <2>1. g # h /\ Carries(g, s)
    BY <1>6
  <2>2. req[g].kind = "refresh" /\ req[g].token[1] = s /\ pc[g] # "idle"
    BY <2>1 DEF Carries
  <2>3. s \in 1 .. Len(session)
    BY <1>2, <2>2 DEF RequestOK
  <2>4. Carries(h, s)
    BY <1>4, <2>3
  <2> QED
    BY <1>1, <2>1, <2>3, <2>4 DEF OneSession
<1>8. TypeOK'
  <2>1. <<s, n>> \in Token
    BY <1>5 DEF Token
  <2>2. RedisOK'
    BY <1>1, <1>3, <1>4, <1>5, <2>1 DEF RedisOK, TypeOK, SessionRow
  <2> QED
    BY <1>1, <2>2, TypeParts DEF TypeOK, RedisOK, ControlOK
<1>9. Issued'
  <2> SUFFICES ASSUME NEW t \in store' PROVE t[1] \in 1 .. Len(session')
    BY DEF Issued
  <2>1. CASE t \in store
    BY <1>1, <1>5, <2>1 DEF Issued
  <2>2. CASE t = <<s, n>>
    BY <2>2
  <2> QED
    BY <1>4, <2>1, <2>2
<1>10. OneSession'
  <2> SUFFICES ASSUME NEW v \in 1 .. Len(session')
               PROVE  /\ \A u \in store' : u[1] = v => /\ u[2] = session'[v].turn
                                                       /\ \A g \in Handler : ~Carries(g, v)'
                      /\ \A f, g \in Handler : Carries(f, v)' /\ Carries(g, v)' => f = g
    BY DEF OneSession
  <2>1. CASE v = s
    <3>1. \A u \in store' : u[1] = v => u = <<s, n>>
      BY <1>4, <2>1
    <3> QED
      BY <1>4, <1>7, <2>1, <3>1
  <2>2. CASE v # s
    <3>1. v \in 1 .. Len(session) /\ session'[v] = session[v]
      BY <1>4, <2>2
    <3>2. /\ \A u \in store : u[1] = v => /\ u[2] = session[v].turn
                                          /\ \A g \in Handler : ~Carries(g, v)
          /\ \A f, g \in Handler : Carries(f, v) /\ Carries(g, v) => f = g
      BY <1>1, <3>1 DEF OneSession
    <3>3. \A u \in store' : u[1] = v => u \in store
      BY <1>4, <2>2
    <3> QED
      BY <1>6, <3>1, <3>2, <3>3
  <2> QED
    BY <2>1, <2>2
<1>11. EndedForGood'
  <2>1. ended \subseteq 1 .. Len(session)
    BY <1>1 DEF TypeOK
  <2>2. \A v \in ended : (\A u \in store : u[1] # v) /\ \A g \in Handler : ~Carries(g, v)
    BY <1>1 DEF EndedForGood
  <2>3. s \notin ended
    BY <1>4, <2>1, <2>2
  <2>4. ASSUME NEW v \in ended
        PROVE  (\A u \in store' : u[1] # v) /\ \A g \in Handler : ~Carries(g, v)'
    <3>1. v # s /\ v \in 1 .. Len(session')
      BY <1>5, <2>1, <2>3
    <3>2. \A u \in store' : u[1] # v
      BY <1>4, <2>2, <3>1
    <3> QED
      BY <1>6, <2>2, <3>1, <3>2
  <2> QED
    BY <2>4 DEF EndedForGood
<1>12. ActiveWhileItRan'
  <2>1. ASSUME NEW g \in Handler, pc'[g] = "issue"
        PROVE  g # h /\ ActiveSince(active[req[g].email], req[g].since)
    BY <1>1, <2>1 DEF ActiveWhileItRan
  <2> QED
    BY <2>1 DEF ActiveWhileItRan
<1>13. ASSUME NEW g \in Handler PROVE RequestOK(g)'
  <2>1. RequestOK(g) /\ RequestOK(h)
    BY <1>2
  <2>2. CASE g = h
    BY <2>1, <2>2 DEF RequestOK, KindsAt
  <2>3. CASE g # h
    BY <1>5, <2>1, <2>3 DEF RequestOK
  <2> QED
    BY <2>2, <2>3
<1> QED
  BY <1>8, <1>9, <1>10, <1>11, <1>12, <1>13 DEF SessionInv

\* A logout that found the token has ended the session: that was its only one.
LEMMA LogoutStep ==
  ASSUME SessionInv, NEW h \in Handler, Logout(h)
  PROVE  SessionInv'
<1>1. TypeOK /\ ControlOK /\ Issued /\ OneSession /\ EndedForGood /\ ActiveWhileItRan
  BY TypeParts DEF SessionInv
<1>2. \A g \in Handler : RequestOK(g)
  BY DEF SessionInv
<1>3. /\ pc[h] = "logout" /\ Answer(h) /\ faults' = faults
      /\ store' = store \ {req[h].token}
      /\ active' = active /\ session' = session /\ counter' = counter /\ tried' = tried
      /\ ended' = ended \cup {s \in 1 .. Len(session) : s = req[h].token[1] /\ req[h].token \in store}
  BY DEF Logout, Finish
<1>4. /\ pc'[h] = "idle" /\ ControlOK'
      /\ \A g \in Handler \ {h} : pc'[g] = pc[g] /\ req'[g] = req[g]
  BY <1>1, <1>3, AnswerType DEF Answer, ControlOK
<1>5. \A g \in Handler, v \in 1 .. Len(session) : Carries(g, v)' => Carries(g, v)
  BY <1>4 DEF Carries
<1>6. TypeOK'
  <2>1. RedisOK'
    BY <1>1, <1>3 DEF RedisOK, TypeOK
  <2> QED
    BY <1>1, <1>3, <1>4, <2>1, TypeParts DEF TypeOK, RedisOK, ControlOK
<1>7. Issued' /\ OneSession'
  BY <1>1, <1>3, <1>5 DEF Issued, OneSession
<1>8. EndedForGood'
  <2> SUFFICES ASSUME NEW v \in ended'
               PROVE  (\A u \in store' : u[1] # v) /\ \A g \in Handler : ~Carries(g, v)'
    BY DEF EndedForGood
  <2>1. CASE v \in ended
    <3>1. v \in 1 .. Len(session)
      BY <1>1, <2>1 DEF TypeOK
    <3> QED
      BY <1>1, <1>3, <1>5, <2>1, <3>1 DEF EndedForGood
  <2>2. CASE v \notin ended
    <3>1. v \in 1 .. Len(session) /\ v = req[h].token[1] /\ req[h].token \in store
      BY <1>3, <2>2
    <3>2. PICK t \in store : t = req[h].token /\ t[1] = v
      BY <3>1
    <3>3. \A u \in store : u[1] = v => u[2] = session[v].turn /\ \A g \in Handler : ~Carries(g, v)
      BY <1>1, <3>1 DEF OneSession
    <3>4. \A u \in store : u[1] = v => u = t
      <4> SUFFICES ASSUME NEW u \in store, u[1] = v PROVE u = t
        OBVIOUS
      <4>1. u \in Token /\ t \in Token /\ u[2] = t[2] /\ u[1] = t[1]
        BY <1>1, <3>2, <3>3 DEF TypeOK
      <4> QED
        BY <4>1 DEF Token
    <3> QED
      BY <1>3, <1>5, <3>1, <3>2, <3>3, <3>4
  <2> QED
    BY <2>1, <2>2
<1>9. ActiveWhileItRan'
  <2>1. ASSUME NEW g \in Handler, pc'[g] = "issue"
        PROVE  g # h /\ ActiveSince(active[req[g].email], req[g].since)
    BY <1>1, <1>4, <2>1 DEF ActiveWhileItRan
  <2> QED
    BY <1>3, <1>4, <2>1 DEF ActiveWhileItRan
<1>10. ASSUME NEW g \in Handler PROVE RequestOK(g)'
  <2>1. CASE g = h
    BY <1>4, <2>1 DEF RequestOK
  <2>2. CASE g # h
    BY <1>2, <1>3, <1>4, <2>2 DEF RequestOK
  <2> QED
    BY <2>1, <2>2
<1> QED
  BY <1>6, <1>7, <1>8, <1>9, <1>10 DEF SessionInv

-----------------------------------------------------------------------------
(* The world's steps, and the others                                       *)

Counter == [count : Nat, expires : BOOLEAN]

LEMMA CountIsCounter ==
  ASSUME CountsOK, NEW k \in Key
  PROVE  Count(k) \in Counter /\ Added(Count(k)) \in Counter
<1>1. ASSUME NEW c \in Counter PROVE Added(c) \in Counter
  <2>1. c.count + 1 \in Nat /\ (c.expires \/ c.count = 0) \in BOOLEAN
    BY DEF Counter
  <2> QED
    BY <2>1 DEF Added, Counter
<1>2. PICK c \in Counter : c = counter[k]
  BY DEF CountsOK, Counter
<1>3. Count(k) = c \/ Count(k) = Added(c)
  BY <1>2 DEF Count
<1>4. PICK d \in Counter : d = Count(k)
  BY <1>1, <1>3
<1> QED
  BY <1>1, <1>4

\* A request as it arrives.
LEMMA NewRequest ==
  ASSUME NEW kind \in {"login", "register", "refresh", "logout"}, NEW i \in Ip,
         NEW e \in Email, NEW right \in BOOLEAN, NEW t \in Token \cup {NoToken}, NEW n \in Nat
  PROVE  \E r \in Request :
           /\ r = [kind |-> kind, ip |-> i, email |-> e, right |-> right, token |-> t,
                   since |-> n, done |-> 0]
           /\ r.kind = kind /\ r.email = e /\ r.token = t /\ r.since = n /\ r.done = 0
<1> DEFINE r == [kind |-> kind, ip |-> i, email |-> e, right |-> right, token |-> t,
                 since |-> n, done |-> 0]
<1>1. r \in Request
  BY DEF Request
<1>2. r.kind = kind /\ r.email = e /\ r.token = t /\ r.since = n /\ r.done = 0
  OBVIOUS
<1> QED
  BY <1>1, <1>2

\* Nobody moves; tokens and counters run out.
LEMMA RunOut ==
  ASSUME SessionInv, UNCHANGED <<active, session, ended, control>>,
         store' \subseteq store, CountsOK'
  PROVE  SessionInv'
<1>1. TypeOK /\ RedisOK
  BY TypeParts DEF SessionInv
<1>2. TypeOK'
  BY <1>1 DEF TypeOK, RedisOK, CountsOK, control
<1> DEFINE H == {}
<1>3. \A g \in Handler \ H : pc'[g] = pc[g] /\ req'[g] = req[g]
  BY DEF control
<1>5. H \in SUBSET Handler /\ \A h \in H : FALSE
  OBVIOUS
<1>6. session' = session /\ ended' = ended /\ store' \subseteq store
  OBVIOUS
<1>4. \A e \in Email : /\ Len(active[e]) <= Len(active'[e])
                       /\ \A i \in 1 .. Len(active[e]) : active'[e][i] = active[e][i]
  <2>1. \A e \in Email : active[e] \in Seq(BOOLEAN)
    BY <1>1 DEF TypeOK
  <2> QED
    BY <2>1, LenProperties
<1> HIDE DEF H
<1>7. \A h \in H : /\ RequestOK(h)'
                   /\ pc'[h] = "issue" => ActiveSince(active[req[h].email], req[h].since)
                   /\ pc'[h] = "issue" => req'[h] = req[h] /\ pc[h] # "idle"
                   /\ \A s \in 1 .. Len(session) : Carries(h, s)' => Carries(h, s)
  BY <1>5
<1> QED
  BY <1>2, <1>3, <1>4, <1>5, <1>6, <1>7, Moves

\* An account gets a status: its first when it is made.
LEMMA NewStatus ==
  ASSUME SessionInv, TypeOK', NEW e \in Email, NEW b \in BOOLEAN, NEW H \in SUBSET Handler,
         active' = [active EXCEPT ![e] = Append(active[e], b)],
         UNCHANGED redis, \A g \in Handler \ H : pc'[g] = pc[g] /\ req'[g] = req[g],
         \A h \in H : pc'[h] = "idle"
  PROVE  SessionInv'
<1>1. active \in [Email -> Seq(BOOLEAN)]
  BY DEF SessionInv, TypeOK
<1>2. /\ session' = session /\ ended' = ended /\ store' \subseteq store
  BY DEF redis
<1>3. ASSUME NEW f \in Email
      PROVE  /\ Len(active[f]) <= Len(active'[f])
             /\ \A i \in 1 .. Len(active[f]) : active'[f][i] = active[f][i]
  <2>1. PICK a \in Seq(BOOLEAN) : a = active[f]
    BY <1>1
  <2>2. Len(a) \in Nat /\ Len(Append(a, b)) = Len(a) + 1
        /\ \A i \in 1 .. Len(a) : Append(a, b)[i] = a[i]
    BY LenProperties, AppendProperties
  <2>3. active'[f] = a \/ active'[f] = Append(a, b)
    BY <1>1, <2>1
  <2> QED
    BY <2>1, <2>2, <2>3
<1>4. \A h \in H : /\ RequestOK(h)'
                   /\ \A s \in 1 .. Len(session) : Carries(h, s)' => Carries(h, s)
  BY DEF RequestOK, Carries
<1> QED
  BY <1>2, <1>3, <1>4, Moves

LEMMA FaultStep ==
  ASSUME SessionInv, NEW h \in Handler, Fault(h)
  PROVE  SessionInv'
<1>1. /\ TypeOK /\ ControlOK /\ RedisOK /\ CountsOK /\ faults' \in 0 .. MaxFaults
      /\ pc[h] # "idle" => req[h] \in Request
  BY TypeParts, SessionsAssumption DEF SessionInv, Fault, TypeOK
<1>2. CASE /\ pc[h] \in {"check", "over"} /\ Checked(h, FALSE)
           /\ UNCHANGED <<active, session, store, counter, ended>>
  BY <1>1, <1>2, CheckedStep
<1>3. CASE /\ pc[h] = "count"
           /\ LET k == NextLimit(req[h]) IN Counted(h, counter[k]) \/ Counted(h, Added(Count(k)))
           /\ UNCHANGED <<active, session, store, tried, ended>>
  <2>1. PICK r \in Request : r = req[h]
    BY <1>1, <1>3
  <2>2. PICK k \in Key : k = NextLimit(req[h])
    BY <2>1, LimitIsKey DEF NextLimit, Request
  <2>3. PICK c \in [count : Nat, expires : BOOLEAN] : c = counter[k]
    BY <1>1 DEF CountsOK
  <2>4. PICK d \in [count : Nat, expires : BOOLEAN] : d = Added(Count(k))
    BY <1>1, CountIsCounter DEF Counter
  <2>5. Counted(h, c) \/ Counted(h, d)
    BY <1>3, <2>2, <2>3, <2>4
  <2> QED
    BY <1>1, <1>3, <2>5, CountedStep
<1>4. CASE /\ pc[h] = "issue" /\ Saved(req[h]) /\ Answer(h)
           /\ UNCHANGED <<active, counter, tried, ended>>
  <2>1. /\ ControlOK' /\ pc'[h] = "idle"
        /\ \A g \in Handler \ {h} : pc'[g] = pc[g] /\ req'[g] = req[g]
    BY <1>1, <1>4, AnswerType DEF Answer, ControlOK
  <2> QED
    BY <1>1, <1>4, <2>1, IssueStep
<1>5. CASE /\ pc[h] \in {"consume", "logout"} /\ store' = store \ {req[h].token} /\ Answer(h)
           /\ UNCHANGED <<active, session, counter, tried, ended>>
  BY <1>1, <1>5, Answered DEF CountsOK
<1>6. CASE pc[h] # "idle" /\ Answer(h) /\ UNCHANGED <<active, redis>>
  BY <1>1, <1>6, Answered DEF CountsOK, redis
<1> QED
  BY <1>2, <1>3, <1>4, <1>5, <1>6 DEF Fault

LEMMA SessionInit == Init => SessionInv
<1> SUFFICES ASSUME Init PROVE SessionInv
  OBVIOUS
<1>1. TypeOK
  <2>1. active \in [Email -> Seq(BOOLEAN)]
    <3>1. <<>> \in Seq(BOOLEAN) /\ <<TRUE>> \in Seq(BOOLEAN)
      OBVIOUS
    <3> QED
      BY <3>1 DEF Init
  <2>2. session \in Seq([user : Email, turn : Nat \ {0}])
    BY EmptySeq DEF Init
  <2> QED
    BY <2>1, <2>2, SessionsAssumption DEF Init, TypeOK, NoCount, PC
<1>2. Len(session) = 0 /\ store = {} /\ ended = {} /\ \A h \in Handler : pc[h] = "idle"
  BY EmptySeq DEF Init
<1> QED
  BY <1>1, <1>2 DEF SessionInv, Issued, OneSession, EndedForGood, ActiveWhileItRan, RequestOK, Carries

LEMMA SessionStep == SessionInv /\ [Next]_vars => SessionInv'
<1> SUFFICES ASSUME SessionInv, [Next]_vars PROVE SessionInv'
  OBVIOUS
<1>1. TypeOK /\ ControlOK /\ RedisOK /\ CountsOK /\ faults \in 0 .. MaxFaults
  BY TypeParts DEF SessionInv
<1>2. ASSUME NEW h \in Handler, Enter(h) PROVE SessionInv'
  <2>1. PICK e \in Email, i \in Ip, kind \in {"login", "register"}, right \in BOOLEAN :
          Take(h, [kind |-> kind, ip |-> i, email |-> e, right |-> right, token |-> NoToken,
                   since |-> Len(active[e]), done |-> 0], "check")
    BY <1>2 DEF Enter
  <2>2. Len(active[e]) \in Nat
    BY <1>1, LenProperties DEF TypeOK
  <2>3. PICK r \in Request :
          /\ r = [kind |-> kind, ip |-> i, email |-> e, right |-> right, token |-> NoToken,
                  since |-> Len(active[e]), done |-> 0]
          /\ r.kind = kind /\ r.email = e /\ r.since = Len(active[e]) /\ r.done = 0
    BY <2>2, NewRequest
  <2>4. Take(h, r, "check")
    BY <2>1, <2>3
  <2> QED
    BY <2>3, <2>4, TakeStep DEF KindsAt
<1>3. ASSUME NEW h \in Handler, Present(h) PROVE SessionInv'
  <2>1. PICK i \in Ip, s \in 1 .. Len(session) :
          \E t \in 1 .. session[s].turn, kind \in {"refresh", "logout"} :
            Take(h, [kind |-> kind, ip |-> i, email |-> session[s].user, right |-> TRUE,
                     token |-> <<s, t>>, since |-> Len(active[session[s].user]), done |-> 0],
                 IF kind = "refresh" THEN "consume" ELSE "logout")
    BY <1>3 DEF Present
  <2>2. PICK t \in 1 .. session[s].turn, kind \in {"refresh", "logout"} :
            Take(h, [kind |-> kind, ip |-> i, email |-> session[s].user, right |-> TRUE,
                     token |-> <<s, t>>, since |-> Len(active[session[s].user]), done |-> 0],
                 IF kind = "refresh" THEN "consume" ELSE "logout")
    BY <2>1
  <2>3. session[s].user \in Email /\ session[s].turn \in Nat /\ s \in Nat \ {0}
    <3>1. session[s] \in [user : Email, turn : Nat \ {0}]
      BY <1>1, ElementOfSeq DEF RedisOK
    <3>2. Len(session) \in Nat
      BY <1>1, LenProperties DEF RedisOK
    <3> QED
      BY <3>1, <3>2
  <2>4. PICK e \in Email : e = session[s].user
    BY <2>3
  <2>5. Len(active[e]) \in Nat /\ <<s, t>> \in Token
    BY <1>1, <2>3, LenProperties DEF TypeOK, Token
  <2>6. PICK r \in Request :
          /\ r = [kind |-> kind, ip |-> i, email |-> e, right |-> TRUE, token |-> <<s, t>>,
                  since |-> Len(active[e]), done |-> 0]
          /\ r.kind = kind /\ r.email = e /\ r.since = Len(active[e]) /\ r.token = <<s, t>>
    <3>1. PICK u \in Token \cup {NoToken}, n \in Nat, b \in BOOLEAN :
            u = <<s, t>> /\ n = Len(active[e]) /\ b = TRUE
      BY <2>5
    <3>2. kind \in {"login", "register", "refresh", "logout"}
      OBVIOUS
    <3>3. \E r \in Request :
           /\ r = [kind |-> kind, ip |-> i, email |-> e, right |-> b, token |-> u,
                   since |-> n, done |-> 0]
           /\ r.kind = kind /\ r.email = e /\ r.token = u /\ r.since = n /\ r.done = 0
      BY <3>2, NewRequest
    <3> QED
      BY <3>1, <3>3
  <2>7. PICK place \in {"consume", "logout"} :
          place = IF kind = "refresh" THEN "consume" ELSE "logout"
    OBVIOUS
  <2>8. Take(h, r, place)
    BY <2>2, <2>4, <2>6, <2>7
  <2> QED
    BY <2>6, <2>7, <2>8, TakeStep DEF KindsAt
<1>4. ASSUME NEW h \in Handler, Check(h) PROVE SessionInv'
  <2>1. PICK b \in BOOLEAN : b = Over(NextLimit(req[h]))
    BY DEF Over
  <2> QED
    BY <1>1, <1>4, <2>1, CheckedStep DEF Check
<1>5. ASSUME NEW h \in Handler, AddAttempt(h) PROVE SessionInv'
  <2>1. pc[h] = "count" /\ req[h] \in Request
    BY <1>1, <1>5 DEF AddAttempt, ControlOK
  <2>2. PICK r \in Request : r = req[h]
    BY <2>1
  <2>3. PICK k \in Key : k = NextLimit(req[h])
    BY <2>2, LimitIsKey DEF NextLimit, Request
  <2>4. PICK c \in [count : Nat, expires : BOOLEAN] : c = Count(k)
    BY <1>1, CountIsCounter DEF Counter
  <2> QED
    BY <1>1, <1>5, <2>3, <2>4, CountedStep DEF AddAttempt
<1>6. ASSUME NEW h \in Handler, Verify(h) PROVE SessionInv'
  <2>1. pc[h] = "verify" /\ req[h] \in Request /\ req[h].kind = "login"
    BY <1>6, InFlight DEF Verify, KindsAt
  <2>2. PICK r \in Request : r = req[h]
    BY <2>1
  <2>3. CASE GoOn(h, "count", 0) /\ tried' = Try(r) /\ faults' = faults
    <3>1. UNCHANGED <<active, session, ended, store>> /\ counter' = counter
      BY <1>6 DEF Verify
    <3>2. CountsOK'
      BY <1>1, <2>3, <3>1 DEF CountsOK, Try
    <3>3. /\ 0 \in 0 .. 2 /\ "count" \in PC /\ "count" \notin {"status", "issue"}
          /\ r.kind \in KindsAt("count") /\ 0 < Limits(r)
      BY <2>1, <2>2 DEF PC, KindsAt, Limits
    <3> QED
      BY <1>1, <2>1, <2>2, <2>3, <3>1, <3>2, <3>3, GoesOn
  <2>4. CASE Finish(h) /\ tried' = tried
    <3>1. UNCHANGED <<active, session, ended, store>> /\ counter' = counter
      BY <1>6 DEF Verify
    <3> QED
      BY <1>1, <2>4, <3>1, Answered DEF Finish, CountsOK
  <2>5. CASE GoTo(h, "issue") /\ IsActive(req[h].email) /\ tried' = tried
    <3>1. UNCHANGED <<active, redis>>
      BY <1>6, <2>5 DEF Verify, redis
    <3> QED
      BY <2>1, <2>5, <3>1, ToIssue
  <2> QED
    BY <1>6, <2>2, <2>3, <2>4, <2>5 DEF Verify
<1>7. ASSUME NEW h \in Handler, Reset(h) PROVE SessionInv'
  <2>1. CountsOK'
    <3>1. req[h] \in Request
      BY <1>1, <1>7 DEF Reset, ControlOK
    <3>2. PICK r \in Request : r = req[h]
      BY <3>1
    <3>3. <<"login:email", r.email>> \in Key
      BY DEF Key, Request
    <3> QED
      BY <1>1, <1>7, <3>2, <3>3 DEF Reset, CountsOK, NoCount
  <2> QED
    BY <1>1, <1>7, <2>1, Answered DEF Reset, Finish
<1>8. ASSUME NEW h \in Handler, Create(h) PROVE SessionInv'
  <2>1. /\ req[h].email \in Email /\ pc[h] = "create" /\ Answer(h) /\ faults' = faults
        /\ UNCHANGED redis
    BY <1>8, InFlight DEF Create, Finish
  <2>2. CASE active' = active
    BY <1>1, <2>1, <2>2, Answered DEF redis, CountsOK
  <2>3. CASE ~Exists(req[h].email) /\ active' = [active EXCEPT ![req[h].email] = <<TRUE>>]
    <3>1. PICK e \in Email : e = req[h].email
      BY <2>1
    <3>0. Append(<<>>, TRUE) = <<TRUE>>
      OBVIOUS
    <3>2. active' = [active EXCEPT ![e] = Append(active[e], TRUE)]
      BY <2>3, <3>0, <3>1 DEF Exists
    <3>3. active' \in [Email -> Seq(BOOLEAN)]
      <4>1. Append(active[e], TRUE) \in Seq(BOOLEAN)
        BY <1>1, AppendProperties DEF TypeOK
      <4> QED
        BY <1>1, <3>2, <4>1 DEF TypeOK
    <3>4. /\ ControlOK' /\ pc'[h] = "idle"
          /\ \A g \in Handler \ {h} : pc'[g] = pc[g] /\ req'[g] = req[g]
      BY <1>1, <2>1, AnswerType DEF Answer, ControlOK
    <3>5. TypeOK'
      BY <1>1, <2>1, <3>3, <3>4 DEF TypeOK, ControlOK, redis
    <3> QED
      BY <2>1, <3>2, <3>4, <3>5, NewStatus
  <2> QED
    BY <1>8, <2>2, <2>3 DEF Create
<1>9. ASSUME NEW h \in Handler, Consume(h) PROVE SessionInv'
  <2>1. CASE req[h].token \in store /\ GoTo(h, "status")
    BY <1>9, <2>1, Consumed DEF Consume, GoTo
  <2>2. CASE Finish(h)
    BY <1>1, <1>9, <2>2, Answered DEF Consume, Finish, CountsOK
  <2> QED
    BY <1>9, <2>1, <2>2 DEF Consume
<1>10. ASSUME NEW h \in Handler, CheckStatus(h) PROVE SessionInv'
  <2>1. CASE IsActive(req[h].email) /\ GoTo(h, "issue")
    BY <1>10, <2>1, ToIssue DEF CheckStatus
  <2>2. CASE Finish(h)
    BY <1>1, <1>10, <2>2, Answered DEF CheckStatus, Finish, CountsOK, redis
  <2> QED
    BY <1>10, <2>1, <2>2 DEF CheckStatus
<1>11. ASSUME NEW h \in Handler, Issue(h) PROVE SessionInv'
  <2>1. pc[h] = "issue" /\ Saved(req[h]) /\ UNCHANGED <<active, counter, tried, ended>>
    BY <1>11 DEF Issue
  <2>2. CASE req[h].kind = "login" /\ GoTo(h, "reset")
    <3>1. /\ ControlOK' /\ pc'[h] = "reset" /\ req' = req /\ faults' = faults
          /\ \A g \in Handler \ {h} : pc'[g] = pc[g]
      BY <1>1, <2>1, <2>2, GoToType DEF GoTo, PC, ControlOK
    <3> QED
      BY <1>1, <2>1, <2>2, <3>1, IssueStep
  <2>3. CASE Finish(h)
    <3>1. /\ ControlOK' /\ pc'[h] = "idle" /\ faults' = faults
          /\ \A g \in Handler \ {h} : pc'[g] = pc[g] /\ req'[g] = req[g]
      BY <1>1, <2>3, AnswerType DEF Finish, Answer, ControlOK
    <3> QED
      BY <1>1, <2>1, <3>1, IssueStep
  <2> QED
    BY <1>11, <2>2, <2>3 DEF Issue
<1>12. ASSUME NEW h \in Handler, Logout(h) PROVE SessionInv'
  BY <1>12, LogoutStep
<1>13. ASSUME NEW h \in Handler, Fault(h) PROVE SessionInv'
  BY <1>13, FaultStep
<1>14. ASSUME NEW k \in Key, WindowEnds(k) PROVE SessionInv'
  BY <1>1, <1>14, RunOut DEF WindowEnds, CountsOK, NoCount
<1>15. ASSUME NEW e \in Email, ChangeStatus(e) PROVE SessionInv'
  <2>1. PICK b \in BOOLEAN : b = ~IsActive(e)
    OBVIOUS
  <2>2. active' = [active EXCEPT ![e] = Append(active[e], b)] /\ UNCHANGED <<redis, control>>
    BY <1>15, <2>1 DEF ChangeStatus
  <2>3. Append(active[e], b) \in Seq(BOOLEAN)
    BY <1>1, AppendProperties DEF TypeOK
  <2>4. TypeOK'
    BY <1>1, <2>2, <2>3 DEF TypeOK, redis, control
  <2> DEFINE H == {}
  <2>5. /\ H \in SUBSET Handler /\ \A h \in H : pc'[h] = "idle"
        /\ \A g \in Handler \ H : pc'[g] = pc[g] /\ req'[g] = req[g]
    BY <2>2 DEF control
  <2> HIDE DEF H
  <2> QED
    BY <2>2, <2>4, <2>5, NewStatus
<1>16. ASSUME TokenExpires PROVE SessionInv'
  BY <1>1, <1>16, RunOut DEF TokenExpires, CountsOK
<1>17. ASSUME UNCHANGED vars PROVE SessionInv'
  BY <1>1, <1>17, RunOut DEF vars, control, CountsOK
<1> QED
  BY <1>2, <1>3, <1>4, <1>5, <1>6, <1>7, <1>8, <1>9, <1>10, <1>11, <1>12, <1>13, <1>14,
     <1>15, <1>16, <1>17 DEF Next

-----------------------------------------------------------------------------
(* The throttle: what a request has left                                   *)

\* Before its first limit a request has all of them left.
LEMMA AllLeft ==
  ASSUME NEW r \in Request, r.done = 0, NEW k \in Key
  PROVE  IsLeft(r, k) = HasLimit(r, k)
BY DEF IsLeft, HasLimit

\* What is left is the next limit, or is left after it.
LEMMA NextLeft ==
  ASSUME NEW r \in Request, NEW k \in Key, IsLeft(r, k), k # NextLimit(r)
  PROVE  /\ r.done + 1 < Limits(r)
         /\ \A q \in Request : SameBut(r, q) /\ q.done = r.done + 1 => IsLeft(q, k)
<1>1. r.done \in Nat /\ Limits(r) \in Nat
  BY LimitIsKey DEF Request
<1>2. PICK n \in r.done + 1 .. Limits(r) : Limit(r, n) = k
  BY DEF IsLeft
<1>3. n # r.done + 1
  BY <1>2 DEF NextLimit
<1>4. n \in r.done + 1 + 1 .. Limits(r)
  BY <1>1, <1>2, <1>3
<1>5. r.done + 1 < Limits(r)
  BY <1>1, <1>4
<1>6. ASSUME NEW q \in Request, SameBut(r, q), q.done = r.done + 1
      PROVE  IsLeft(q, k)
  <2>1. Limits(q) = Limits(r) /\ Limit(q, n) = Limit(r, n)
    BY <1>6 DEF SameBut, Limits, Limit
  <2> QED
    BY <1>2, <1>4, <1>6, <2>1 DEF IsLeft
<1> QED
  BY <1>5, <1>6

\* What is left is a limit of the request.
LEMMA LeftIsLimit ==
  ASSUME NEW r \in Request, NEW k \in Key
  PROVE  /\ IsLeft(r, k) \in BOOLEAN /\ HasLimit(r, k) \in BOOLEAN
         /\ IsLeft(r, k) => HasLimit(r, k)
         /\ \A q \in Request : SameBut(r, q) => HasLimit(q, k) = HasLimit(r, k)
<1>1. r.done \in Nat /\ Limits(r) \in Nat
  BY LimitIsKey DEF Request
<1>2. IsLeft(r, k) => HasLimit(r, k)
  BY <1>1 DEF IsLeft, HasLimit
<1>3. ASSUME NEW q \in Request, SameBut(r, q) PROVE HasLimit(q, k) = HasLimit(r, k)
  BY <1>3 DEF SameBut, Limits, Limit, HasLimit
<1> QED
  BY <1>2, <1>3 DEF IsLeft, HasLimit

-----------------------------------------------------------------------------
(* The throttle: counting                                                  *)

One(b) == IF b THEN 1 ELSE 0

\* A set with one member set apart.
LEMMA Apart ==
  ASSUME NEW S, IsFiniteSet(S), NEW h
  PROVE  /\ Cardinality(S \ {h}) \in Nat
         /\ Cardinality(S) = Cardinality(S \ {h}) + One(h \in S)
BY FS_RemoveElement, FS_CardinalityType DEF One

\* One handler moves: a others have passed limit k and b others owe it.
LEMMA Books ==
  ASSUME SessionInv, NEW h \in Handler, NEW k \in Key,
         \A g \in Handler \ {h} : pc'[g] = pc[g] /\ req'[g] = req[g]
  PROVE  \E a, b \in Nat :
           /\ Cardinality(Passed(k)) = a + One(Passes(h, k))
           /\ Cardinality(Owing(k)) = b + One(Owes(h, k))
           /\ Cardinality(Passed(k)') = a + One(Passes(h, k)')
           /\ Cardinality(Owing(k)') = b + One(Owes(h, k)')
           /\ Cardinality(Handler) \in Nat /\ a + b + 1 <= Cardinality(Handler)
<1> DEFINE P == Passed(k) \ {h}
           O == Owing(k) \ {h}
<1>1. /\ IsFiniteSet(Handler) /\ Passed(k) \in SUBSET Handler /\ Owing(k) \in SUBSET Handler
      /\ Passed(k)' \in SUBSET Handler /\ Owing(k)' \in SUBSET Handler
  BY SessionsAssumption DEF Passed, Owing
<1>2. /\ IsFiniteSet(Passed(k)) /\ IsFiniteSet(Owing(k))
      /\ IsFiniteSet(Passed(k)') /\ IsFiniteSet(Owing(k)')
  BY <1>1, FS_Subset
<1>3. Passed(k)' \ {h} = P /\ Owing(k)' \ {h} = O
  BY DEF Passed, Owing, Passes, Owes
<1>4. /\ Cardinality(P) \in Nat /\ Cardinality(O) \in Nat
      /\ Cardinality(Passed(k)) = Cardinality(P) + One(h \in Passed(k))
      /\ Cardinality(Owing(k)) = Cardinality(O) + One(h \in Owing(k))
      /\ Cardinality(Passed(k)') = Cardinality(P) + One(h \in Passed(k)')
      /\ Cardinality(Owing(k)') = Cardinality(O) + One(h \in Owing(k)')
  BY <1>2, <1>3, Apart
<1>5. /\ One(h \in Passed(k)) = One(Passes(h, k)) /\ One(h \in Owing(k)) = One(Owes(h, k))
      /\ One(h \in Passed(k)') = One(Passes(h, k)') /\ One(h \in Owing(k)') = One(Owes(h, k)')
  BY DEF One, Passed, Owing
<1>6. Cardinality(P) + Cardinality(O) + 1 <= Cardinality(Handler) /\ Cardinality(Handler) \in Nat
  <2>1. P \cap O = {} /\ P \cup O \in SUBSET (Handler \ {h})
    BY DEF Passed, Owing, Passes, Owes
  <2>2. IsFiniteSet(P) /\ IsFiniteSet(O)
    BY <1>2, FS_RemoveElement
  <2>3. IsFiniteSet(Handler \ {h}) /\ Cardinality(Handler) = Cardinality(Handler \ {h}) + 1
    BY <1>1, Apart, FS_RemoveElement DEF One
  <2>4. Cardinality(P \cup O) = Cardinality(P) + Cardinality(O)
    <3>1. Cardinality(P \cup O) = Cardinality(P) + Cardinality(O) - Cardinality(P \cap O)
      BY <2>2, FS_Union
    <3>2. Cardinality(P \cap O) = 0
      BY <2>1, FS_EmptySet
    <3> QED
      BY <1>4, <3>1, <3>2
  <2>5. Cardinality(P \cup O) <= Cardinality(Handler \ {h})
    BY <2>1, <2>3, FS_Subset
  <2>6. Cardinality(Handler \ {h}) \in Nat
    BY <2>3, FS_CardinalityType
  <2> QED
    BY <1>4, <2>3, <2>4, <2>5, <2>6
<1> HIDE DEF P, O
<1> QED
  BY <1>4, <1>5, <1>6

\* The step of handler h keeps k's books.
LEMMA Balances ==
  ASSUME SessionInv, ThrottleInv, SessionInv', NEW h \in Handler, NEW k \in Key, MaxOf(k) > 0,
         \A g \in Handler \ {h} : pc'[g] = pc[g] /\ req'[g] = req[g],
         tried'[k] + counter[k].count + faults + One(Owes(h, k))
           <= tried[k] + counter'[k].count + faults' + One(Owes(h, k)'),
         \/ tried'[k] + One(Passes(h, k)') + faults <= tried[k] + One(Passes(h, k)) + faults'
         \/ /\ counter[k].count < MaxOf(k) /\ ~Owes(h, k) /\ faults <= faults'
            /\ tried'[k] + One(Passes(h, k)') <= tried[k] + 1
  PROVE  Balanced(k)'
<1>1. PICK a \in Nat, b \in Nat :
           /\ Cardinality(Passed(k)) = a + One(Passes(h, k))
           /\ Cardinality(Owing(k)) = b + One(Owes(h, k))
           /\ Cardinality(Passed(k)') = a + One(Passes(h, k)')
           /\ Cardinality(Owing(k)') = b + One(Owes(h, k)')
           /\ Cardinality(Handler) \in Nat /\ a + b + 1 <= Cardinality(Handler)
  <2>1. \E a, b \in Nat :
           /\ Cardinality(Passed(k)) = a + One(Passes(h, k))
           /\ Cardinality(Owing(k)) = b + One(Owes(h, k))
           /\ Cardinality(Passed(k)') = a + One(Passes(h, k)')
           /\ Cardinality(Owing(k)') = b + One(Owes(h, k)')
           /\ Cardinality(Handler) \in Nat /\ a + b + 1 <= Cardinality(Handler)
    BY Books
  <2> QED
    BY <2>1
<1>2. PICK p \in 0 .. 1, o \in 0 .. 1, p2 \in 0 .. 1, o2 \in 0 .. 1 :
        /\ p = One(Passes(h, k)) /\ p2 = One(Passes(h, k)')
        /\ o = One(Owes(h, k)) /\ o2 = One(Owes(h, k)')
        /\ ~Owes(h, k) => o = 0
  BY DEF One
<1>3. PICK t \in Nat, t2 \in Nat, c \in Nat, c2 \in Nat, f \in Nat, f2 \in Nat, m \in Nat \ {0} :
        /\ t = tried[k] /\ t2 = tried'[k] /\ f = faults /\ f2 = faults' /\ m = MaxOf(k)
        /\ c = counter[k].count /\ c2 = counter'[k].count
  <2>1. /\ tried[k] \in Nat /\ tried'[k] \in Nat /\ faults \in Nat /\ faults' \in Nat
        /\ counter[k] \in [count : Nat, expires : BOOLEAN]
        /\ counter'[k] \in [count : Nat, expires : BOOLEAN]
    BY SessionsAssumption DEF SessionInv, TypeOK
  <2>2. MaxOf(k) \in Nat \ {0}
    BY SessionsAssumption DEF MaxOf
  <2>3. counter[k].count \in Nat /\ counter'[k].count \in Nat
    BY <2>1
  <2> QED
    BY <2>1, <2>2, <2>3
<1>4. /\ t <= c + f + (b + o)
      /\ t + (a + p) <= m - 1 + Cardinality(Handler) + f
  BY <1>1, <1>2, <1>3 DEF ThrottleInv, Balanced
<1>5. t2 + c + f + o <= t + c2 + f2 + o2
  BY <1>2, <1>3
<1>6. \/ t2 + p2 + f <= t + p + f2
      \/ c < m /\ o = 0 /\ f <= f2 /\ t2 + p2 <= t + 1
  BY <1>2, <1>3
<1>7. t2 <= c2 + f2 + (b + o2)
  BY <1>4, <1>5
<1>8. t2 + (a + p2) <= m - 1 + Cardinality(Handler) + f2
  BY <1>1, <1>4, <1>6
<1> QED
  BY <1>1, <1>2, <1>3, <1>7, <1>8 DEF Balanced

\* Nothing is tried or counted, and h has not passed what it did not pass.
LEMMA NoCounting ==
  ASSUME SessionInv, ThrottleInv, SessionInv', NEW h \in Handler,
         \A g \in Handler \ {h} : pc'[g] = pc[g] /\ req'[g] = req[g],
         counter' = counter, tried' = tried, faults' \in {faults, faults + 1},
         \A k \in Key : ~Passes(h, k)',
         faults' = faults => \A k \in Key : ~Owes(h, k)
  PROVE  ThrottleInv'
<1> SUFFICES ASSUME NEW k \in Key, MaxOf(k) > 0 PROVE Balanced(k)'
  BY DEF ThrottleInv, Balanced
<1>1. /\ One(Passes(h, k)') = 0 /\ One(Passes(h, k)) \in {0, 1}
      /\ One(Owes(h, k)) \in {0, 1} /\ One(Owes(h, k)') \in {0, 1}
      /\ faults' = faults => One(Owes(h, k)) = 0
  BY DEF One
<1>2. tried[k] \in Nat /\ faults \in Nat /\ counter[k].count \in Nat
  <2>1. counter[k] \in [count : Nat, expires : BOOLEAN]
    BY DEF SessionInv, TypeOK
  <2> QED
    BY <2>1, SessionsAssumption DEF SessionInv, TypeOK
<1>3. tried[k] + counter[k].count + faults + One(Owes(h, k))
        <= tried[k] + counter[k].count + faults' + One(Owes(h, k)')
  BY <1>1, <1>2
<1>4. tried[k] + One(Passes(h, k)') + faults <= tried[k] + One(Passes(h, k)) + faults'
  BY <1>1, <1>2
<1> QED
  BY <1>3, <1>4, Balances

\* A window that begins has room for everybody.
LEMMA Fresh ==
  ASSUME SessionInv', NEW k \in Key, tried'[k] = 0
  PROVE  Balanced(k)'
<1>1. /\ Passed(k)' \in SUBSET Handler /\ Owing(k)' \in SUBSET Handler /\ IsFiniteSet(Handler)
  BY SessionsAssumption DEF Passed, Owing
<1>2. /\ Cardinality(Passed(k)') <= Cardinality(Handler) /\ Cardinality(Handler) \in Nat
      /\ Cardinality(Passed(k)') \in Nat /\ Cardinality(Owing(k)') \in Nat
  BY <1>1, FS_Subset, FS_CardinalityType
<1>3. faults' \in Nat /\ counter'[k].count \in Nat /\ MaxOf(k) \in Int
  <2>1. counter'[k] \in [count : Nat, expires : BOOLEAN]
    BY DEF SessionInv, TypeOK
  <2> QED
    BY <2>1, SessionsAssumption DEF SessionInv, TypeOK, MaxOf
<1> QED
  BY <1>2, <1>3 DEF Balanced

\* Nobody moves, and nothing of k.
LEMMA Still ==
  ASSUME ThrottleInv, NEW k \in Key, pc' = pc, req' = req, faults' = faults,
         counter'[k] = counter[k], tried'[k] = tried[k]
  PROVE  Balanced(k)'
<1>1. Passed(k)' = Passed(k) /\ Owing(k)' = Owing(k)
  BY DEF Passed, Owing, Passes, Owes
<1> QED
  BY <1>1 DEF ThrottleInv, Balanced

LEMMA AnsweredBalance ==
  ASSUME SessionInv, ThrottleInv, SessionInv', NEW h \in Handler, Answer(h),
         counter' = counter, tried' = tried, faults' \in {faults, faults + 1},
         pc[h] # "count" \/ faults' = faults + 1
  PROVE  ThrottleInv'
<1>1. /\ pc'[h] = "idle"
      /\ \A g \in Handler \ {h} : pc'[g] = pc[g] /\ req'[g] = req[g]
  BY DEF Answer, SessionInv, TypeOK
<1>2. faults \in Nat
  BY SessionsAssumption DEF SessionInv, TypeOK
<1> QED
  BY <1>1, <1>2, NoCounting DEF Passes, Owes

\* A wrong password: what the request has passed it owes.
LEMMA WrongBalance ==
  ASSUME SessionInv, ThrottleInv, SessionInv', NEW h \in Handler, pc[h] = "verify",
         GoOn(h, "count", 0), tried' = Try(req[h]), counter' = counter, faults' = faults
  PROVE  ThrottleInv'
<1>1. ControlOK /\ tried \in [Key -> Nat] /\ req[h] \in Request /\ faults \in Nat
  <2>1. TypeOK /\ ControlOK
    BY TypeParts DEF SessionInv
  <2> QED
    BY <2>1, SessionsAssumption DEF TypeOK
<1>2. /\ pc'[h] = "count" /\ req'[h] \in Request /\ req'[h].done = 0 /\ SameBut(req[h], req'[h])
      /\ \A g \in Handler \ {h} : pc'[g] = pc[g] /\ req'[g] = req[g]
  <2>1. 0 \in 0 .. 2 /\ "count" \in PC
    BY DEF PC
  <2> QED
    BY <1>1, <2>1, GoOnType
<1>3. PICK r \in Request, q \in Request : r = req[h] /\ q = req'[h]
  BY <1>1, <1>2
<1> SUFFICES ASSUME NEW k \in Key, MaxOf(k) > 0 PROVE Balanced(k)'
  BY DEF ThrottleInv, Balanced
<1>4. IsLeft(q, k) = HasLimit(r, k) /\ HasLimit(r, k) \in BOOLEAN
  BY <1>2, <1>3, AllLeft, LeftIsLimit
<1>5. /\ One(Passes(h, k)) = One(HasLimit(r, k)) /\ One(Passes(h, k)') = 0
      /\ One(Owes(h, k)) = 0 /\ One(Owes(h, k)') = One(HasLimit(r, k))
      /\ tried'[k] = tried[k] + One(HasLimit(r, k)) /\ One(HasLimit(r, k)) \in {0, 1}
  BY <1>1, <1>2, <1>3, <1>4 DEF One, Passes, Owes, Try
<1>6. tried[k] \in Nat /\ counter[k].count \in Nat
  <2>1. counter[k] \in [count : Nat, expires : BOOLEAN]
    BY DEF SessionInv, TypeOK
  <2> QED
    BY <1>1, <2>1
<1>7. tried'[k] + counter[k].count + faults + One(Owes(h, k))
        <= tried[k] + counter[k].count + faults + One(Owes(h, k)')
  BY <1>1, <1>5, <1>6
<1>8. tried'[k] + One(Passes(h, k)') + faults <= tried[k] + One(Passes(h, k)) + faults
  BY <1>1, <1>5, <1>6
<1> QED
  BY <1>2, <1>7, <1>8, Balances

\* Passing a limit, or a registration's attempt: the limit had room for it,
\* or the call that looked has failed.
LEMMA CheckedBalance ==
  ASSUME SessionInv, ThrottleInv, SessionInv', NEW h \in Handler, pc[h] \in {"check", "over"},
         NEW isOver \in BOOLEAN, Checked(h, isOver), counter' = counter,
         faults' \in {faults, faults + 1},
         isOver = Over(NextLimit(req[h])) \/ faults' = faults + 1
  PROVE  ThrottleInv'
<1>1. /\ ControlOK /\ tried \in [Key -> Nat] /\ req[h] \in Request /\ faults \in Nat
  <2>1. TypeOK /\ ControlOK
    BY TypeParts DEF SessionInv
  <2> QED
    BY <2>1, SessionsAssumption DEF TypeOK
<1>2. PICK r \in Request : r = req[h]
  BY <1>1
<1>3. r.done + 1 < Limits(r) => r.done + 1 \in 0 .. 2
  BY LimitIsKey DEF Request
<1>4. PICK place \in {"check", "over"} : place = IF isOver THEN "over" ELSE pc[h]
  OBVIOUS
<1>5. \A g \in Handler \ {h} : pc'[g] = pc[g] /\ req'[g] = req[g]
  BY CheckedType
<1> SUFFICES ASSUME NEW k \in Key, MaxOf(k) > 0 PROVE Balanced(k)'
  BY DEF ThrottleInv, Balanced
<1>6. tried[k] \in Nat /\ counter[k].count \in Nat /\ MaxOf(k) \in Int
  <2>1. counter[k] \in [count : Nat, expires : BOOLEAN]
    BY DEF SessionInv, TypeOK
  <2> QED
    BY <1>1, <2>1, SessionsAssumption DEF MaxOf
<1>7. /\ One(Owes(h, k)) = 0 /\ ~Owes(h, k)
      /\ One(Passes(h, k)) \in {0, 1} /\ One(Passes(h, k)') \in {0, 1}
      /\ One(Owes(h, k)') \in {0, 1} /\ One(HasLimit(r, k)) \in {0, 1}
      /\ place = "check" => One(Passes(h, k)) = One(HasLimit(r, k) /\ ~IsLeft(r, k))
  BY <1>2, <1>4 DEF Owes, Passes, One
<1> DEFINE Known == /\ tried'[k] \in Nat
                    /\ tried'[k] <= tried[k] + One(Owes(h, k)')
                    /\ \/ tried'[k] + One(Passes(h, k)') <= tried[k] + One(Passes(h, k))
                       \/ /\ k = NextLimit(r) /\ place = "check"
                          /\ tried'[k] + One(Passes(h, k)') <= tried[k] + 1
<1>8. ASSUME r.done + 1 < Limits(r) /\ GoOn(h, place, r.done + 1) /\ tried' = tried
      PROVE  Known
  <2>1. r.done + 1 \in 0 .. 2 /\ place \in PC
    BY <1>3, <1>8 DEF PC
  <2>2. /\ pc'[h] = place /\ req'[h] \in Request /\ req'[h].done = r.done + 1
        /\ SameBut(req[h], req'[h])
    BY <1>1, <1>8, <2>1, GoOnType
  <2>3. PICK q \in Request : q = req'[h]
    BY <2>2
  <2>4. HasLimit(q, k) = HasLimit(r, k)
    BY <1>2, <2>2, <2>3, LeftIsLimit
  <2>5. IsLeft(r, k) /\ k # NextLimit(r) => IsLeft(q, k)
    BY <1>2, <2>2, <2>3, NextLeft
  <2>6. One(Passes(h, k)') = One(place = "check" /\ HasLimit(q, k) /\ ~IsLeft(q, k))
    BY <2>2, <2>3 DEF Passes, One
  <2>7. One(Passes(h, k)') <= One(Passes(h, k)) \/ (k = NextLimit(r) /\ place = "check")
    BY <1>7, <2>4, <2>5, <2>6 DEF One
  <2> QED
    BY <1>6, <1>7, <1>8, <2>7
<1>9. ASSUME Answer(h) /\ tried' = tried
      PROVE  Known
  <2>1. One(Passes(h, k)') = 0
    BY <1>1, <1>9 DEF Answer, Passes, One, ControlOK
  <2> QED
    BY <1>6, <1>7, <1>9, <2>1
<1>10. ASSUME /\ ~(r.done + 1 < Limits(r)) /\ place = "check"
              /\ \/ GoOn(h, "verify", 0) /\ tried' = tried
                 \/ GoOn(h, "count", 0) /\ tried' = Try(r)
       PROVE  Known
  <2>1. IsLeft(r, k) => k = NextLimit(r)
    BY <1>10, NextLeft
  <2>2. 0 \in 0 .. 2 /\ "verify" \in PC /\ "count" \in PC
    BY DEF PC
  <2>3. /\ pc'[h] \in {"verify", "count"}
        /\ req'[h] \in Request /\ req'[h].done = 0 /\ SameBut(req[h], req'[h])
        /\ pc'[h] = "verify" => tried' = tried
        /\ pc'[h] = "count" => tried' = Try(r)
    BY <1>1, <1>10, <2>2, GoOnType
  <2>4. PICK q \in Request : q = req'[h]
    BY <2>3
  <2>5. HasLimit(q, k) = HasLimit(r, k) /\ IsLeft(q, k) = HasLimit(q, k)
    BY <1>2, <2>3, <2>4, LeftIsLimit, AllLeft
  <2>6. /\ One(Passes(h, k)') = One(pc'[h] = "verify" /\ HasLimit(r, k))
        /\ One(Owes(h, k)') = One(pc'[h] = "count" /\ HasLimit(r, k))
    BY <2>3, <2>4, <2>5 DEF Passes, Owes, One
  <2>7. tried'[k] = tried[k] + One(pc'[h] = "count" /\ HasLimit(r, k))
    BY <1>1, <1>6, <2>3 DEF Try, One
  <2>8. One(pc'[h] = "verify" /\ HasLimit(r, k)) + One(pc'[h] = "count" /\ HasLimit(r, k))
          = One(HasLimit(r, k))
    BY <2>3 DEF One
  <2>9. One(HasLimit(r, k)) <= One(Passes(h, k)) \/ k = NextLimit(r)
    BY <1>7, <1>10, <2>1 DEF One
  <2> QED
    BY <1>6, <1>7, <1>10, <2>6, <2>7, <2>8, <2>9 DEF One
<1>11. Known
  <2>1. \/ r.done + 1 < Limits(r) /\ GoOn(h, place, r.done + 1) /\ tried' = tried
        \/ Answer(h) /\ tried' = tried
        \/ /\ ~(r.done + 1 < Limits(r)) /\ place = "check"
           /\ \/ GoOn(h, "verify", 0) /\ tried' = tried
              \/ GoOn(h, "count", 0) /\ tried' = Try(r)
    BY <1>2, <1>4 DEF Checked
  <2> QED
    BY <1>8, <1>9, <1>10, <2>1
<1> HIDE DEF Known
<1>12. tried'[k] + counter[k].count + faults + One(Owes(h, k))
         <= tried[k] + counter'[k].count + faults' + One(Owes(h, k)')
  BY <1>1, <1>6, <1>7, <1>11 DEF Known
<1>13. \/ tried'[k] + One(Passes(h, k)') + faults <= tried[k] + One(Passes(h, k)) + faults'
       \/ /\ counter[k].count < MaxOf(k) /\ ~Owes(h, k) /\ faults <= faults'
          /\ tried'[k] + One(Passes(h, k)') <= tried[k] + 1
  <2>1. CASE tried'[k] + One(Passes(h, k)') <= tried[k] + One(Passes(h, k))
    BY <1>1, <1>6, <1>7, <1>11, <2>1 DEF Known
  <2>2. CASE faults' = faults + 1
    BY <1>1, <1>6, <1>7, <1>11, <2>2 DEF Known
  <2>3. CASE /\ k = NextLimit(r) /\ place = "check" /\ faults' = faults
             /\ tried'[k] + One(Passes(h, k)') <= tried[k] + 1
    <3>1. ~Over(k)
      BY <1>1, <1>2, <1>4, <2>3
    <3>2. counter[k].count < MaxOf(k)
      BY <1>6, <3>1 DEF Over
    <3> QED
      BY <1>1, <1>7, <2>3, <3>2
  <2> QED
    BY <1>11, <2>1, <2>2, <2>3 DEF Known
<1> QED
  BY <1>5, <1>12, <1>13, Balances

\* Counting at one limit: the count grows, if the call has not failed.
LEMMA CountedBalance ==
  ASSUME SessionInv, ThrottleInv, SessionInv', NEW h \in Handler, pc[h] = "count",
         NEW c \in [count : Nat, expires : BOOLEAN], Counted(h, c), tried' = tried,
         faults' \in {faults, faults + 1},
         counter[NextLimit(req[h])].count <= c.count,
         \/ faults' = faults + 1
         \/ MaxOf(NextLimit(req[h])) > 0 => counter[NextLimit(req[h])].count + 1 <= c.count
  PROVE  ThrottleInv'
<1>1. /\ ControlOK /\ tried \in [Key -> Nat] /\ req[h] \in Request /\ faults \in Nat
      /\ counter \in [Key -> [count : Nat, expires : BOOLEAN]]
  <2>1. TypeOK /\ ControlOK
    BY TypeParts DEF SessionInv
  <2> QED
    BY <2>1, SessionsAssumption DEF TypeOK
<1>2. PICK r \in Request : r = req[h]
  BY <1>1
<1>3. r.done + 1 < Limits(r) => r.done + 1 \in 0 .. 2
  BY LimitIsKey DEF Request
<1>4. \/ r.done + 1 < Limits(r) /\ GoOn(h, "count", r.done + 1)
      \/ ~(r.done + 1 < Limits(r)) /\ (Answer(h) \/ GoOn(h, "create", 0))
  BY <1>2 DEF Counted
<1>5. 0 \in 0 .. 2 /\ "count" \in PC /\ "create" \in PC
  BY DEF PC
<1> SUFFICES ASSUME NEW k \in Key, MaxOf(k) > 0 PROVE Balanced(k)'
  BY DEF ThrottleInv, Balanced
<1> DEFINE Known == /\ \A g \in Handler \ {h} : pc'[g] = pc[g] /\ req'[g] = req[g]
                    /\ pc'[h] \notin {"check", "verify"}
                    /\ Owes(h, k) /\ k # NextLimit(r) => Owes(h, k)'
<1>6. ASSUME r.done + 1 < Limits(r), GoOn(h, "count", r.done + 1)
      PROVE  Known
  <2>1. /\ pc'[h] = "count" /\ req'[h] \in Request /\ req'[h].done = r.done + 1
        /\ SameBut(req[h], req'[h])
        /\ \A g \in Handler \ {h} : pc'[g] = pc[g] /\ req'[g] = req[g]
    BY <1>1, <1>3, <1>5, <1>6, GoOnType
  <2>2. PICK q \in Request : q = req'[h]
    BY <2>1
  <2>3. IsLeft(r, k) /\ k # NextLimit(r) => IsLeft(q, k)
    BY <1>2, <2>1, <2>2, NextLeft
  <2> QED
    BY <1>2, <2>1, <2>2, <2>3 DEF Owes
<1>7. ASSUME ~(r.done + 1 < Limits(r)), Answer(h) \/ GoOn(h, "create", 0)
      PROVE  Known
  <2>1. ~IsLeft(r, k) \/ k = NextLimit(r)
    BY <1>7, NextLeft
  <2>2. /\ pc'[h] \in {"idle", "create"}
        /\ \A g \in Handler \ {h} : pc'[g] = pc[g] /\ req'[g] = req[g]
    BY <1>1, <1>5, <1>7, GoOnType, AnswerType DEF Answer, ControlOK
  <2> QED
    BY <1>2, <2>1, <2>2 DEF Owes
<1>8. Known
  BY <1>4, <1>6, <1>7
<1>9. /\ One(Passes(h, k)) = 0 /\ One(Passes(h, k)') = 0
      /\ One(Owes(h, k)) \in {0, 1} /\ One(Owes(h, k)') \in {0, 1}
      /\ One(Owes(h, k)) <= One(Owes(h, k)') \/ k = NextLimit(r)
  BY <1>8 DEF Passes, One
<1> HIDE DEF Known
<1>10. NextLimit(r) \in Key
  BY LimitIsKey DEF NextLimit, Request
<1>11. counter' = [counter EXCEPT ![NextLimit(r)] = c]
  BY <1>2 DEF Counted
<1>12. PICK n \in Nat, m \in Nat :
         /\ n = counter[k].count /\ m = counter'[k].count /\ n <= m
         /\ k = NextLimit(r) => n + 1 <= m \/ faults' = faults + 1
  <2>1. counter[k] \in [count : Nat, expires : BOOLEAN] /\ c.count \in Nat
    BY <1>1
  <2>2. CASE k = NextLimit(r)
    BY <1>1, <1>2, <1>11, <2>1, <2>2
  <2>3. CASE k # NextLimit(r)
    BY <1>1, <1>11, <2>1, <2>3
  <2> QED
    BY <2>2, <2>3
<1>13. tried[k] \in Nat /\ tried'[k] = tried[k]
  BY <1>1
<1>14. tried'[k] + counter[k].count + faults + One(Owes(h, k))
         <= tried[k] + counter'[k].count + faults' + One(Owes(h, k)')
  BY <1>1, <1>9, <1>12, <1>13
<1>15. tried'[k] + One(Passes(h, k)') + faults <= tried[k] + One(Passes(h, k)) + faults'
  BY <1>1, <1>9, <1>13
<1>16. \A g \in Handler \ {h} : pc'[g] = pc[g] /\ req'[g] = req[g]
  BY <1>8 DEF Known
<1> QED
  BY <1>14, <1>15, <1>16, Balances

\* A login that succeeded forgets the email's attempts.
LEMMA ResetBalance ==
  ASSUME SessionInv, ThrottleInv, SessionInv', NEW h \in Handler, Reset(h)
  PROVE  ThrottleInv'
<1>1. /\ ControlOK /\ tried \in [Key -> Nat] /\ req[h] \in Request
      /\ counter \in [Key -> [count : Nat, expires : BOOLEAN]]
      /\ pc[h] = "reset" /\ Answer(h) /\ faults' = faults
  <2>1. TypeOK /\ ControlOK
    BY TypeParts DEF SessionInv
  <2> QED
    BY <2>1 DEF TypeOK, ControlOK, Reset, Finish
<1>2. /\ pc'[h] = "idle"
      /\ \A g \in Handler \ {h} : pc'[g] = pc[g] /\ req'[g] = req[g]
  BY <1>1, AnswerType DEF Answer, ControlOK
<1> SUFFICES ASSUME NEW k \in Key PROVE Balanced(k)'
  BY DEF ThrottleInv
<1>3. CASE k = <<"login:email", req[h].email>>
  <2>1. tried'[k] = 0
    BY <1>1, <1>3 DEF Reset
  <2> QED
    BY <2>1, Fresh
<1>4. CASE k # <<"login:email", req[h].email>>
  <2>1. counter'[k] = counter[k] /\ tried'[k] = tried[k]
    BY <1>1, <1>4 DEF Reset
  <2>2. Passed(k)' = Passed(k) /\ Owing(k)' = Owing(k)
    BY <1>1, <1>2 DEF Passed, Owing, Passes, Owes
  <2> QED
    BY <1>1, <2>1, <2>2 DEF ThrottleInv, Balanced
<1> QED
  BY <1>3, <1>4

-----------------------------------------------------------------------------
(* The throttle: every step                                                *)

\* A request that arrives has passed no limit.
LEMMA TakeBalance ==
  ASSUME SessionInv, ThrottleInv, SessionInv', NEW h \in Handler, NEW r \in Request,
         NEW place \in {"check", "consume", "logout"}, Take(h, r, place), r.done = 0
  PROVE  ThrottleInv'
<1>1. ControlOK
  BY TypeParts DEF SessionInv
<1>2. /\ pc'[h] = place /\ req'[h] = r /\ pc[h] = "idle"
      /\ \A g \in Handler \ {h} : pc'[g] = pc[g] /\ req'[g] = req[g]
      /\ counter' = counter /\ tried' = tried /\ faults' = faults
  BY <1>1 DEF Take, ControlOK, redis
<1>3. \A k \in Key : ~Passes(h, k)'
  <2> SUFFICES ASSUME NEW k \in Key PROVE ~Passes(h, k)'
    OBVIOUS
  <2>1. IsLeft(r, k) = HasLimit(r, k)
    BY AllLeft
  <2> QED
    BY <1>2, <2>1 DEF Passes
<1> QED
  BY <1>2, <1>3, NoCounting DEF Owes

\* The steps of refreshes, of logouts and of a login after its password.
LEMMA GoToBalance ==
  ASSUME SessionInv, ThrottleInv, SessionInv', NEW h \in Handler,
         NEW place \in PC \ {"check", "verify"}, GoTo(h, place), pc[h] # "count",
         counter' = counter, tried' = tried
  PROVE  ThrottleInv'
<1>1. /\ pc'[h] = place /\ faults' = faults
      /\ \A g \in Handler \ {h} : pc'[g] = pc[g] /\ req'[g] = req[g]
  BY TypeParts DEF SessionInv, GoTo, ControlOK
<1> QED
  BY <1>1, NoCounting DEF Passes, Owes

LEMMA FaultBalance ==
  ASSUME SessionInv, ThrottleInv, SessionInv', NEW h \in Handler, Fault(h)
  PROVE  ThrottleInv'
<1>1. /\ TypeOK /\ CountsOK /\ faults' = faults + 1
      /\ pc[h] # "idle" => req[h] \in Request
  BY TypeParts DEF SessionInv, Fault, TypeOK
<1>2. CASE /\ pc[h] \in {"check", "over"} /\ Checked(h, FALSE)
           /\ UNCHANGED <<active, session, store, counter, ended>>
  BY <1>1, <1>2, CheckedBalance
<1>3. CASE /\ pc[h] = "count"
           /\ LET k == NextLimit(req[h]) IN Counted(h, counter[k]) \/ Counted(h, Added(Count(k)))
           /\ UNCHANGED <<active, session, store, tried, ended>>
  <2>1. PICK r \in Request : r = req[h]
    BY <1>1, <1>3
  <2>2. PICK k \in Key : k = NextLimit(req[h])
    BY <2>1, LimitIsKey DEF NextLimit, Request
  <2>3. PICK c \in [count : Nat, expires : BOOLEAN] : c = counter[k]
    BY <1>1 DEF CountsOK
  <2>4. PICK d \in [count : Nat, expires : BOOLEAN] : d = Added(Count(k))
    BY <1>1, CountIsCounter DEF Counter
  <2>5. counter[k].count <= c.count /\ counter[k].count <= d.count
    <3>1. d.count = c.count + 1 \/ d.count = c.count + 1 + 1
      BY <2>3, <2>4 DEF Added, Count
    <3> QED
      BY <2>3, <3>1
  <2>6. Counted(h, c) \/ Counted(h, d)
    BY <1>3, <2>2, <2>3, <2>4
  <2> QED
    BY <1>1, <1>3, <2>2, <2>5, <2>6, CountedBalance
<1>4. CASE Answer(h) /\ counter' = counter /\ tried' = tried
  BY <1>1, <1>4, AnsweredBalance
<1> QED
  BY <1>2, <1>3, <1>4 DEF Fault, redis

LEMMA ThrottleStep == SessionInv /\ ThrottleInv /\ SessionInv' /\ [Next]_vars => ThrottleInv'
<1> SUFFICES ASSUME SessionInv, ThrottleInv, SessionInv', [Next]_vars PROVE ThrottleInv'
  OBVIOUS
<1>1. TypeOK /\ ControlOK /\ RedisOK /\ CountsOK
  BY TypeParts DEF SessionInv
<1>2. ASSUME NEW h \in Handler, Enter(h) PROVE ThrottleInv'
  <2>1. PICK e \in Email, i \in Ip, kind \in {"login", "register"}, right \in BOOLEAN :
          Take(h, [kind |-> kind, ip |-> i, email |-> e, right |-> right, token |-> NoToken,
                   since |-> Len(active[e]), done |-> 0], "check")
    BY <1>2 DEF Enter
  <2>2. Len(active[e]) \in Nat
    BY <1>1, LenProperties DEF TypeOK
  <2>3. PICK r \in Request :
          /\ r = [kind |-> kind, ip |-> i, email |-> e, right |-> right, token |-> NoToken,
                  since |-> Len(active[e]), done |-> 0]
          /\ r.done = 0
    BY <2>2, NewRequest
  <2> QED
    BY <2>1, <2>3, TakeBalance
<1>3. ASSUME NEW h \in Handler, Present(h) PROVE ThrottleInv'
  <2>1. PICK i \in Ip, s \in 1 .. Len(session) :
          \E t \in 1 .. session[s].turn, kind \in {"refresh", "logout"} :
            Take(h, [kind |-> kind, ip |-> i, email |-> session[s].user, right |-> TRUE,
                     token |-> <<s, t>>, since |-> Len(active[session[s].user]), done |-> 0],
                 IF kind = "refresh" THEN "consume" ELSE "logout")
    BY <1>3 DEF Present
  <2>2. /\ pc'[h] \in {"consume", "logout"} /\ pc[h] = "idle"
        /\ \A g \in Handler \ {h} : pc'[g] = pc[g] /\ req'[g] = req[g]
        /\ counter' = counter /\ tried' = tried /\ faults' = faults
    BY <1>1, <2>1 DEF Take, ControlOK, redis
  <2> QED
    BY <2>2, NoCounting DEF Passes, Owes
<1>4. ASSUME NEW h \in Handler, Check(h) PROVE ThrottleInv'
  <2>1. PICK isOver \in BOOLEAN : isOver = Over(NextLimit(req[h]))
    BY DEF Over
  <2> QED
    BY <1>4, <2>1, CheckedBalance DEF Check
<1>5. ASSUME NEW h \in Handler, AddAttempt(h) PROVE ThrottleInv'
  <2>1. PICK r \in Request : r = req[h]
    BY <1>1, <1>5 DEF AddAttempt, ControlOK
  <2>2. PICK k \in Key : k = NextLimit(req[h])
    BY <2>1, LimitIsKey DEF NextLimit, Request
  <2>3. PICK c \in [count : Nat, expires : BOOLEAN] : c = Count(k)
    BY <1>1, CountIsCounter DEF Counter
  <2>4. PICK n \in Nat : n = counter[k].count
    <3>1. counter[k] \in [count : Nat, expires : BOOLEAN]
      BY <1>1 DEF CountsOK
    <3> QED
      BY <3>1
  <2>5. n <= c.count /\ (MaxOf(k) > 0 => n + 1 <= c.count)
    <3>1. c.count = IF MaxOf(k) > 0 THEN n + 1 ELSE n
      BY <2>3, <2>4 DEF Added, Count
    <3> QED
      BY <3>1
  <2> QED
    BY <1>5, <2>2, <2>3, <2>4, <2>5, CountedBalance DEF AddAttempt
<1>6. ASSUME NEW h \in Handler, Verify(h) PROVE ThrottleInv'
  <2>1. pc[h] = "verify" /\ counter' = counter
    BY <1>6 DEF Verify
  <2>2. CASE GoOn(h, "count", 0) /\ tried' = Try(req[h]) /\ faults' = faults
    BY <2>1, <2>2, WrongBalance
  <2>3. CASE Finish(h) /\ tried' = tried
    BY <2>1, <2>3, AnsweredBalance DEF Finish
  <2>4. CASE GoTo(h, "issue") /\ tried' = tried
    BY <2>1, <2>4, GoToBalance DEF PC
  <2> QED
    BY <1>6, <2>2, <2>3, <2>4 DEF Verify
<1>7. ASSUME NEW h \in Handler, Reset(h) PROVE ThrottleInv'
  BY <1>7, ResetBalance
<1>8. ASSUME NEW h \in Handler, Create(h) PROVE ThrottleInv'
  BY <1>8, AnsweredBalance DEF Create, Finish, redis
<1>9. ASSUME NEW h \in Handler, Consume(h) PROVE ThrottleInv'
  BY <1>9, AnsweredBalance, GoToBalance DEF Consume, Finish, PC
<1>10. ASSUME NEW h \in Handler, CheckStatus(h) PROVE ThrottleInv'
  BY <1>10, AnsweredBalance, GoToBalance DEF CheckStatus, Finish, PC, redis
<1>11. ASSUME NEW h \in Handler, Issue(h) PROVE ThrottleInv'
  BY <1>11, AnsweredBalance, GoToBalance DEF Issue, Finish, PC
<1>12. ASSUME NEW h \in Handler, Logout(h) PROVE ThrottleInv'
  BY <1>12, AnsweredBalance DEF Logout, Finish
<1>13. ASSUME NEW h \in Handler, Fault(h) PROVE ThrottleInv'
  BY <1>13, FaultBalance
<1>14. ASSUME NEW k \in Key, WindowEnds(k) PROVE ThrottleInv'
  <2> SUFFICES ASSUME NEW j \in Key PROVE Balanced(j)'
    BY DEF ThrottleInv
  <2>1. CASE j = k
    <3>1. tried'[j] = 0
      BY <1>1, <1>14, <2>1 DEF WindowEnds, CountsOK
    <3> QED
      BY <3>1, Fresh
  <2>2. CASE j # k
    <3>1. counter'[j] = counter[j] /\ tried'[j] = tried[j]
      BY <1>1, <1>14, <2>2 DEF WindowEnds, CountsOK
    <3> QED
      BY <1>14, <3>1, Still DEF WindowEnds, control
  <2> QED
    BY <2>1, <2>2
<1>15. ASSUME NEW e \in Email, ChangeStatus(e) PROVE ThrottleInv'
  BY <1>15, Still DEF ChangeStatus, redis, control, ThrottleInv
<1>16. ASSUME TokenExpires PROVE ThrottleInv'
  BY <1>16, Still DEF TokenExpires, control, ThrottleInv
<1>17. ASSUME UNCHANGED vars PROVE ThrottleInv'
  BY <1>17, Still DEF vars, control, ThrottleInv
<1> QED
  BY <1>2, <1>3, <1>4, <1>5, <1>6, <1>7, <1>8, <1>9, <1>10, <1>11, <1>12, <1>13, <1>14,
     <1>15, <1>16, <1>17 DEF Next

LEMMA ThrottleInit == Init => ThrottleInv
<1> SUFFICES ASSUME Init, NEW k \in Key, MaxOf(k) > 0 PROVE Balanced(k)
  BY DEF ThrottleInv, Balanced
<1>1. \A h \in Handler : pc[h] = "idle"
  BY DEF Init
<1>2. Passed(k) = {} /\ Owing(k) = {}
  BY <1>1 DEF Passed, Owing, Passes, Owes
<1>3. Cardinality(Passed(k)) = 0 /\ Cardinality(Owing(k)) = 0 /\ Cardinality(Handler) \in Nat
  BY <1>2, SessionsAssumption, FS_EmptySet, FS_CardinalityType
<1>4. tried[k] = 0 /\ counter[k].count = 0 /\ faults = 0 /\ MaxOf(k) \in Int
  BY SessionsAssumption DEF Init, NoCount, MaxOf
<1> QED
  BY <1>3, <1>4 DEF Balanced

-----------------------------------------------------------------------------
(* The theorems                                                            *)

\* The inductive invariant: auth-service.go, throttle.go and the scripts of
\* redis.go keep it whatever requests and failures come together.
THEOREM Invariant == Spec => []IInv
<1>1. Init => IInv
  BY SessionInit, ThrottleInit DEF IInv
<1>2. IInv /\ [Next]_vars => IInv'
  BY SessionStep, ThrottleStep DEF IInv
<1> QED
  BY <1>1, <1>2, PTL DEF Spec

\* A login is one session: tokenStore.Consume's GETDEL hands a refresh token
\* to one request, and only that one issues the next.
THEOREM OneSessionAlways == Spec => []OneSession
<1>1. IInv => OneSession
  BY DEF IInv, SessionInv
<1> QED
  BY <1>1, Invariant, PTL

\* A logout whose token was there ends its session for good
\* (AuthService.Logout), whatever refreshes were under way.
THEOREM EndedForGoodAlways == Spec => []EndedForGood
<1>1. IInv => EndedForGood
  BY DEF IInv, SessionInv
<1> QED
  BY <1>1, Invariant, PTL

\* Tokens are issued (issueTokenPair) only for an account that was ACTIVE at
\* some moment of the request.
THEOREM ActiveWhileItRanAlways == Spec => []ActiveWhileItRan
<1>1. IInv => ActiveWhileItRan
  BY DEF IInv, SessionInv
<1> QED
  BY <1>1, Invariant, PTL

\* loginThrottle checks before an attempt and counts after it; with any
\* number of attempts at once it lets through fewer than its limit, one for
\* each request and one for each failed call.
THEOREM ThrottleHoldsAlways == Spec => []ThrottleHolds
<1>1. IInv => ThrottleHolds
  <2> SUFFICES ASSUME IInv, NEW k \in Key, MaxOf(k) > 0
               PROVE  tried[k] <= MaxOf(k) - 1 + Cardinality(Handler) + faults
    BY DEF ThrottleHolds
  <2>1. Passed(k) \in SUBSET Handler /\ IsFiniteSet(Handler)
    BY SessionsAssumption DEF Passed
  <2>2. Cardinality(Passed(k)) \in Nat /\ Cardinality(Handler) \in Nat
    BY <2>1, FS_Subset, FS_CardinalityType
  <2>3. tried[k] \in Nat /\ faults \in Nat /\ MaxOf(k) \in Int
    BY SessionsAssumption DEF IInv, SessionInv, TypeOK, MaxOf
  <2>4. tried[k] + Cardinality(Passed(k)) <= MaxOf(k) - 1 + Cardinality(Handler) + faults
    BY DEF IInv, ThrottleInv, Balanced
  <2> QED
    BY <2>2, <2>3, <2>4
<1> QED
  BY <1>1, Invariant, PTL
=============================================================================
