------------------------------ MODULE Sessions ------------------------------
(***************************************************************************)
(* identity-service: login, refresh, logout and registration as their HTTP *)
(* handlers run them, with the throttle and the refresh tokens in Redis.   *)
(*                                                                         *)
(* Every replica keeps its state in the same Redis and database, so a      *)
(* Handler is one request on any replica; each of its steps is one call to *)
(* either (adapters/http/handler/auth-handler.go, throttle.go,             *)
(* domain/services/auth-service.go, adapters/cache/redis.go).  Whether an  *)
(* account is active is changed by the administrators of Accounts at any   *)
(* moment.  Access tokens are stateless and have no part in this.          *)
(*                                                                         *)
(* A session is what one login starts: the chain of refresh tokens that    *)
(* replace each other.  A token is <<session, turn>>; what the store keeps *)
(* of it is a hash, which tells nothing more.                              *)
(***************************************************************************)
EXTENDS Integers, Sequences, FiniteSets

CONSTANTS
  Handler, Email, Ip,
  LoginPerIP, LoginPerEmail, RegisterPerIP,   \* config.RateLimit; 0 or less: no limit
  MaxRequests,  \* bound: requests
  MaxFaults,    \* bound: calls that fail
  MaxVersions,  \* bound: statuses of an account
  NoReq

Key == ({"login:ip", "register:ip"} \X Ip) \cup ({"login:email"} \X Email)

MaxOf(k) == CASE k[1] = "login:ip" -> LoginPerIP
              [] k[1] = "login:email" -> LoginPerEmail
              [] OTHER -> RegisterPerIP

Token == (Nat \ {0}) \X (Nat \ {0})
NoToken == <<0, 0>>

\* done: the limits that have been checked, or counted.  since: how many
\* statuses the user's account had when the request arrived.
Request == [kind : {"login", "register", "refresh", "logout"}, ip : Ip, email : Email,
            right : BOOLEAN, token : Token \cup {NoToken}, since : Nat,
            done : 0 .. 2]

ASSUME SessionsAssumption ==
  /\ IsFiniteSet(Handler)
  /\ {LoginPerIP, LoginPerEmail, RegisterPerIP} \subseteq Int
  /\ MaxRequests \in Nat /\ MaxFaults \in Nat /\ MaxVersions \in Nat
  /\ NoReq \notin Request

VARIABLES
  active,    \* per account: whether it was ACTIVE, at each change; <<>>: no such account
  session,   \* per session: its user and the turn of its newest token
  store,     \* Redis: the tokens that can still be used
  counter,   \* Redis: per key, the attempts and whether the key has an expiry
  tried,     \* per key: what should have been counted since the counter last began
  ended,     \* the sessions whose logout found their token
  pc, req, arrived, faults

redis == <<session, store, counter, tried, ended>>
control == <<pc, req, arrived, faults>>
vars == <<active, session, store, counter, tried, ended, pc, req, arrived, faults>>

\* check, count: going through the limits; over: the same, and one was used up.
\* verify: the password.  consume, status, issue: of a refresh; a login issues
\* too.  reset: the email's count.
PC == {"idle", "check", "over", "verify", "count", "create", "consume", "status", "issue", "reset",
       "logout"}

NoCount == [count |-> 0, expires |-> FALSE]

Exists(e) == active[e] # <<>>
IsActive(e) == Exists(e) /\ active[e][Len(active[e])]

Init ==
  /\ active \in [Email -> {<<>>, <<TRUE>>}]
  /\ session = <<>> /\ store = {} /\ ended = {}
  /\ counter = [k \in Key |-> NoCount]
  /\ tried = [k \in Key |-> 0]
  /\ pc = [h \in Handler |-> "idle"]
  /\ req = [h \in Handler |-> NoReq]
  /\ arrived = 0 /\ faults = 0

GoTo(h, place) == pc' = [pc EXCEPT ![h] = place] /\ UNCHANGED <<req, arrived, faults>>

Answer(h) ==
  /\ pc' = [pc EXCEPT ![h] = "idle"]
  /\ req' = [req EXCEPT ![h] = NoReq]
  /\ UNCHANGED arrived

Finish(h) == Answer(h) /\ UNCHANGED faults

\* On to place with n of the limits done.
GoOn(h, place, n) ==
  /\ pc' = [pc EXCEPT ![h] = place]
  /\ req' = [req EXCEPT ![h].done = n]
  /\ UNCHANGED arrived

-----------------------------------------------------------------------------
(* The throttle.                                                           *)

\* loginLimits and registerLimits: how many there are, and the nth.
Limits(r) == CASE r.kind = "login" -> 2 [] r.kind = "register" -> 1 [] OTHER -> 0
Limit(r, n) ==
  CASE r.kind = "register" -> <<"register:ip", r.ip>>
    [] r.kind = "login" /\ n = 1 -> <<"login:ip", r.ip>>
    [] OTHER -> <<"login:email", r.email>>
HasLimit(r, k) == \E n \in 1 .. Limits(r) : Limit(r, n) = k

\* Mutant: one attempt more.
OverLater(k) == MaxOf(k) > 0 /\ counter[k].count > MaxOf(k)

Over(k) == MaxOf(k) > 0 /\ counter[k].count >= MaxOf(k)

\* Mutant: PEXPIRE is a call of its own, which did not come.
AddedForever(c) == [count |-> c.count + 1, expires |-> c.expires]

\* The script: INCR and, for the first attempt, PEXPIRE.
Added(c) == [count |-> c.count + 1, expires |-> c.expires \/ c.count = 0]

\* A limit that is off is neither checked nor counted.
Count(k) == IF MaxOf(k) > 0 THEN Added(counter[k]) ELSE counter[k]

\* What is to be counted happens now, whether or not it will be.
Try(r) == [k \in Key |-> IF HasLimit(r, k) THEN tried[k] + 1 ELSE tried[k]]

\* blocked goes on through its limits although one is used up, and then the
\* answer is 429; else the password is next, or the registration counts.
Checked(h, isOver) ==
  LET r == req[h]
      place == IF isOver THEN "over" ELSE pc[h]
  IN IF r.done + 1 < Limits(r) THEN GoOn(h, place, r.done + 1) /\ UNCHANGED tried
     ELSE IF place = "over" THEN Answer(h) /\ UNCHANGED tried
     ELSE IF r.kind = "login" THEN GoOn(h, "verify", 0) /\ UNCHANGED tried
     ELSE GoOn(h, "count", 0) /\ tried' = Try(r)

NextLimit(r) == Limit(r, r.done + 1)

Check(h) ==
  /\ pc[h] \in {"check", "over"}
  /\ Checked(h, Over(NextLimit(req[h])))
  /\ UNCHANGED <<active, session, store, counter, ended, faults>>

\* One limit counted.  After the last, the login is refused and the
\* registration goes on.
Counted(h, c) ==
  LET r == req[h] IN
  /\ counter' = [counter EXCEPT ![NextLimit(r)] = c]
  /\ IF r.done + 1 < Limits(r) THEN GoOn(h, "count", r.done + 1)
     ELSE IF r.kind = "login" THEN Answer(h)
     ELSE GoOn(h, "create", 0)

AddAttempt(h) ==
  /\ pc[h] = "count"
  /\ Counted(h, Count(NextLimit(req[h])))
  /\ UNCHANGED <<active, session, store, tried, ended, faults>>

\* The window of a counter ends.
WindowEnds(k) ==
  /\ counter[k].expires
  /\ counter' = [counter EXCEPT ![k] = NoCount]
  /\ tried' = [tried EXCEPT ![k] = 0]
  /\ UNCHANGED <<active, session, store, ended, control>>

-----------------------------------------------------------------------------
(* Requests arrive.                                                        *)

Take(h, r, place) ==
  /\ pc[h] = "idle"
  /\ arrived < MaxRequests
  /\ arrived' = arrived + 1
  /\ req' = [req EXCEPT ![h] = r]
  /\ pc' = [pc EXCEPT ![h] = place]
  /\ UNCHANGED <<active, redis, faults>>

\* POST /auth/login and /auth/register.
Enter(h) ==
  \E e \in Email, i \in Ip, kind \in {"login", "register"}, right \in BOOLEAN :
    Take(h, [kind |-> kind, ip |-> i, email |-> e, right |-> right, token |-> NoToken,
             since |-> Len(active[e]), done |-> 0], "check")

\* POST /auth/refresh and /auth/logout with the CSRF header and the cookie of
\* a token that was issued at some time, and perhaps used since.
Present(h) ==
  \E i \in Ip, s \in 1 .. Len(session) : \E t \in 1 .. session[s].turn,
     kind \in {"refresh", "logout"} :
    LET e == session[s].user IN
    Take(h, [kind |-> kind, ip |-> i, email |-> e, right |-> TRUE, token |-> <<s, t>>,
             since |-> Len(active[e]), done |-> 0],
         IF kind = "refresh" THEN "consume" ELSE "logout")

-----------------------------------------------------------------------------
(* Login and registration                                                  *)

\* AuthService.Login reads the account: an unknown email and a wrong password
\* are the same ErrInvalidCredentials, which is counted; an inactive account is
\* refused only now, and not counted.
Verify(h) ==
  /\ pc[h] = "verify"
  /\ LET r == req[h] IN
     \/ /\ ~Exists(r.email) \/ ~r.right
        /\ GoOn(h, "count", 0)
        /\ tried' = Try(r)
        /\ UNCHANGED faults
     \/ /\ Exists(r.email) /\ r.right /\ ~IsActive(r.email)
        /\ Finish(h)
        /\ UNCHANGED tried
     \/ /\ IsActive(r.email) /\ r.right
        /\ GoTo(h, "issue")
        /\ UNCHANGED tried
  /\ UNCHANGED <<active, session, store, counter, ended>>

\* ResetAttempts: the email's count, never the address's.
Reset(h) ==
  /\ pc[h] = "reset"
  /\ LET k == <<"login:email", req[h].email>> IN
       /\ counter' = [counter EXCEPT ![k] = NoCount]
       /\ tried' = [tried EXCEPT ![k] = 0]
  /\ Finish(h)
  /\ UNCHANGED <<active, session, store, ended>>

\* AuthService.Register: a new account, active, or ErrConflict (Accounts).
Create(h) ==
  /\ pc[h] = "create"
  /\ LET e == req[h].email IN
       active' = IF Exists(e) THEN active ELSE [active EXCEPT ![e] = <<TRUE>>]
  /\ Finish(h)
  /\ UNCHANGED redis

-----------------------------------------------------------------------------
(* Tokens                                                                  *)

\* Mutant: GET, and DEL when the new token is saved.
ConsumeLater(h) ==
  /\ pc[h] = "consume"
  /\ IF req[h].token \in store THEN GoTo(h, "status") ELSE Finish(h)
  /\ UNCHANGED <<active, redis>>

\* GETDEL: one of those that present a token gets it.
Consume(h) ==
  /\ pc[h] = "consume"
  /\ IF req[h].token \in store THEN GoTo(h, "status") ELSE Finish(h)
  /\ store' = store \ {req[h].token}
  /\ UNCHANGED <<active, session, counter, tried, ended>>

\* Mutant: the session's account is not looked at again.
StatusSkipped(h) ==
  /\ pc[h] = "status"
  /\ GoTo(h, "issue")
  /\ UNCHANGED <<active, redis>>

\* Refresh reads the account after it has consumed the token.
CheckStatus(h) ==
  /\ pc[h] = "status"
  /\ IF IsActive(req[h].email) THEN GoTo(h, "issue") ELSE Finish(h)
  /\ UNCHANGED <<active, redis>>

\* The token that issueTokenPair saves: a new session's first, or the next of
\* the one whose token was consumed.
Saved(r) ==
  IF r.kind = "login"
    THEN /\ session' = Append(session, [user |-> r.email, turn |-> 1])
         /\ store' = store \cup {<<Len(session) + 1, 1>>}
    ELSE LET s == r.token[1] IN
         /\ session' = [session EXCEPT ![s].turn = @ + 1]
         /\ store' = store \cup {<<s, session[s].turn + 1>>}

Issue(h) ==
  /\ pc[h] = "issue"
  /\ Saved(req[h])
  /\ IF req[h].kind = "login" THEN GoTo(h, "reset") ELSE Finish(h)
  /\ UNCHANGED <<active, counter, tried, ended>>

\* Mutant: the token is deleted under another name than it was saved.
LogoutMisses(h) ==
  /\ pc[h] = "logout"
  /\ ended' = ended \cup {s \in 1 .. Len(session) : s = req[h].token[1] /\ req[h].token \in store}
  /\ Finish(h)
  /\ UNCHANGED <<active, session, store, counter, tried>>

\* DEL: revoking a token that is not there is no error.
Logout(h) ==
  /\ pc[h] = "logout"
  /\ store' = store \ {req[h].token}
  /\ ended' = ended \cup {s \in 1 .. Len(session) : s = req[h].token[1] /\ req[h].token \in store}
  /\ Finish(h)
  /\ UNCHANGED <<active, session, counter, tried>>

\* RefreshTTL ends.
TokenExpires ==
  /\ \E t \in store : store' = store \ {t}
  /\ UNCHANGED <<active, session, counter, tried, ended, control>>

-----------------------------------------------------------------------------
(* The rest of the world.                                                  *)

\* An administrator changes an account (Accounts!StatusCommit).
ChangeStatus(e) ==
  /\ Exists(e) /\ Len(active[e]) < MaxVersions
  /\ active' = [active EXCEPT ![e] = Append(@, ~IsActive(e))]
  /\ UNCHANGED <<redis, control>>

\* A call to Redis or to the database fails or the request is cancelled.  The
\* throttle lets what it cannot check or count go on; anything else is the
\* answer.  The failed command may have had its effect: a script that is sent
\* again counts twice, a token is gone, or saved, without its client knowing.
Fault(h) ==
  /\ faults < MaxFaults
  /\ faults' = faults + 1
  /\ \/ /\ pc[h] \in {"check", "over"}
        /\ Checked(h, FALSE)
        /\ UNCHANGED <<active, session, store, counter, ended>>
     \/ /\ pc[h] = "count"
        /\ LET k == NextLimit(req[h]) IN Counted(h, counter[k]) \/ Counted(h, Added(Count(k)))
        /\ UNCHANGED <<active, session, store, tried, ended>>
     \/ /\ pc[h] = "issue"
        /\ Saved(req[h])
        /\ Answer(h)
        /\ UNCHANGED <<active, counter, tried, ended>>
     \/ /\ pc[h] \in {"consume", "logout"}
        /\ store' = store \ {req[h].token}
        /\ Answer(h)
        /\ UNCHANGED <<active, session, counter, tried, ended>>
     \/ /\ pc[h] # "idle"
        /\ Answer(h)
        /\ UNCHANGED <<active, redis>>

Next ==
  \/ \E h \in Handler :
       \/ Enter(h) \/ Present(h)
       \/ Check(h) \/ AddAttempt(h) \/ Verify(h) \/ Reset(h) \/ Create(h)
       \/ Consume(h) \/ CheckStatus(h) \/ Issue(h) \/ Logout(h)
       \/ Fault(h)
  \/ \E k \in Key : WindowEnds(k)
  \/ \E e \in Email : ChangeStatus(e)
  \/ TokenExpires

Spec == Init /\ [][Next]_vars

\* Redis ends the windows that have an end.
FairSpec == Spec /\ \A k \in Key : WF_vars(WindowEnds(k))

-----------------------------------------------------------------------------
(* Properties                                                              *)

TypeOK ==
  /\ active \in [Email -> Seq(BOOLEAN)]
  /\ session \in Seq([user : Email, turn : Nat \ {0}])
  /\ store \subseteq Token
  /\ counter \in [Key -> [count : Nat, expires : BOOLEAN]]
  /\ tried \in [Key -> Nat]
  /\ ended \subseteq 1 .. Len(session)
  /\ pc \in [Handler -> PC]
  /\ req \in [Handler -> Request \cup {NoReq}]
  /\ \A h \in Handler : pc[h] # "idle" => req[h] \in Request
  /\ arrived \in 0 .. MaxRequests /\ faults \in 0 .. MaxFaults

\* Carries(h, s): h has consumed s's token and will issue the next.
Carries(h, s) == /\ pc[h] \in {"status", "issue"}
                 /\ req[h].kind = "refresh" /\ req[h].token[1] = s

\* A login never becomes two sessions: of each session's tokens at most one
\* can be used, the newest, and then no request holds one that it will replace.
\* Two refreshes with one token, or a token presented again, start nothing.
OneSession ==
  \A s \in 1 .. Len(session) :
    /\ \A t \in store : t[1] = s => t[2] = session[s].turn /\ \A h \in Handler : ~Carries(h, s)
    /\ \A g, h \in Handler : Carries(g, s) /\ Carries(h, s) => g = h

\* A logout that found the session's token has ended the session: no request
\* that was under way brings it back.
EndedForGood ==
  \A s \in ended : (\A t \in store : t[1] # s) /\ \A h \in Handler : ~Carries(h, s)

\* Tokens are issued only for an account that was active at some moment while
\* the request ran: somebody locked out before it came gets none.
ActiveSince(a, n) == \E i \in n .. Len(a) : i > 0 /\ a[i]
ActiveWhileItRan ==
  \A h \in Handler : pc[h] = "issue" => ActiveSince(active[req[h].email], req[h].since)

\* The throttle looks before an attempt and counts after it, so attempts that
\* run at once pass together.  It still holds: in one window there are fewer
\* wrong passwords than the limit, one more for each request that can be in
\* flight, and one more for each failed call.
ThrottleHolds ==
  \A k \in Key : MaxOf(k) > 0 => tried[k] <= MaxOf(k) - 1 + Cardinality(Handler) + faults

\* Nobody is locked out for ever: a counter that counts has an end.
CountersRunOut == \A k \in Key : counter[k].count > 0 ~> counter[k].count = 0

-----------------------------------------------------------------------------
(* The inductive invariant behind the safety properties.                   *)

KindsAt(place) ==
  CASE place \in {"check", "over", "count"} -> {"login", "register"}
    [] place \in {"verify", "reset"} -> {"login"}
    [] place = "create" -> {"register"}
    [] place \in {"consume", "status"} -> {"refresh"}
    [] place = "issue" -> {"login", "refresh"}
    [] OTHER -> {"logout"}

\* What a request in flight is, and has established.
RequestOK(h) ==
  pc[h] # "idle" =>
    /\ req[h].kind \in KindsAt(pc[h])
    /\ req[h].kind \in {"refresh", "logout"} => req[h].token[1] \in 1 .. Len(session)
    /\ req[h].since <= Len(active[req[h].email])
    /\ pc[h] \in {"check", "over", "count"} => req[h].done < Limits(req[h])

Issued == \A t \in store : t[1] \in 1 .. Len(session)

SessionInv ==
  /\ TypeOK /\ Issued /\ OneSession /\ EndedForGood /\ ActiveWhileItRan
  /\ \A h \in Handler : RequestOK(h)

IsLeft(r, k) == \E n \in r.done + 1 .. Limits(r) : Limit(r, n) = k

\* The requests that have passed limit k, and those that have still to count.
Passes(h, k) == /\ pc[h] \in {"check", "verify"} /\ HasLimit(req[h], k)
                /\ pc[h] = "verify" \/ ~IsLeft(req[h], k)
Owes(h, k) == pc[h] = "count" /\ IsLeft(req[h], k)
Passed(k) == {h \in Handler : Passes(h, k)}
Owing(k) == {h \in Handler : Owes(h, k)}

\* A window's attempts are counted, or will be, or a call has failed; and those
\* that have passed the limit still fit in what it lets through.
Balanced(k) ==
  MaxOf(k) > 0 =>
    /\ tried[k] <= counter[k].count + faults + Cardinality(Owing(k))
    /\ tried[k] + Cardinality(Passed(k)) <= MaxOf(k) - 1 + Cardinality(Handler) + faults
ThrottleInv == \A k \in Key : Balanced(k)

IInv == SessionInv /\ ThrottleInv
=============================================================================
