------------------------------ MODULE Accounts ------------------------------
(***************************************************************************)
(* identity-service: the users and who may make or change one.             *)
(*                                                                         *)
(* Registration, POST /admin/users, PATCH /admin/users/:id and the         *)
(* administrator that a replica bootstraps at its start all end in a       *)
(* READ COMMITTED transaction that writes app_user and one outbox row      *)
(* (domain/services/user-writer.go, admin-service.go).  A Handler is one   *)
(* such request, or one starting replica.  The variables are committed     *)
(* rows only; an uncommitted insert or a row lock is in the control state  *)
(* of the handler whose transaction has it.                                *)
(*                                                                         *)
(* A user is identified by the normalized email (uq_app_user_email), so    *)
(* the id, which is minted with the row, needs no value of its own.        *)
(***************************************************************************)
EXTENDS Integers, Sequences, FiniteSets

CONSTANTS
  Handler,      \* in-flight requests and starting replicas
  Email,        \* normalized emails: the users
  AdminEmail,   \* ADMIN_EMAIL
  Staff,        \* the roles besides CUSTOMER and ADMIN
  MaxRequests,  \* bound: the number of requests
  NoAccount, Nobody, NoReq   \* null values

Role == {"CUSTOMER", "ADMIN"} \cup Staff
Status == {"ACTIVE", "INACTIVE", "LOCKED"}

\* by: who made the account, which the code knows while it makes it and then
\* only logs: its own user, an administrator, a starting replica, or whoever
\* set up the database that the service first starts on.
Maker == Email \cup {"self", "bootstrap", "setup"}
Account == [role : Role, status : Status, by : Maker]

\* The payload of UserCreated and UserUpdated.
UserEvent == [type : {"UserCreated", "UserUpdated"}, role : Role, status : Status]

ASSUME AccountsAssumption ==
  /\ AdminEmail \in Email
  /\ Staff \cap {"CUSTOMER", "ADMIN"} = {}
  /\ Email \cap {"self", "bootstrap", "setup"} = {}
  /\ MaxRequests \in Nat
  /\ NoAccount \notin Account
  /\ Nobody \notin Email

Kind == {"register", "create", "status", "bootstrap"}

\* actor: the user of the access token.  role, status: those wanted.  since:
\* how much had been told of the actor when the request arrived.
Request == [kind : Kind, actor : Email \cup {Nobody}, target : Email,
            role : Role, status : Status, since : Nat]

VARIABLES
  account,   \* app_user, by email
  told,      \* outbox_message, by key, in id order
  pc, req,   \* each handler's control state and request
  arrived    \* requests so far

tables == <<account, told>>
vars == <<account, told, pc, req, arrived>>

\* accepted: past the HTTP handler.  allowed: the caller may do this.
\* inserted, updated: the row is written, the event and COMMIT are left.
PC == {"idle", "accepted", "allowed", "inserted", "updated"}

Exists(e) == account[e] # NoAccount
IsAdmin(e) == Exists(e) /\ account[e].role = "ADMIN" /\ account[e].status = "ACTIVE"

Made(role, by) == [role |-> role, status |-> "ACTIVE", by |-> by]
Event(type, user) == [type |-> type, role |-> user.role, status |-> user.status]

\* A database with any accounts in it, none of them changed since.
Init ==
  /\ account \in [Email -> {NoAccount} \cup {Made(r, "setup") : r \in Role}]
  /\ told = [e \in Email |-> IF Exists(e) THEN <<Event("UserCreated", account[e])>> ELSE <<>>]
  /\ pc = [h \in Handler |-> "idle"]
  /\ req = [h \in Handler |-> NoReq]
  /\ arrived = 0

Take(h, r, place) ==
  /\ pc[h] = "idle"
  /\ arrived < MaxRequests
  /\ arrived' = arrived + 1
  /\ req' = [req EXCEPT ![h] = r]
  /\ pc' = [pc EXCEPT ![h] = place]
  /\ UNCHANGED tables

Finish(h) ==
  /\ pc' = [pc EXCEPT ![h] = "idle"]
  /\ req' = [req EXCEPT ![h] = NoReq]
  /\ UNCHANGED arrived

\* An answer without a change: an error, for which RunInTx rolls back, or
\* nothing to write.
Refuse(h) == Finish(h) /\ UNCHANGED tables

GoTo(h, place) ==
  /\ pc' = [pc EXCEPT ![h] = place]
  /\ UNCHANGED <<req, arrived, tables>>

At(h, kind, place) == pc[h] = place /\ req[h].kind = kind

-----------------------------------------------------------------------------
(* Who may do what.                                                        *)

\* Mutant: any role that exists may be registered.
SelfRegisterAny(role) == role \in Role

SelfRegisterable(role) == role = "CUSTOMER"

\* POST /auth/register: a role left out is CUSTOMER, and no other is allowed.
Register(h) ==
  \E e \in Email, r \in Role :
    /\ SelfRegisterable(r)
    /\ Take(h, [kind |-> "register", actor |-> Nobody, target |-> e, role |-> r,
                status |-> "ACTIVE", since |-> 0], "allowed")

\* RequireAuth and RequireRole: the token says that its user is an
\* administrator, which was so when it was issued, and roles do not change;
\* the status it does not say.
RoleClaim(e) == Exists(e) /\ account[e].role = "ADMIN"

\* POST /admin/users.
AskToCreate(h) ==
  \E a, e \in Email, r \in Role :
    /\ RoleClaim(a)
    /\ Take(h, [kind |-> "create", actor |-> a, target |-> e, role |-> r,
                status |-> "ACTIVE", since |-> Len(told[a])], "accepted")

\* PATCH /admin/users/:id, which refuses an administrator's own id.
AskForStatus(h) ==
  \E a, e \in Email, s \in Status :
    /\ RoleClaim(a)
    /\ a # e
    /\ Take(h, [kind |-> "status", actor |-> a, target |-> e, role |-> "CUSTOMER",
                status |-> s, since |-> Len(told[a])], "accepted")

\* Mutant: the claim in the token is believed.
BelieveClaim(h) ==
  /\ At(h, "create", "accepted") \/ At(h, "status", "accepted")
  /\ GoTo(h, "allowed")

\* requireAdmin: reads the actor again, outside the transaction.
RequireAdmin(h) ==
  /\ At(h, "create", "accepted") \/ At(h, "status", "accepted")
  /\ IF IsAdmin(req[h].actor) THEN GoTo(h, "allowed") ELSE Refuse(h)

\* A replica starts.
Start(h) ==
  Take(h, [kind |-> "bootstrap", actor |-> Nobody, target |-> AdminEmail, role |-> "ADMIN",
           status |-> "ACTIVE", since |-> 0], "accepted")

\* Mutant: the first administrator is made whoever else there is.
BootstrapAlways(h) == At(h, "bootstrap", "accepted") /\ GoTo(h, "allowed")

\* ExistsWithRole: any administrator will do, whatever his status.
BootstrapCheck(h) ==
  /\ At(h, "bootstrap", "accepted")
  /\ IF \E e \in Email : RoleClaim(e) THEN Refuse(h) ELSE GoTo(h, "allowed")

-----------------------------------------------------------------------------
(* createUser                                                              *)

\* INSERT INTO app_user waits for an uncommitted row with the same email; a
\* committed one is ErrConflict, and for a bootstrap too: an account is never
\* promoted.
Inserting(h, e) == pc[h] = "inserted" /\ req[h].target = e

Insert(h) ==
  /\ pc[h] = "allowed" /\ req[h].kind # "status"
  /\ \A g \in Handler \ {h} : ~Inserting(g, req[h].target)
  /\ IF Exists(req[h].target) THEN Refuse(h) ELSE GoTo(h, "inserted")

MadeBy(r) ==
  CASE r.kind = "register" -> "self" [] r.kind = "bootstrap" -> "bootstrap"
    [] OTHER -> r.actor

\* writeUserEvent(UserCreated) and COMMIT.
InsertCommit(h) ==
  /\ pc[h] = "inserted"
  /\ LET e == req[h].target
         user == Made(req[h].role, MadeBy(req[h]))
     IN /\ account' = [account EXCEPT ![e] = user]
        /\ told' = [told EXCEPT ![e] = Append(@, Event("UserCreated", user))]
  /\ Finish(h)

-----------------------------------------------------------------------------
(* SetUserStatus                                                           *)

HoldsRow(h, e) == At(h, "status", "updated") /\ req[h].target = e

\* Mutant: GetByID instead of GetByIDForUpdate.
StatusRead(h) ==
  /\ At(h, "status", "allowed")
  /\ LET e == req[h].target IN
       IF ~Exists(e) \/ account[e].status = req[h].status THEN Refuse(h) ELSE GoTo(h, "updated")

\* GetByIDForUpdate waits for the row, or is ErrNotFound; the status it finds
\* may be the one wanted; else UpdateStatus.
StatusLock(h) ==
  /\ At(h, "status", "allowed")
  /\ LET e == req[h].target IN
       /\ \A g \in Handler \ {h} : ~HoldsRow(g, e)
       /\ IF ~Exists(e) \/ account[e].status = req[h].status
            THEN Refuse(h) ELSE GoTo(h, "updated")

\* writeUserEvent(UserUpdated) and COMMIT.
StatusCommit(h) ==
  /\ At(h, "status", "updated")
  /\ LET e == req[h].target
         user == [account[e] EXCEPT !.status = req[h].status]
     IN /\ account' = [account EXCEPT ![e] = user]
        /\ told' = [told EXCEPT ![e] = Append(@, Event("UserUpdated", user))]
  /\ Finish(h)

-----------------------------------------------------------------------------

\* A statement fails, the request is cancelled or the process dies.
Fail(h) == pc[h] # "idle" /\ Refuse(h)

Next ==
  \E h \in Handler :
    \/ Register(h) \/ AskToCreate(h) \/ AskForStatus(h) \/ Start(h)
    \/ RequireAdmin(h) \/ BootstrapCheck(h)
    \/ Insert(h) \/ InsertCommit(h)
    \/ StatusLock(h) \/ StatusCommit(h)
    \/ Fail(h)

Spec == Init /\ [][Next]_vars

-----------------------------------------------------------------------------
(* Properties                                                              *)

TypeOK ==
  /\ account \in [Email -> Account \cup {NoAccount}]
  /\ told \in [Email -> Seq(UserEvent)]
  /\ pc \in [Handler -> PC]
  /\ req \in [Handler -> Request \cup {NoReq}]
  /\ \A h \in Handler : pc[h] # "idle" => req[h] \in Request
  /\ arrived \in 0 .. MaxRequests

\* What the other services hear of a user is the user's history: created once
\* and active, then only real changes of the status, with the role for life,
\* and the last of them is the row as it is.  Two changes at once never both
\* announce what the first has done.
TellsHistory(e) ==
  IF ~Exists(e) THEN told[e] = <<>>
  ELSE /\ told[e] # <<>>
       /\ told[e][1].type = "UserCreated" /\ told[e][1].status = "ACTIVE"
       /\ \A n \in 1 .. Len(told[e]) : told[e][n].role = account[e].role
       /\ \A n \in 2 .. Len(told[e]) : /\ told[e][n].type = "UserUpdated"
                                       /\ told[e][n].status # told[e][n - 1].status
       /\ told[e][Len(told[e])].status = account[e].status
EventsTell == \A e \in Email : TellsHistory(e)

\* Staff come from somewhere: nobody is a technician, manager or administrator
\* who has registered as one, or has made another user one without being an
\* administrator himself.
IsMade(e) == LET by == account[e].by IN
  \/ account[e].role = "CUSTOMER"
  \/ by = "setup"
  \/ by = "bootstrap" /\ account[e].role = "ADMIN"
  \/ by \in Email \ {e} /\ RoleClaim(by)
StaffAreMade == \A e \in Email : Exists(e) => IsMade(e)

\* The bootstrapped administrator is the first there ever was: every other was
\* made by an administrator after him, though several replicas start at once
\* and look for one before any of them has made one.
BootstrapIsFirst ==
  \A e \in Email : Exists(e) /\ account[e].by = "bootstrap" =>
    \A f \in Email \ {e} : RoleClaim(f) => account[f].by \in Email

\* Whoever creates a user or changes a status was an active administrator at
\* some moment while the request ran, whatever the token, up to 15 minutes
\* old, says of him.
ActiveSince(e, n) == \E i \in n .. Len(told[e]) :
                       i > 0 /\ told[e][i].role = "ADMIN" /\ told[e][i].status = "ACTIVE"
Administrative(h) == pc[h] \in {"inserted", "updated"} /\ req[h].actor # Nobody
AdminWhileItRan == \A h \in Handler : Administrative(h) => ActiveSince(req[h].actor, req[h].since)

-----------------------------------------------------------------------------
(* The inductive invariant behind the safety properties.                   *)

RequestOK(h) ==
  LET r == req[h] IN
  /\ pc[h] = "accepted" => r.kind # "register"
  /\ pc[h] = "inserted" => r.kind # "status" /\ ~Exists(r.target)
  /\ pc[h] = "updated" => /\ r.kind = "status" /\ Exists(r.target)
                          /\ account[r.target].status # r.status
  /\ pc[h] # "idle" => r.kind \in {"create", "status"} \/ r.actor = Nobody
  /\ pc[h] # "idle" /\ r.kind = "register" => r.role = "CUSTOMER"
  /\ pc[h] # "idle" /\ r.kind \in {"create", "status"} =>
       /\ r.actor \in Email /\ RoleClaim(r.actor)
       /\ r.since \in 1 .. Len(told[r.actor])
       /\ pc[h] # "accepted" => ActiveSince(r.actor, r.since)
  /\ pc[h] # "idle" /\ r.kind = "bootstrap" =>
       /\ r.target = AdminEmail /\ r.role = "ADMIN"
       /\ pc[h] # "accepted" =>
            \A f \in Email : RoleClaim(f) => account[f].by \in Email \cup {"bootstrap"}

\* No two handlers have written the same user.
Exclude(g, h) ==
  /\ pc[g] = "inserted" /\ pc[h] = "inserted" => req[g].target # req[h].target
  /\ pc[g] = "updated" /\ pc[h] = "updated" => req[g].target # req[h].target

OneBootstrap == \A e \in Email : Exists(e) /\ account[e].by = "bootstrap" => e = AdminEmail

IInv ==
  /\ TypeOK /\ EventsTell /\ StaffAreMade /\ BootstrapIsFirst /\ OneBootstrap
  /\ \A h \in Handler : RequestOK(h)
  /\ \A g, h \in Handler : g # h => Exclude(g, h)
=============================================================================
