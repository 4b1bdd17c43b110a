----------------------------- MODULE Customers -----------------------------
(***************************************************************************)
(* customer-service: the profiles, and how a user gets one.                *)
(*                                                                         *)
(* Staff create, change and delete profiles; the consumer of identity's    *)
(* user events gives every CUSTOMER user a profile by claiming one that    *)
(* staff made for the same email or by making one (LinkUser).  Every write *)
(* is a READ COMMITTED transaction with one outbox row.  A Handler is one  *)
(* request, or one delivery of a user event, on any replica; the variables *)
(* are committed rows, and an uncommitted insert or a row lock is in the   *)
(* control state of the handler that has it.                               *)
(*                                                                         *)
(* A profile's email never changes and is unique, also among the deleted,  *)
(* so it stands for the id.  Identity keeps a user's email unique and for  *)
(* life (Accounts), so the user of an email is that email; what staff type *)
(* may be any.                                                             *)
(***************************************************************************)
EXTENDS Integers, Sequences, FiniteSets

CONSTANTS
  Handler,      \* requests and deliveries in flight
  Email,        \* emails of profiles
  User,         \* the emails whose user is a CUSTOMER
  MaxRequests,  \* bound: requests and deliveries
  NoProfile, NoReq   \* null values

\* version: which of the row's updated_at.  Never two the same: they are
\* microseconds apart.
Profile == [linked : BOOLEAN, deleted : BOOLEAN, version : Nat \ {0}]

\* A row of outbox_message.  of is not in the payload: the version that the
\* change was made to, which for a change by staff is the one they had read.
Event == [type : {"CustomerCreated", "CustomerUpdated", "CustomerDeleted"},
          linked : BOOLEAN, version : Nat \ {0}, of : Nat]

Kind == {"create", "update", "delete", "link"}
Request == [kind : Kind, email : Email, read : Nat]

ASSUME CustomersAssumption ==
  /\ User \subseteq Email
  /\ MaxRequests \in Nat
  /\ NoProfile \notin Profile /\ NoReq \notin Request

VARIABLES
  profile,   \* customer, by email
  told,      \* outbox_message, by key, in id order
  pc, req,   \* each handler's control state and request
  arrived    \* requests so far

tables == <<profile, told>>
vars == <<profile, told, pc, req, arrived>>

\* find: LinkUser looks for the user.  write, insert: the statement to come.
\* written, inserted: the row is changed, the event and COMMIT are left.
PC == {"idle", "find", "write", "insert", "written", "inserted"}

Exists(e) == profile[e] # NoProfile
Live(e) == Exists(e) /\ ~profile[e].deleted   \* what gorm's queries see

Init ==
  /\ profile = [e \in Email |-> NoProfile]
  /\ told = [e \in Email |-> <<>>]
  /\ pc = [h \in Handler |-> "idle"]
  /\ req = [h \in Handler |-> NoReq]
  /\ arrived = 0

Take(h, kind, e, read, place) ==
  /\ pc[h] = "idle"
  /\ arrived < MaxRequests
  /\ arrived' = arrived + 1
  /\ req' = [req EXCEPT ![h] = [kind |-> kind, email |-> e, read |-> read]]
  /\ pc' = [pc EXCEPT ![h] = place]
  /\ UNCHANGED tables

Finish(h) ==
  /\ pc' = [pc EXCEPT ![h] = "idle"]
  /\ req' = [req EXCEPT ![h] = NoReq]
  /\ UNCHANGED arrived

\* An answer without a change, for which RunInTx rolls back.
Refuse(h) == Finish(h) /\ UNCHANGED tables

GoTo(h, place) ==
  /\ pc' = [pc EXCEPT ![h] = place]
  /\ UNCHANGED <<req, arrived, tables>>

\* The handler's statement may write the row: nobody else has it.
Free(h, e, place) == \A g \in Handler \ {h} : ~(pc[g] = place /\ req[g].email = e)

Commit(h, e, row, event) ==
  /\ profile' = [profile EXCEPT ![e] = row]
  /\ told' = [told EXCEPT ![e] = Append(@, event)]
  /\ Finish(h)

-----------------------------------------------------------------------------
(* Requests                                                                *)

\* POST /customer.
CreateCustomer(h) == \E e \in Email : Take(h, "create", e, 0, "insert")

\* What GET /customer/:id has answered so far: each of the row's versions.
ReadBefore(e) == {told[e][n].version : n \in 1 .. Len(told[e])}

\* PUT /customer/:id with an updated_at the client has read, perhaps before
\* the others' changes, or before the profile was deleted.
UpdateProfile(h) ==
  \E e \in Email : \E v \in ReadBefore(e) : Take(h, "update", e, v, "write")

\* DELETE /customer/:id.
DeleteProfile(h) == \E e \in Email : Exists(e) /\ Take(h, "delete", e, 0, "write")

\* identifyHandle: UserCreated or UserUpdated of a CUSTOMER, perhaps again.
Deliver(h) == \E e \in User : Take(h, "link", e, 0, "find")

-----------------------------------------------------------------------------
(* The steps of a request                                                  *)

\* GetByUserID.
HasProfile(e) == Live(e) /\ profile[e].linked

\* LinkUser: nothing to do for a user who has a profile.
FindUser(h) ==
  /\ pc[h] = "find"
  /\ IF HasProfile(req[h].email) THEN Refuse(h) ELSE GoTo(h, "write")

\* Mutant: updated_at is not in the WHERE clause.
WantedAnyVersion(r) == Live(r.email) /\ (r.kind = "link" => ~profile[r.email].linked)

\* The rows of the WHERE clause: of Update's optimistic lock, of SoftDelete and
\* of LinkUserByEmail, which claims a profile that nobody is linked to.
Wanted(r) ==
  CASE r.kind = "update" -> Live(r.email) /\ profile[r.email].version = r.read
    [] r.kind = "delete" -> Live(r.email)
    [] OTHER -> Live(r.email) /\ ~profile[r.email].linked

\* The UPDATE waits for the row and then looks at it again.  When there is no
\* such row, ErrConflict or ErrNotFound; LinkUser makes a profile.
Write(h) ==
  /\ pc[h] = "write"
  /\ Free(h, req[h].email, "written")
  /\ IF Wanted(req[h]) THEN GoTo(h, "written")
     ELSE IF req[h].kind = "link" THEN GoTo(h, "insert")
     ELSE Refuse(h)

\* The event, from the row read back in the transaction, and COMMIT.
Written(h, kind, type, row, of) ==
  /\ pc[h] = "written" /\ req[h].kind = kind
  /\ Commit(h, req[h].email, row,
            [type |-> type, linked |-> row.linked, version |-> row.version, of |-> of])

Row(h) == profile[req[h].email]

\* UpdateProfile: every UPDATE sets updated_at.
UpdateCommit(h) ==
  Written(h, "update", "CustomerUpdated", [Row(h) EXCEPT !.version = @ + 1], req[h].read)

\* SoftDelete does not touch updated_at.
Deleted(p) == [p EXCEPT !.deleted = TRUE]
DeleteCommit(h) ==
  Written(h, "delete", "CustomerDeleted", Deleted(Row(h)), Row(h).version)

\* LinkUser, when LinkUserByEmail has claimed the profile.
LinkCommit(h) ==
  Written(h, "link", "CustomerUpdated",
          [linked |-> TRUE, deleted |-> FALSE, version |-> Row(h).version + 1], Row(h).version)

\* Mutant: after a conflict LinkUser looks for the profile again.
InsertAgain(h) ==
  /\ pc[h] = "insert"
  /\ Free(h, req[h].email, "inserted")
  /\ IF ~Exists(req[h].email) THEN GoTo(h, "inserted")
     ELSE IF req[h].kind = "link" THEN GoTo(h, "find")
     ELSE Refuse(h)

\* INSERT waits for an uncommitted row with the same email; a committed one,
\* deleted or not, is ErrConflict, for which the delivery counts as handled.
Insert(h) ==
  /\ pc[h] = "insert"
  /\ Free(h, req[h].email, "inserted")
  /\ IF Exists(req[h].email) THEN Refuse(h) ELSE GoTo(h, "inserted")

InsertCommit(h) ==
  /\ pc[h] = "inserted"
  /\ LET isLink == req[h].kind = "link" IN
       Commit(h, req[h].email, [linked |-> isLink, deleted |-> FALSE, version |-> 1],
              [type |-> "CustomerCreated", linked |-> isLink, version |-> 1, of |-> 0])

\* A statement fails, the birthday is in the future, the request is cancelled
\* or the process dies.
Fail(h) == pc[h] # "idle" /\ Refuse(h)

Next ==
  \E h \in Handler :
    \/ CreateCustomer(h) \/ UpdateProfile(h) \/ DeleteProfile(h) \/ Deliver(h)
    \/ FindUser(h) \/ Write(h) \/ Insert(h)
    \/ UpdateCommit(h) \/ DeleteCommit(h) \/ LinkCommit(h) \/ InsertCommit(h)
    \/ Fail(h)

Spec == Init /\ [][Next]_vars

\* Requests in flight keep going; the two statements that wait have SF:
\* Postgres serves the waiters in order.
FairSpec ==
  /\ Spec
  /\ \A h \in Handler :
       /\ WF_vars(\/ FindUser(h) \/ UpdateCommit(h) \/ DeleteCommit(h) \/ LinkCommit(h)
                  \/ InsertCommit(h))
       /\ SF_vars(Write(h)) /\ SF_vars(Insert(h))

-----------------------------------------------------------------------------
(* Properties                                                              *)

TypeOK ==
  /\ profile \in [Email -> Profile \cup {NoProfile}]
  /\ told \in [Email -> Seq(Event)]
  /\ pc \in [Handler -> PC]
  /\ req \in [Handler -> Request \cup {NoReq}]
  /\ \A h \in Handler : pc[h] # "idle" => req[h] \in Request
  /\ arrived \in 0 .. MaxRequests

\* What the other services hear of a profile is its history: created once,
\* by staff or by the user's event; each change made to the version before it,
\* so that nobody overwrites what he has not seen; a link that stays; the last
\* event is the row as it is, and after the deletion there is nothing.
IsHistory(t, p) ==
  /\ t # <<>>
  /\ t[1].type = "CustomerCreated" /\ t[1].of = 0
  /\ \A n \in 2 .. Len(t) :
       /\ t[n].type # "CustomerCreated" /\ t[n].of = t[n - 1].version
       /\ t[n - 1].type # "CustomerDeleted"
       /\ t[n - 1].linked => t[n].linked
       /\ t[n].version = t[n].of + (IF t[n].type = "CustomerUpdated" THEN 1 ELSE 0)
  /\ t[Len(t)].linked = p.linked /\ t[Len(t)].version = p.version
  /\ (t[Len(t)].type = "CustomerDeleted") = p.deleted
EventsTell ==
  \A e \in Email : IF Exists(e) THEN IsHistory(told[e], profile[e]) ELSE told[e] = <<>>

\* Every request and delivery is answered: nobody waits for ever for a row or
\* for another's insert, and a user whose profile was deleted is not tried
\* over and over.
EveryRequestAnswered == \A h \in Handler : pc[h] # "idle" ~> pc[h] = "idle"
=============================================================================
