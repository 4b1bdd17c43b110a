------------------------------ MODULE Listing ------------------------------
(***************************************************************************)
(* The listings of customer-service and vehicle-service: pages by id,      *)
(* walked by clients while rows come and go.                               *)
(*                                                                         *)
(* An id is drawn by the insert and the row is visible from its commit, so *)
(* that rows may appear behind a reader.  Customer-service caches each     *)
(* page for a TTL, by cursor, and no write invalidates it; vehicle-service *)
(* is this module with a Redis that never answers.  The limit is the same  *)
(* for all, as it is part of the key.                                      *)
(*                                                                         *)
(* Times are ages in ticks, which stop counting at Old: nothing depends on *)
(* how much older something is.                                            *)
(***************************************************************************)
EXTENDS Integers, FiniteSetsExt

CONSTANTS
  MaxId,    \* bound: ids the identity column hands out
  Client,   \* each walks the listing with one request at a time
  Limit,    \* limit, after defaultListLimit and maxListLimit
  TTL,      \* customersPageCacheTTL
  MaxFill,  \* bound: time between a request's List and its Set
  NoPage    \* null value

Stale == TTL + MaxFill   \* how old an answer can be
Old == Stale + 1
Age == 0 .. Old
Id == 1 .. MaxId
Cursor == 0 .. MaxId
Page == [ids : SUBSET Id, next : Cursor, more : BOOLEAN]

ASSUME ListingAssumption ==
  /\ MaxId \in Nat \ {0} /\ Limit \in Nat \ {0}
  /\ TTL \in Nat \ {0} /\ MaxFill \in Nat
  /\ NoPage \notin [page : Page, age : Nat]

VARIABLES
  row,       \* each id: "free", "drawn", "live" or "deleted"
  age,       \* time since a live row's commit or a deleted row's deletion
  cache,     \* by cursor: a page and the time since its Set
  stage,     \* each client's control state
  cursor,    \* the cursor of its request
  read,      \* the page its request has from List, and the time since
  last, owed \* the last id it got, and the rows it must still get

rows == <<row, age>>
walk == <<stage, cursor, read, last, owed>>
listingVars == <<rows, cache, walk>>

\* asking: the request is on its way.  read: its page comes from List and is
\* not in the cache yet.
Stage == {"idle", "asking", "read"}

\* A table with any rows, all of them old.
ListingInit ==
  /\ \E n \in Cursor : row = [i \in Id |-> IF i <= n THEN "live" ELSE "free"]
  /\ age = [i \in Id |-> IF row[i] = "live" THEN Old ELSE 0]
  /\ cache = [c \in Cursor |-> NoPage]
  /\ stage = [w \in Client |-> "idle"]
  /\ cursor = [w \in Client |-> 0]
  /\ read = [w \in Client |-> NoPage]
  /\ last = [w \in Client |-> 0]
  /\ owed = [w \in Client |-> {}]

-----------------------------------------------------------------------------
(* The table                                                               *)

\* INSERT draws the next id; the rest of the transaction may fail.
Insert(i) ==
  /\ row[i] = "free"
  /\ \A j \in Id : j < i => row[j] # "free"
  /\ row' = [row EXCEPT ![i] = "drawn"]
  /\ UNCHANGED <<age, cache, walk>>

\* COMMIT of an insert, in any order.
Commit(i) ==
  /\ row[i] = "drawn"
  /\ row' = [row EXCEPT ![i] = "live"]
  /\ UNCHANGED <<age, cache, walk>>

\* SoftDelete.
Delete(i) ==
  /\ row[i] = "live"
  /\ row' = [row EXCEPT ![i] = "deleted"]
  /\ age' = [age EXCEPT ![i] = 0]
  /\ owed' = [w \in Client |-> owed[w] \ {i}]
  /\ UNCHANGED <<cache, stage, cursor, read, last>>

-----------------------------------------------------------------------------
(* A request                                                               *)

\* WHERE id > cursor ORDER BY id LIMIT limit + 1.
Query(c) ==
  LET after == {i \in Id : i > c /\ row[i] = "live"}
  IN {i \in after : Cardinality({j \in after : j < i}) < Limit + 1}

\* Mutant: the cursor of the next page is the row that was fetched to see
\* whether there is one.
ListPast(c) ==
  LET ids == Query(c)
      more == Cardinality(ids) > Limit
  IN [ids |-> IF more THEN ids \ {Max(ids)} ELSE ids, more |-> more,
      next |-> IF more THEN Max(ids) ELSE 0]

\* List: the row past the limit only says that there is more.
List(c) ==
  LET ids == Query(c)
      more == Cardinality(ids) > Limit
      kept == IF more THEN ids \ {Max(ids)} ELSE ids
  IN [ids |-> kept, more |-> more, next |-> IF more THEN Max(kept) ELSE 0]

\* A client begins a walk.
Ask(w) ==
  /\ stage[w] = "idle"
  /\ stage' = [stage EXCEPT ![w] = "asking"]
  /\ owed' = [owed EXCEPT ![w] = {i \in Id : row[i] = "live" /\ age[i] > Stale}]
  /\ UNCHANGED <<rows, cache, cursor, read, last>>

\* The walk is over, by the last page or by an error.
Over(w) ==
  /\ stage' = [stage EXCEPT ![w] = "idle"]
  /\ cursor' = [cursor EXCEPT ![w] = 0]
  /\ last' = [last EXCEPT ![w] = 0]
  /\ owed' = [owed EXCEPT ![w] = {}]

\* The answer: the client asks for the next page when there is one.
Answered(w, p) ==
  /\ IF p.more
       THEN /\ stage' = [stage EXCEPT ![w] = "asking"]
            /\ cursor' = [cursor EXCEPT ![w] = p.next]
            /\ last' = [last EXCEPT ![w] = Max(p.ids)]
            /\ owed' = [owed EXCEPT ![w] = @ \ p.ids]
       ELSE Over(w)
  /\ UNCHANGED rows

\* Mutant: a key without the cursor.
KeyLess(w) == 0

\* customersPageCacheKeyFormat.
Key(w) == cursor[w]

\* GetCustomers finds the page in the cache.
Hit(w) ==
  /\ stage[w] = "asking"
  /\ cache[Key(w)] # NoPage
  /\ Answered(w, cache[Key(w)].page)
  /\ UNCHANGED <<cache, read>>

\* It is not there, or Redis does not answer: List.
Miss(w) ==
  /\ stage[w] = "asking"
  /\ read' = [read EXCEPT ![w] = [page |-> List(cursor[w]), age |-> 0]]
  /\ stage' = [stage EXCEPT ![w] = "read"]
  /\ UNCHANGED <<rows, cache, cursor, last, owed>>

\* The page goes to the cache, over what another request has put there, or
\* Set fails; and to the client.
Fill(w) ==
  /\ stage[w] = "read"
  /\ \/ cache' = [cache EXCEPT ![Key(w)] = [page |-> read[w].page, age |-> 0]]
     \/ UNCHANGED cache
  /\ Answered(w, read[w].page)
  /\ read' = [read EXCEPT ![w] = NoPage]

\* The database fails: 500.
Fail(w) ==
  /\ stage[w] # "idle"
  /\ Over(w)
  /\ read' = [read EXCEPT ![w] = NoPage]
  /\ UNCHANGED <<rows, cache>>

\* Time passes, and what has expired leaves the cache.  A tick is an interval:
\* a page may last into the tick TTL later, or not (Miss).
Older(p) == IF p = NoPage THEN p ELSE [p EXCEPT !.age = @ + 1]
Tick ==
  /\ \A w \in Client : read[w] # NoPage => read[w].age < MaxFill
  /\ age' = [i \in Id |-> IF row[i] \in {"live", "deleted"} /\ age[i] < Old
                          THEN age[i] + 1 ELSE age[i]]
  /\ cache' = [c \in Cursor |->
       IF cache[c] # NoPage /\ cache[c].age = TTL THEN NoPage ELSE Older(cache[c])]
  /\ read' = [w \in Client |-> Older(read[w])]
  /\ UNCHANGED <<row, stage, cursor, last, owed>>

ListingNext ==
  \/ \E i \in Id : Insert(i) \/ Commit(i) \/ Delete(i)
  \/ \E w \in Client : Ask(w) \/ Hit(w) \/ Miss(w) \/ Fill(w) \/ Fail(w)
  \/ Tick

ListingSpec == ListingInit /\ [][ListingNext]_listingVars

-----------------------------------------------------------------------------
(* Properties                                                              *)

ListingTypeOK ==
  /\ row \in [Id -> {"free", "drawn", "live", "deleted"}]
  /\ age \in [Id -> Age]
  /\ cache \in [Cursor -> [page : Page, age : 0 .. TTL] \cup {NoPage}]
  /\ stage \in [Client -> Stage]
  /\ cursor \in [Client -> Cursor]
  /\ read \in [Client -> [page : Page, age : 0 .. MaxFill] \cup {NoPage}]
  /\ last \in [Client -> Cursor]
  /\ owed \in [Client -> SUBSET Id]

\* The pages with which a client's request can be answered now.
Answers(w) ==
  {p.page : p \in (IF stage[w] = "asking" THEN {cache[Key(w)]} ELSE {read[w]}) \ {NoPage}}

\* A walk over all pages, some of them cached, some not, misses no row that was
\* there long enough before it began and is still there: not when rows before
\* the cursor are deleted or inserted, nor when the pages are of different ages.
WalkIsComplete ==
  \A w \in Client : \A p \in Answers(w) :
    {i \in owed[w] : p.more => i <= p.next} \subseteq p.ids

\* A client gets every row at most once, in the order of the ids, and no row
\* that is not committed or was deleted longer ago than a page can be old.
WalkIsTrue ==
  \A w \in Client : \A p \in Answers(w) : \A i \in p.ids :
    /\ i > last[w]
    /\ row[i] = "live" \/ (row[i] = "deleted" /\ age[i] <= Stale)
=============================================================================
