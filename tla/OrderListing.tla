---------------------------- MODULE OrderListing ----------------------------
(***************************************************************************)
(* Keyset pagination: a client pages through Store.List while orders are   *)
(* created and cancelled under it.  Both stores answer alike.  An order's  *)
(* created_at is taken from the clock before its transaction begins, so    *)
(* orders may become visible out of the order of the sort key.             *)
(***************************************************************************)
EXTENDS Naturals, FiniteSets, Sequences, Functions

CONSTANTS
  OrderIds,             \* uuids, as numbers: their order is no order of creation
  ListTenants,
  PageSizes,            \* what clients ask for, as ListFilter.PageSize
  DefaultPageSize, MaxPageSize,
  MaxTime               \* bound: the last created_at

ASSUME ListingAssumption ==
  /\ IsFiniteSet(OrderIds)          \* 128 bits
  /\ OrderIds \subseteq Nat \ {0} /\ PageSizes \subseteq Nat /\ MaxTime \in Nat
  /\ MaxPageSize \in Nat /\ DefaultPageSize \in 1..MaxPageSize

VARIABLES
  wall,                 \* the wall clock
  rows,                 \* every order: absent, in a transaction, or committed
  listing,              \* the filter and token of the client's next request, "off" or "done"
  seen,                 \* history: the orders returned so far
  owed                  \* history: orders this listing must still return

listVars == <<wall, rows, listing, seen, owed>>

NoRow == [state |-> "absent", at |-> 0, tenant |-> "", status |-> "PENDING"]
NoToken == [at |-> 0, id |-> 0, hash |-> [tenant |-> "", status |-> ""]]
Filters == [tenant : ListTenants, status : {"UNSPECIFIED", "PENDING"}]

\* Where a listing stands: not begun, between two pages, or over.
Listing(stage, f, token) == [stage |-> stage, filter |-> f, token |-> token]
NoListing == Listing("off", NoToken.hash, NoToken)

ListingTypeOK ==
  /\ wall \in 0..MaxTime
  /\ \A o \in OrderIds : /\ rows[o].state \in {"absent", "open", "stored"}
                         /\ rows[o].at \in 0..wall
                         /\ rows[o].status \in {"PENDING", "CANCELLED"}
  /\ listing.stage \in {"off", "paging", "done"}
  /\ seen \in Seq(OrderIds) /\ owed \subseteq OrderIds

ListingInit ==
  /\ wall = 0
  /\ rows = [o \in OrderIds |-> NoRow]
  /\ listing = NoListing /\ seen = <<>> /\ owed = {}

-----------------------------------------------------------------------------
(* Queries *)

\* ClampPageSize.
ClampPageSize(n) == CASE n <= 0 -> DefaultPageSize
                      [] n > MaxPageSize -> MaxPageSize
                      [] OTHER -> n

\* The WHERE clause of List: the tenant and the optional status.
Matches(o, f) ==
  /\ rows[o].state = "stored" /\ rows[o].tenant = f.tenant
  /\ f.status # "UNSPECIFIED" => rows[o].status = f.status

\* Mutant: the cursor compares timestamps alone.
Beyond_TimeOnly(o, token) == rows[o].at > token.at

\* (created_at, id) > (after, afterID).
Beyond(o, token) ==
  \/ rows[o].at > token.at
  \/ rows[o].at = token.at /\ o > token.id

\* ORDER BY created_at, id: each order of S once, the smaller key first.
Precedes(o, p) == rows[o].at < rows[p].at \/ (rows[o].at = rows[p].at /\ o < p)
Sortings(S) ==
  {s \in [1..Cardinality(S) -> S] :
     Range(s) = S /\ \A i, j \in 1..Cardinality(S) : i < j => Precedes(s[i], s[j])}

\* Every match after the cursor; NoToken, before all keys, is the first page's.
MatchesAfter(f, token) == {o \in OrderIds : Matches(o, f) /\ Beyond(o, token)}

\* EncodePageToken: the sort key of the last row returned and the filter it was
\* issued for, whose 32-bit hash is taken to tell filters apart.
EncodePageToken(f, o) == [at |-> rows[o].at, id |-> o, hash |-> f]

\* DecodePageToken: without a token the listing starts over; a token issued for
\* another filter is refused.
DecodePageToken(f, token) == token = NoToken \/ token.hash = f

-----------------------------------------------------------------------------
(* Actions *)

WallTicks ==
  /\ wall < MaxTime
  /\ wall' = wall + 1
  /\ UNCHANGED <<rows, listing, seen, owed>>

\* Service.Create: created_at is now; the transaction begins.
Stamp(o, t) ==
  /\ rows[o].state = "absent"
  /\ rows' = [rows EXCEPT ![o] = [state |-> "open", at |-> wall, tenant |-> t, status |-> "PENDING"]]
  /\ UNCHANGED <<wall, listing, seen, owed>>

\* The insert commits, or the transaction rolls back.  A running listing owes
\* the order if its key is still ahead.
StoreOrder(o) ==
  /\ rows[o].state = "open"
  /\ \/ /\ rows' = [rows EXCEPT ![o].state = "stored"]
        /\ owed' = IF /\ listing.stage = "paging" /\ rows[o].tenant = listing.filter.tenant
                      /\ Beyond(o, listing.token)
                   THEN owed \union {o} ELSE owed
     \/ rows' = [rows EXCEPT ![o] = NoRow] /\ UNCHANGED owed
  /\ UNCHANGED <<wall, listing, seen>>

\* Cancel: the order leaves the listings of pending orders.
CancelOrder(o) ==
  /\ rows[o].state = "stored" /\ rows[o].status = "PENDING"
  /\ rows' = [rows EXCEPT ![o].status = "CANCELLED"]
  /\ owed' = IF listing.filter.status = "PENDING" THEN owed \ {o} ELSE owed
  /\ UNCHANGED <<wall, listing, seen>>

\* List: one row more than the page tells whether there is a next page.
Page(f, found, n) ==
  LET size == ClampPageSize(n)
      page == SubSeq(found, 1, IF Len(found) > size THEN size ELSE Len(found))
  IN [orders |-> page,
      next |-> IF Len(found) > size THEN EncodePageToken(f, page[size]) ELSE NoToken]

\* A client asks for the first page, or for the one its token leads to; it may
\* send a token with a filter it was not issued for.
List(f, n) ==
  /\ listing.stage # "done"
  /\ DecodePageToken(f, listing.token)
  /\ \E found \in Sortings(MatchesAfter(f, listing.token)) :
     LET page == Page(f, found, n)
         before == IF listing.stage = "off" THEN MatchesAfter(f, NoToken) ELSE owed
     IN /\ seen' = seen \o page.orders
        /\ owed' = before \ Range(page.orders)
        /\ listing' = Listing(IF page.next = NoToken THEN "done" ELSE "paging", f, page.next)
  /\ UNCHANGED <<wall, rows>>

ListingNext ==
  \/ WallTicks
  \/ \E o \in OrderIds : StoreOrder(o) \/ CancelOrder(o) \/ (\E t \in ListTenants : Stamp(o, t))
  \/ \E f \in Filters, n \in PageSizes : List(f, n)

ListingSpec == ListingInit /\ [][ListingNext]_listVars

-----------------------------------------------------------------------------
(* Properties *)

\* Whatever is created and cancelled between two pages, a listing returns no
\* order twice and none of another tenant, in the order of the sort key, and
\* when it ends it has returned every order that matched throughout and every
\* one that became visible ahead of its cursor (List, cursor).
ListingsAreExact ==
  /\ \A i, j \in DOMAIN seen : i < j => Precedes(seen[i], seen[j])
  /\ \A i \in DOMAIN seen : rows[seen[i]].tenant = listing.filter.tenant
  /\ listing.stage = "done" => owed = {}
=============================================================================
