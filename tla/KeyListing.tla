----------------------------- MODULE KeyListing -----------------------------
(***************************************************************************)
(* Reading a tenant's keys in pages while keys are announced and change:   *)
(* `kr get keys` calls KeyService.ListKeys again and again, each time with *)
(* the cursor the page before it came with, and each call is one SELECT.   *)
(*                                                                         *)
(* Keys are named by their ids; the order of ids is the order the database *)
(* compares them in.  Whether a key passes the query's filters is one      *)
(* Boolean, which its life cycle may change at any time.                   *)
(***************************************************************************)
EXTENDS Integers, FiniteSets

CONSTANTS Key,          \* the ids of all keys that will ever be announced
          TenantOf,     \* the tenant of each
          Limits,       \* the values of --limit
          DefaultPage,  \* the page size for a limit that is not positive
          MaxClock      \* bound on the clock

Tenant == {TenantOf[k] : k \in Key}

ASSUME ListingAssumption ==
    /\ Key \subseteq Nat /\ IsFiniteSet(Key)
    /\ TenantOf \in [Key -> Tenant]
    /\ Limits \subseteq Int
    /\ DefaultPage \in Nat \ {0}
    /\ MaxClock \in Nat

VARIABLES clock,     \* what clock.Now() returns
          phase,     \* each key: not announced, in a transaction, in the table
          created,   \* the created_at of each key
          match,     \* whether the key passes the filters of the listing
          selected,  \* the tenant the client's state file names
          status,    \* the listing: "closed", "open" or "ended"
          query,     \* its --order and --limit, and whom it asks for
          cursor,    \* the cursor of the last answer
          seen,      \* the keys shown on all pages but the last
          page,      \* the keys shown on the last page
          steady,    \* the keys that were there to be shown all along
          calm       \* no key has left or joined since the last answer

table == <<clock, phase, created, match>>
listing == <<status, query, cursor, seen, page, steady, calm>>
vars == <<table, selected, listing>>

NoCursor == [created |-> 0, id |-> -1]

\* A query names its tenant (--tenant-id) or goes by the one that is selected.
Query == [order : {"asc", "desc"}, limit : Limits, by : {"flag", "selection"}, tenant : Tenant]

-----------------------------------------------------------------------------
(* The statement of KeyStore.ListKeys *)

\* The row comparison (created_at, id) < (created_at, id).
Precedes(a, b) ==
    \/ a.created < b.created
    \/ a.created = b.created /\ a.id < b.id

\* NewCursor; Encode and DecodeCursor give back what they are given.
CursorOf(k) == [created |-> created[k], id |-> k]

\* The order of the result.
Before(order, j, k) ==
    IF order = "asc" THEN Precedes(CursorOf(j), CursorOf(k)) ELSE Precedes(CursorOf(k), CursorOf(j))

\* Faulty variants: the cursor's own row is returned again; only its time is
\* compared.
BeyondOrAt(order, c, k) ==
    c = NoCursor \/ CursorOf(k) = c
      \/ IF order = "asc" THEN Precedes(c, CursorOf(k)) ELSE Precedes(CursorOf(k), c)

BeyondInTime(order, c, k) ==
    c = NoCursor
      \/ IF order = "asc" THEN c.created < created[k] ELSE created[k] < c.created

Beyond(order, c, k) ==
    c = NoCursor
      \/ IF order = "asc" THEN Precedes(c, CursorOf(k)) ELSE Precedes(CursorOf(k), c)

\* The rows the WHERE clause leaves.
Candidates(tenant, order, c) ==
    {k \in Key : /\ phase[k] = "stored" /\ TenantOf[k] = tenant /\ match[k]
                 /\ Beyond(order, c, k)}

PageSize(limit) == IF limit <= 0 THEN DefaultPage ELSE limit

\* A faulty variant: a full page is taken for one that has a successor.
HasMoreWhenFull(rows, limit) == Cardinality(rows) >= PageSize(limit)

\* One row more than the page holds is fetched to find out.
HasMore(rows, limit) == Cardinality(rows) > PageSize(limit)

\* The page: all of the rows, or as many of the first as it holds.
IsPage(p, rows, order, limit) ==
    IF HasMore(rows, limit)
      THEN /\ Cardinality(p) = PageSize(limit)
           /\ \A j \in p, k \in rows \ p : Before(order, j, k)
      ELSE p = rows

\* The row the cursor is made from: the last of the page.
IsLast(k, p, order) == k \in p /\ \A j \in p \ {k} : Before(order, j, k)

-----------------------------------------------------------------------------
Init ==
    /\ clock = 0
    /\ phase = [k \in Key |-> "none"]
    /\ created = [k \in Key |-> 0]
    /\ match = [k \in Key |-> FALSE]
    /\ selected \in Tenant
    /\ status = "closed" /\ query \in Query
    /\ cursor = NoCursor /\ seen = {} /\ page = {} /\ steady = {} /\ calm = TRUE

Tick ==
    /\ clock < MaxClock
    /\ clock' = clock + 1
    /\ UNCHANGED <<phase, created, match, selected, listing>>

\* AnnounceKey: NewKey reads the clock, and the transaction begins.
Announce(k) ==
    /\ phase[k] = "none"
    /\ phase' = [phase EXCEPT ![k] = "announcing"]
    /\ created' = [created EXCEPT ![k] = clock]
    /\ \E passes \in BOOLEAN : match' = [match EXCEPT ![k] = passes]
    /\ UNCHANGED <<clock, selected, listing>>

\* CreateKey is committed, perhaps long after the clock was read, or undone.
Commit(k) ==
    /\ phase[k] = "announcing"
    /\ phase' = [phase EXCEPT ![k] = "stored"]
    /\ UNCHANGED <<clock, created, match, selected, listing>>

Rollback(k) ==
    /\ phase[k] = "announcing"
    /\ phase' = [phase EXCEPT ![k] = "none"]
    /\ created' = [created EXCEPT ![k] = 0]
    /\ match' = [match EXCEPT ![k] = FALSE]
    /\ UNCHANGED <<clock, selected, listing>>

\* The key's life cycle moves it into or out of the filter.
Change(k) ==
    /\ phase[k] = "stored"
    /\ match' = [match EXCEPT ![k] = ~@]
    /\ steady' = steady \ {k}
    /\ calm' = FALSE
    /\ UNCHANGED <<clock, phase, created, selected, status, query, cursor, seen, page>>

\* `kr select tenant` in the same home directory. A listing that was begun
\* without --tenant-id goes on with the keys of another tenant.
SelectTenant(t) ==
    /\ t # selected
    /\ selected' = t
    /\ steady' = IF query.by = "selection" THEN {} ELSE steady
    /\ calm' = (calm /\ query.by = "flag")
    /\ UNCHANGED <<table, status, query, cursor, seen, page>>

\* The tenant of the request: selectedTenantID is read by every command anew.
TenantAsked == IF query.by = "flag" THEN query.tenant ELSE selected

\* The first `kr get keys`, without --cursor, is about to be run.
Open(q) ==
    /\ status = "closed"
    /\ q.by = "selection" => q.tenant = selected
    /\ status' = "open" /\ query' = q
    /\ steady' = {k \in Key : phase[k] = "stored" /\ TenantOf[k] = q.tenant /\ match[k]}
    /\ calm' = TRUE
    /\ UNCHANGED <<table, selected, cursor, seen, page>>

\* The answer reaches the client: the rows, and the cursor if there is more.
Show(p, c) ==
    /\ seen' = seen \cup page /\ page' = p
    /\ cursor' = c
    /\ calm' = TRUE
    /\ UNCHANGED status

\* An answer without a cursor, or NotFound when there are no rows.
ShowLast(p) ==
    /\ seen' = seen \cup page /\ page' = p
    /\ status' = "ended"
    /\ UNCHANGED <<cursor, calm>>

\* A faulty variant: the cursor is made from the row that was fetched on top.
SkipOne ==
    /\ status = "open"
    /\ LET rows == Candidates(TenantAsked, query.order, cursor)
       IN  \E p \in SUBSET rows :
             /\ IsPage(p, rows, query.order, query.limit)
             /\ IF HasMore(rows, query.limit)
                  THEN \E k \in rows \ p : /\ \A j \in rows \ (p \cup {k}) : Before(query.order, k, j)
                                           /\ Show(p, CursorOf(k))
                  ELSE ShowLast(p)
    /\ UNCHANGED <<table, selected, query, steady>>

\* One page. An answer that is lost or an Internal error leaves the client where
\* it was, to ask again.
ListKeys ==
    /\ status = "open"
    /\ LET rows == Candidates(TenantAsked, query.order, cursor)
       IN  \E p \in SUBSET rows :
             /\ IsPage(p, rows, query.order, query.limit)
             /\ IF HasMore(rows, query.limit)
                  THEN \E k \in p : IsLast(k, p, query.order) /\ Show(p, CursorOf(k))
                  ELSE ShowLast(p)
    /\ UNCHANGED <<table, selected, query, steady>>

Close ==
    /\ status # "closed"
    /\ status' = "closed" /\ cursor' = NoCursor
    /\ seen' = {} /\ page' = {} /\ steady' = {} /\ calm' = TRUE
    /\ UNCHANGED <<table, selected, query>>

Next ==
    \/ Tick \/ ListKeys \/ Close
    \/ \E k \in Key : Announce(k) \/ Commit(k) \/ Rollback(k) \/ Change(k)
    \/ \E t \in Tenant : SelectTenant(t)
    \/ \E q \in Query : Open(q)

Spec == Init /\ [][Next]_vars

-----------------------------------------------------------------------------
(* Properties *)

\* The type invariant: what the variables hold.
TypeOK ==
    /\ clock \in 0 .. MaxClock
    /\ phase \in [Key -> {"none", "announcing", "stored"}]
    /\ created \in [Key -> Nat]
    /\ match \in [Key -> BOOLEAN]
    /\ selected \in Tenant
    /\ status \in {"closed", "open", "ended"} /\ query \in Query
    /\ cursor \in {NoCursor} \cup [created : Nat, id : Key]
    /\ seen \subseteq Key /\ page \subseteq Key /\ steady \subseteq Key
    /\ calm \in BOOLEAN

\* Page after page of `kr get keys` moves on in the order that was asked for:
\* every key of a page comes after every key of the pages before it, so none is
\* shown twice, although keys that tie in created_at are split between pages,
\* and whatever is announced, changed or selected between two calls.
PagesAdvance ==
    \A j \in seen, k \in page : Before(query.order, j, k)

\* A listing that has ended, with a last page or with NotFound, has shown every
\* key that was in the table when the first page was asked for and passed the
\* filters all along; announcements committed meanwhile, also ones with an
\* older created_at, push none of them out.
ListingComplete == status = "ended" => steady \subseteq seen \cup page

\* A cursor is only handed out when there is another page: while no key of the
\* tenant changes and no other tenant is selected, the call that follows it is
\* not answered with NotFound.
CursorHasPage == status = "ended" /\ calm /\ page = {} => seen = {}

=============================================================================
