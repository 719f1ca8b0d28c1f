-------------------------- MODULE KeyListingProofs --------------------------
(***************************************************************************)
(* Paged listings, for every set of keys, page size and interleaving with  *)
(* announcements, life cycle changes and the selection of another tenant.  *)
(* The inductive invariant says where the cursor stands: what was shown    *)
(* does not lie beyond it, and what has to be shown was shown or does.     *)
(***************************************************************************)
EXTENDS KeyListing, TLAPS

Position == [created : Nat, id : Nat]
Cursors == {NoCursor} \cup [created : Nat, id : Key]

Shows(k) == k \in seen \cup page

\* What was shown is still in the table and not beyond the cursor.
ShownInv ==
    /\ \A k \in Key : Shows(k) => phase[k] = "stored"
    /\ \A k \in Key : Shows(k) /\ status # "ended" => ~Beyond(query.order, cursor, k)

\* What was there all along belongs to the tenant that is asked for, and was
\* shown or lies beyond the cursor.
SteadyInv ==
    \A k \in steady :
        /\ phase[k] = "stored" /\ match[k] /\ TenantOf[k] = TenantAsked
        /\ Shows(k) \/ (status # "ended" /\ Beyond(query.order, cursor, k))

\* A cursor the client holds has rows beyond it, unless one was taken away.
MoreInv ==
    calm /\ status = "open" /\ cursor # NoCursor
      => Candidates(TenantAsked, query.order, cursor) # {}

ClosedInv ==
    status = "closed" => cursor = NoCursor /\ seen = {} /\ page = {} /\ steady = {}

ListInv ==
    /\ TypeOK /\ ShownInv /\ SteadyInv /\ MoreInv /\ ClosedInv
    /\ PagesAdvance /\ CursorHasPage

-----------------------------------------------------------------------------
\* The row comparison is a strict total order.
LEMMA PrecedesOrder ==
    /\ \A a \in Position : ~Precedes(a, a)
    /\ \A a, b \in Position : Precedes(a, b) => ~Precedes(b, a)
    /\ \A a, b \in Position : Precedes(a, b) \/ Precedes(b, a) \/ a = b
    /\ \A a, b, c \in Position : Precedes(a, b) /\ Precedes(b, c) => Precedes(a, c)
  BY DEF Position, Precedes

\* The cursor made from a key is a position, and not the empty cursor.
LEMMA CursorType ==
    ASSUME TypeOK, NEW k \in Key
    PROVE  /\ CursorOf(k) \in Position /\ CursorOf(k) # NoCursor
           /\ CursorOf(k) \in [created : Nat, id : Key]
           /\ \A j \in Key : CursorOf(j) = CursorOf(k) => j = k
  <1>1. k \in Nat /\ created[k] \in Nat
    BY ListingAssumption, Zenon DEF TypeOK
  <1>2. CursorOf(k) \in [created : Nat, id : Key]
    BY <1>1, Zenon DEF CursorOf
  <1>3. CursorOf(k) \in Position
    BY <1>1, Zenon DEF CursorOf, Position
  <1>4. CursorOf(k) # NoCursor
    BY <1>1 DEF CursorOf, NoCursor
  <1>5. \A j \in Key : CursorOf(j) = CursorOf(k) => j = k
    BY Zenon DEF CursorOf
  <1> QED BY <1>2, <1>3, <1>4, <1>5, Zenon

\* The order of the result is a strict total order of the keys.
LEMMA BeforeOrder ==
    ASSUME TypeOK, NEW order, NEW i \in Key, NEW j \in Key, NEW k \in Key
    PROVE  /\ ~Before(order, i, i)
           /\ Before(order, i, j) /\ Before(order, j, k) => Before(order, i, k)
           /\ i # j => Before(order, i, j) \/ Before(order, j, i)
  <1>1. CursorOf(i) \in Position /\ CursorOf(j) \in Position /\ CursorOf(k) \in Position
    BY CursorType, Zenon
  <1>2. i # j => CursorOf(i) # CursorOf(j)
    BY CursorType, Zenon
  <1> QED BY <1>1, <1>2, PrecedesOrder, Zenon DEF Before

\* Beyond the cursor of a key are the keys that come after it.
LEMMA BeyondKey ==
    ASSUME TypeOK, NEW order, NEW j \in Key, NEW k \in Key
    PROVE  Beyond(order, CursorOf(j), k) <=> Before(order, j, k)
  BY CursorType, Zenon DEF Beyond, Before

\* What is not beyond a cursor comes before every row beyond it.
LEMMA BeyondSplits ==
    ASSUME TypeOK, NEW order, NEW j \in Key, NEW k \in Key, NEW c \in Cursors,
           ~Beyond(order, c, j), Beyond(order, c, k)
    PROVE  Before(order, j, k)
  <1>1. CursorOf(j) \in Position /\ CursorOf(k) \in Position
    BY CursorType, Zenon
  <1>2. c # NoCursor /\ c \in Position
    BY ListingAssumption, Zenon DEF Beyond, Cursors, Position
  <1> QED BY <1>1, <1>2, PrecedesOrder, Zenon DEF Beyond, Before

-----------------------------------------------------------------------------
LEMMA ListInit == Init => ListInv
  <1> SUFFICES ASSUME Init PROVE ListInv
    OBVIOUS
  <1>1. TypeOK
    BY ListingAssumption DEF Init, TypeOK
  <1> QED BY <1>1, Zenon DEF Init, ListInv, ShownInv, SteadyInv, MoreInv, ClosedInv, Shows,
              PagesAdvance, CursorHasPage

\* What only depends on the rows of the keys that are stored survives a step
\* that leaves those rows and the listing as they are.
LEMMA TableStep ==
    ASSUME ListInv, TypeOK', UNCHANGED <<selected, listing>>,
           \A k \in Key : phase[k] = "stored" =>
             phase'[k] = "stored" /\ created'[k] = created[k] /\ match'[k] = match[k]
    PROVE  ListInv'
  <1>1. \A k \in Key : \A o, c : phase[k] = "stored" => (Beyond(o, c, k)' <=> Beyond(o, c, k))
    BY DEF Beyond, Precedes, CursorOf
  <1>2. \A j, k \in Key : \A o : phase[k] = "stored" /\ phase[j] = "stored"
          => (Before(o, j, k)' <=> Before(o, j, k))
    BY DEF Before, Precedes, CursorOf
  <1>3. TenantAsked' = TenantAsked
    BY Zenon DEF TenantAsked, listing
  <1>4. ShownInv' /\ SteadyInv'
    BY <1>1, <1>3, Zenon DEF ListInv, ShownInv, SteadyInv, Shows, listing, TypeOK
  <1>5. MoreInv'
    <2>1. Candidates(TenantAsked, query.order, cursor)
            \subseteq Candidates(TenantAsked, query.order, cursor)'
      BY <1>1, <1>3, Zenon DEF Candidates, listing
    <2> QED BY <2>1, Zenon DEF ListInv, MoreInv, listing
  <1>6. PagesAdvance'
    BY <1>2, Zenon DEF ListInv, ShownInv, PagesAdvance, Shows, TypeOK, listing
  <1> QED BY <1>4, <1>5, <1>6, Zenon DEF ListInv, ClosedInv, CursorHasPage, listing

LEMMA TickStep == ListInv /\ Tick => ListInv'
  <1> SUFFICES ASSUME ListInv, Tick PROVE ListInv'
    OBVIOUS
  <1>1. TypeOK'
    BY ListingAssumption DEF ListInv, TypeOK, Tick, listing
  <1> QED BY <1>1, TableStep, Zenon DEF Tick

LEMMA AnnounceStep == ListInv /\ (\E k \in Key : Announce(k)) => ListInv'
  <1> SUFFICES ASSUME ListInv, NEW k \in Key, Announce(k) PROVE ListInv'
    OBVIOUS
  <1>1. TypeOK'
    BY ListingAssumption DEF ListInv, TypeOK, Announce, listing
  <1>2. \A j \in Key : phase[j] = "stored" =>
          phase'[j] = "stored" /\ created'[j] = created[j] /\ match'[j] = match[j]
    BY Zenon DEF ListInv, TypeOK, Announce
  <1> QED BY <1>1, <1>2, TableStep, Zenon DEF Announce

LEMMA CommitStep == ListInv /\ (\E k \in Key : Commit(k)) => ListInv'
  <1> SUFFICES ASSUME ListInv, NEW k \in Key, Commit(k) PROVE ListInv'
    OBVIOUS
  <1>1. TypeOK'
    BY Zenon DEF ListInv, TypeOK, Commit, listing
  <1>2. \A j \in Key : phase[j] = "stored" =>
          phase'[j] = "stored" /\ created'[j] = created[j] /\ match'[j] = match[j]
    BY Zenon DEF ListInv, TypeOK, Commit
  <1> QED BY <1>1, <1>2, TableStep, Zenon DEF Commit

LEMMA RollbackStep == ListInv /\ (\E k \in Key : Rollback(k)) => ListInv'
  <1> SUFFICES ASSUME ListInv, NEW k \in Key, Rollback(k) PROVE ListInv'
    OBVIOUS
  <1>1. TypeOK'
    BY Zenon DEF ListInv, TypeOK, Rollback, listing
  <1>2. \A j \in Key : phase[j] = "stored" =>
          phase'[j] = "stored" /\ created'[j] = created[j] /\ match'[j] = match[j]
    BY Zenon DEF ListInv, TypeOK, Rollback
  <1> QED BY <1>1, <1>2, TableStep, Zenon DEF Rollback

\* A key that changes is no longer owed to the client, and no cursor is.
LEMMA ChangeStep == ListInv /\ (\E k \in Key : Change(k)) => ListInv'
  <1> SUFFICES ASSUME ListInv, NEW k \in Key, Change(k) PROVE ListInv'
    OBVIOUS
  <1>1. TypeOK'
    BY Zenon DEF ListInv, TypeOK, Change
  <1>2. \A j \in Key : \A o, c : Beyond(o, c, j)' <=> Beyond(o, c, j)
    BY DEF Beyond, Precedes, CursorOf, Change
  <1>3. \A i, j \in Key : \A o : Before(o, i, j)' <=> Before(o, i, j)
    BY DEF Before, Precedes, CursorOf, Change
  <1>4. TenantAsked' = TenantAsked
    BY Zenon DEF TenantAsked, Change
  <1>5. ShownInv'
    BY <1>2, Zenon DEF ListInv, ShownInv, Shows, Change
  <1>6. SteadyInv'
    BY <1>2, <1>4, Zenon DEF ListInv, TypeOK, SteadyInv, Shows, Change
  <1>7. PagesAdvance'
    BY <1>3, Zenon DEF ListInv, TypeOK, PagesAdvance, Change
  <1> QED BY <1>1, <1>5, <1>6, <1>7, Zenon DEF ListInv, MoreInv, ClosedInv, CursorHasPage, Change

\* Selecting a tenant ends what is owed to a listing that goes by the selection.
LEMMA SelectStep == ListInv /\ (\E t \in Tenant : SelectTenant(t)) => ListInv'
  <1> SUFFICES ASSUME ListInv, NEW t \in Tenant, SelectTenant(t) PROVE ListInv'
    OBVIOUS
  <1>1. TypeOK'
    BY Zenon DEF ListInv, TypeOK, SelectTenant, table
  <1>2. \A j \in Key : \A o, c : Beyond(o, c, j)' <=> Beyond(o, c, j)
    BY DEF Beyond, Precedes, CursorOf, SelectTenant, table
  <1>3. \A i, j \in Key : \A o : Before(o, i, j)' <=> Before(o, i, j)
    BY DEF Before, Precedes, CursorOf, SelectTenant, table
  <1>4. query.by = "flag" => TenantAsked' = TenantAsked
    BY Zenon DEF TenantAsked, SelectTenant
  <1>5. query.by # "flag" => query.by = "selection"
    BY Zenon DEF ListInv, TypeOK, Query
  <1>6. ShownInv'
    BY <1>2, Zenon DEF ListInv, ShownInv, Shows, SelectTenant, table
  <1>7. SteadyInv'
    BY <1>2, <1>4, <1>5, Zenon DEF ListInv, TypeOK, SteadyInv, Shows, SelectTenant, table
  <1>8. MoreInv'
    <2> SUFFICES ASSUME calm', status' = "open", cursor' # NoCursor
                 PROVE  Candidates(TenantAsked, query.order, cursor)' # {}
      BY Zenon DEF MoreInv
    <2>1. calm /\ query.by = "flag"
      BY Zenon DEF SelectTenant, ListInv, TypeOK
    <2>2. Candidates(TenantAsked, query.order, cursor)'
            = Candidates(TenantAsked, query.order, cursor)
      BY <2>1, <1>2, <1>4, Zenon DEF Candidates, SelectTenant, table
    <2> QED BY <2>1, <2>2, Zenon DEF ListInv, MoreInv, SelectTenant
  <1>9. PagesAdvance'
    BY <1>3, Zenon DEF ListInv, TypeOK, PagesAdvance, SelectTenant
  <1> QED BY <1>1, <1>6, <1>7, <1>8, <1>9, Zenon
          DEF ListInv, TypeOK, ClosedInv, CursorHasPage, SelectTenant

LEMMA OpenStep == ListInv /\ (\E q \in Query : Open(q)) => ListInv'
  <1> SUFFICES ASSUME ListInv, NEW q \in Query, Open(q) PROVE ListInv'
    OBVIOUS
  <1>1. TypeOK'
    BY Zenon DEF ListInv, TypeOK, Open, table
  <1>2. cursor' = NoCursor /\ seen' = {} /\ page' = {}
    BY Zenon DEF ListInv, ClosedInv, Open
  <1>3. TenantAsked' = q.tenant
    BY Zenon DEF TenantAsked, Open, Query
  <1>4. SteadyInv'
    BY <1>2, <1>3, Zenon DEF SteadyInv, Shows, Beyond, Open, table
  <1> QED BY <1>1, <1>2, <1>4, Zenon
          DEF ListInv, ShownInv, Shows, MoreInv, ClosedInv, PagesAdvance, CursorHasPage, Open

LEMMA CloseStep == ListInv /\ Close => ListInv'
  <1> SUFFICES ASSUME ListInv, Close PROVE ListInv'
    OBVIOUS
  <1>1. TypeOK'
    BY Zenon DEF ListInv, TypeOK, Close, table
  <1> QED BY <1>1, Zenon DEF ListInv, ShownInv, Shows, SteadyInv, MoreInv, ClosedInv, PagesAdvance,
              CursorHasPage, Close

\* The page comes after all that was shown, whatever its size.
LEMMA PageFollows ==
    ASSUME ListInv, status = "open", NEW p,
           p \subseteq Candidates(TenantAsked, query.order, cursor)
    PROVE  \A j \in seen \cup page, k \in p : Before(query.order, j, k)
  <1> TAKE j \in seen \cup page, k \in p
  <1>1. j \in Key /\ k \in Key /\ cursor \in Cursors /\ TypeOK
    BY Zenon DEF ListInv, TypeOK, Cursors, Candidates
  <1>2. ~Beyond(query.order, cursor, j) /\ Beyond(query.order, cursor, k)
    BY <1>1, Zenon DEF ListInv, ShownInv, Shows, Candidates
  <1> QED BY <1>1, <1>2, BeyondSplits, Zenon

\* A page with a cursor: what it shows is not beyond the new cursor, and the rows
\* it leaves are.
LEMMA MorePage ==
    ASSUME ListInv, status = "open", NEW p, NEW k \in p,
           p \subseteq Candidates(TenantAsked, query.order, cursor),
           IsPage(p, Candidates(TenantAsked, query.order, cursor), query.order, query.limit),
           HasMore(Candidates(TenantAsked, query.order, cursor), query.limit),
           IsLast(k, p, query.order), Show(p, CursorOf(k)),
           UNCHANGED <<table, selected, query, steady>>
    PROVE  ListInv'
  <1> DEFINE rows == Candidates(TenantAsked, query.order, cursor)
  <1> USE DEF table
  <1>1. TypeOK /\ p \subseteq Key /\ k \in Key /\ cursor \in Cursors
    BY Zenon DEF ListInv, TypeOK, Cursors, Candidates
  <1>2. TypeOK'
    BY <1>1, CursorType, Zenon DEF TypeOK, Show
  <1>3. \A i, j \in Key : \A o : Before(o, i, j)' <=> Before(o, i, j)
    BY DEF Before, Precedes, CursorOf
  <1>4. \A j \in Key : \A o : Beyond(o, cursor, j)' <=> Before(o, k, j)
    <2>1. \A j \in Key : \A o : Beyond(o, CursorOf(k), j) <=> Before(o, k, j)
      BY <1>1, BeyondKey, Zenon
    <2>2. \A j \in Key : \A o : Beyond(o, cursor, j)' <=> Beyond(o, CursorOf(k), j)
      BY DEF Beyond, Precedes, CursorOf, Show
    <2> QED BY <2>1, <2>2, Zenon
  <1>5. TenantAsked' = TenantAsked
    BY Zenon DEF TenantAsked
  <1>6. \A j \in seen \cup page, i \in p : Before(query.order, j, i)
    BY PageFollows, Zenon
  <1>7. \A j \in seen \cup page \cup p : ~Before(query.order, k, j)
    <2> SUFFICES ASSUME NEW j \in seen \cup page \cup p PROVE ~Before(query.order, k, j)
      OBVIOUS
    <2>1. j \in Key
      BY <1>1, Zenon DEF TypeOK
    <2>2. j = k \/ Before(query.order, j, k)
      BY <1>6, Zenon DEF IsLast
    <2> QED BY <2>1, <2>2, <1>1, BeforeOrder, Zenon
  <1>8. ShownInv'
    <2>1. \A j \in Key : Shows(j)' => j \in seen \cup page \cup p
      BY Zenon DEF Shows, Show
    <2>2. \A j \in p : phase[j] = "stored"
      BY Zenon DEF Candidates
    <2>3. \A j \in Key : Shows(j)' => ~Beyond(query.order, cursor, j)'
      BY <2>1, <1>4, <1>7, Zenon
    <2> QED BY <2>1, <2>2, <2>3, Zenon DEF ListInv, ShownInv, Shows
  <1>9. rows \ p # {}
    <2>1. Cardinality(p) = PageSize(query.limit) /\ Cardinality(rows) > PageSize(query.limit)
      BY Zenon DEF IsPage, HasMore
    <2>2. PageSize(query.limit) \in Int
      <3>1. query.limit \in Limits
        BY <1>1, Zenon DEF TypeOK, Query
      <3>2. Limits \subseteq Int /\ DefaultPage \in Int
        BY ListingAssumption
      <3>3. \A l \in Int : PageSize(l) \in Int
        BY <3>2, Zenon DEF PageSize
      <3> QED BY <3>1, <3>2, <3>3, Zenon
    <2>3. p # rows
      <3> HIDE DEF rows
      <3> QED BY <2>1, <2>2
    <2> QED BY <2>3, Zenon
  <1>10. \A j \in rows \ p : Before(query.order, k, j)
    BY Zenon DEF IsPage
  <1>11. SteadyInv'
    <2> SUFFICES ASSUME NEW j \in steady
                 PROVE  /\ phase[j] = "stored" /\ match[j] /\ TenantOf[j] = TenantAsked
                        /\ Shows(j)' \/ Beyond(query.order, cursor, j)'
      BY <1>5, Zenon DEF SteadyInv, Show
    <2>1. /\ j \in Key /\ phase[j] = "stored" /\ match[j] /\ TenantOf[j] = TenantAsked
          /\ Shows(j) \/ Beyond(query.order, cursor, j)
      BY Zenon DEF ListInv, SteadyInv, TypeOK
    <2>2. Shows(j) => Shows(j)'
      BY Zenon DEF Shows, Show
    <2>3. ~Shows(j) => j \in rows
      BY <2>1, Zenon DEF Candidates
    <2>4. j \in p => Shows(j)'
      BY Zenon DEF Shows, Show
    <2>5. j \in rows \ p => Beyond(query.order, cursor, j)'
      BY <2>1, <1>4, <1>10, Zenon
    <2> QED BY <2>1, <2>2, <2>3, <2>4, <2>5, Zenon
  <1>12. MoreInv'
    <2>1. PICK j \in rows \ p : TRUE
      BY <1>9, Zenon
    <2>2. Before(query.order, k, j) /\ j \in Key
      BY <1>10, Zenon DEF Candidates
    <2>3. Beyond(query.order, cursor, j)'
      BY <2>2, <1>4, Zenon
    <2>4. j \in Candidates(TenantAsked, query.order, cursor)'
      BY <2>1, <2>2, <2>3, <1>5, Zenon DEF Candidates
    <2> QED BY <2>4, Zenon DEF MoreInv
  <1>13. PagesAdvance'
    BY <1>1, <1>3, <1>6, Zenon DEF PagesAdvance, Show, TypeOK
  <1> QED BY <1>2, <1>8, <1>11, <1>12, <1>13, Zenon DEF ListInv, ClosedInv, CursorHasPage, Show

\* The last page shows all the rows that are left.
LEMMA LastPage ==
    ASSUME ListInv, status = "open", NEW p,
           p = Candidates(TenantAsked, query.order, cursor), ShowLast(p),
           UNCHANGED <<table, selected, query, steady>>
    PROVE  ListInv'
  <1> USE DEF table
  <1>1. p \subseteq Key
    BY Zenon DEF Candidates
  <1>2. TypeOK'
    BY <1>1, Zenon DEF ListInv, TypeOK, ShowLast
  <1>3. \A i, j \in Key : \A o : Before(o, i, j)' <=> Before(o, i, j)
    BY DEF Before, Precedes, CursorOf
  <1>4. TenantAsked' = TenantAsked
    BY Zenon DEF TenantAsked
  <1>5. ShownInv'
    BY Zenon DEF ListInv, ShownInv, Shows, ShowLast, Candidates
  <1>6. SteadyInv'
    <2>1. \A j \in steady : Shows(j) \/ j \in p
      BY Zenon DEF ListInv, TypeOK, SteadyInv, Candidates
    <2> QED BY <2>1, <1>4, Zenon DEF ListInv, SteadyInv, Shows, ShowLast
  <1>7. PagesAdvance'
    BY <1>1, <1>3, PageFollows, Zenon DEF ListInv, TypeOK, PagesAdvance, ShowLast
  <1>8. CursorHasPage'
    <2> SUFFICES ASSUME calm, p = {} PROVE seen \cup page = {}
      BY Zenon DEF CursorHasPage, ShowLast
    <2>1. cursor = NoCursor
      BY Zenon DEF ListInv, MoreInv
    <2>2. \A j \in Key : ~Shows(j)
      BY <2>1, Zenon DEF ListInv, ShownInv, Beyond
    <2> QED BY <2>2, Zenon DEF Shows, ListInv, TypeOK
  <1> QED BY <1>2, <1>5, <1>6, <1>7, <1>8, Zenon DEF ListInv, MoreInv, ClosedInv, ShowLast

LEMMA ListKeysStep == ListInv /\ ListKeys => ListInv'
  <1> SUFFICES ASSUME ListInv, ListKeys PROVE ListInv'
    OBVIOUS
  <1> DEFINE rows == Candidates(TenantAsked, query.order, cursor)
  <1>1. PICK p \in SUBSET rows :
          /\ IsPage(p, rows, query.order, query.limit)
          /\ IF HasMore(rows, query.limit)
               THEN \E k \in p : IsLast(k, p, query.order) /\ Show(p, CursorOf(k))
               ELSE ShowLast(p)
    BY Zenon DEF ListKeys
  <1>2. status = "open" /\ UNCHANGED <<table, selected, query, steady>>
    BY Zenon DEF ListKeys
  <1>3. CASE HasMore(rows, query.limit)
    BY <1>1, <1>2, <1>3, MorePage, Zenon
  <1>4. CASE ~HasMore(rows, query.limit)
    <2>1. p = rows
      BY <1>1, <1>4, Zenon DEF IsPage
    <2> QED BY <1>1, <1>2, <1>4, <2>1, LastPage, Zenon
  <1> QED BY <1>3, <1>4, Zenon

LEMMA ListIdle == ListInv /\ UNCHANGED vars => ListInv'
  <1> SUFFICES ASSUME ListInv, UNCHANGED vars PROVE ListInv'
    OBVIOUS
  <1>1. TypeOK'
    BY Zenon DEF ListInv, TypeOK, vars, table, listing
  <1> QED BY <1>1, TableStep, Zenon DEF vars, table

\* The invariant holds in every state of every behaviour.
THEOREM ListingInvariant == Spec => []ListInv
  <1>1. ListInv /\ [Next]_vars => ListInv'
    BY TickStep, AnnounceStep, CommitStep, RollbackStep, ChangeStep, SelectStep, OpenStep,
       ListKeysStep, CloseStep, ListIdle, Zenon DEF Next
  <1> QED BY <1>1, ListInit, PTL DEF Spec

\* The types of the listing's state.
THEOREM ListingTypes == Spec => []TypeOK
  <1>1. ListInv => TypeOK
    BY Zenon DEF ListInv
  <1> QED BY <1>1, ListingInvariant, PTL

\* No listing, of any page size and any number of keys, shows a key twice or out
\* of order.
THEOREM ListingAdvances == Spec => []PagesAdvance
  <1>1. ListInv => PagesAdvance
    BY Zenon DEF ListInv
  <1> QED BY <1>1, ListingInvariant, PTL

\* A listing that ends has shown all that was there to be shown all along.
THEOREM ListingShowsAll == Spec => []ListingComplete
  <1>1. ListInv => ListingComplete
    BY Zenon DEF ListInv, SteadyInv, Shows, ListingComplete
  <1> QED BY <1>1, ListingInvariant, PTL

\* A cursor is followed by a page that has rows, unless a key or the selection
\* changed.
THEOREM ListingCursorGood == Spec => []CursorHasPage
  <1>1. ListInv => CursorHasPage
    BY Zenon DEF ListInv
  <1> QED BY <1>1, ListingInvariant, PTL

=============================================================================
