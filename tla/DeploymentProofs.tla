-------------------------- MODULE DeploymentProofs --------------------------
(***************************************************************************)
(* What RootConfig.Validate accepts, and what follows from it when nodes   *)
(* start, register, stop and seal for each other: proofs for hierarchies   *)
(* and topologies of any size.                                             *)
(***************************************************************************)
EXTENDS Deployment, WellFoundedInduction, TLAPS

-----------------------------------------------------------------------------
(* The inductive invariant *)

\* The processes that have a segment, and the segment.
Known(n) == n = RootNode \/ InTopology(n)
Seg(n) == IF n = RootNode THEN cfg.segment ELSE SegmentOf(n).segment

\* The root runs with what it has checked, and an agent was given its parent.
NodesInv ==
    /\ node[RootNode] = "up" => Validate(cfg)
    /\ \A a \in Agents : node[a] \in {"registered", "up"} =>
         /\ Validate(cfg) /\ InTopology(a)
         /\ \E p \in ParentNames(SegmentOf(a)) : conns[a] = {p}

\* An announced key is managed by its node, and its parent was announced before.
PlacedInv ==
    \A k \in Kinds : home[k] # NoNode =>
        /\ Validate(cfg) /\ Known(home[k]) /\ Manages(home[k], k)
        /\ RoleOf(H, k) # "root" => home[ParentKind(k)] # NoNode

\* The request has reached a key that the node has a processor for.
ClimbInv ==
    /\ walk.state # "idle" =>
         walk.key \in Kinds /\ home[walk.key] # NoNode /\ RoleOf(H, walk.key) # "root"
    /\ walk.state = "climbing" =>
         /\ Validate(cfg) /\ Known(walk.node)
         /\ walk.kind \in DOMAIN Bindings(walk.node) /\ RoleOf(H, walk.kind) # "root"

\* What holds of all configurations.
DeployInv == TypeOK /\ cfg \in Configs /\ NodesInv /\ PlacedInv /\ ClimbInv

\* What fails has one of the defects that are not checked, and the request is at
\* the node of the key it has reached.
ServeInv ==
    /\ AcceptedBoots /\ AcceptedServes
    /\ walk.state = "climbing" => home[walk.kind] = walk.node

-----------------------------------------------------------------------------
(* Places in the hierarchy *)

\* A set of natural numbers that is not empty has a least element.
LEMMA LeastNat ==
    ASSUME NEW T \in SUBSET Nat, T # {}
    PROVE  \E x \in T : \A y \in T : x <= y
<1> DEFINE R == OpToRel(<, Nat)
<1>1. IsWellFoundedOn(R, Nat)
  BY NatLessThanWellFounded, Zenon
<1>2. \A x, y \in Nat : x < y => <<x, y>> \in R
  BY Zenon DEF OpToRel
<1> HIDE DEF R
<1>3. PICK x \in T : \A y \in T : ~ (<<y, x>> \in R)
  BY <1>1, WFMin, Zenon
<1>4. \A y \in T : ~ (y < x)
  BY <1>2, <1>3, Zenon
<1> QED BY <1>3, <1>4

\* IndexOf finds the kind, or is 0.
LEMMA IndexFound ==
    ASSUME NEW S, NEW h \in Seq(S), NEW kind
    PROVE  /\ IndexOf(h, kind) \in 0 .. Len(h)
           /\ IndexOf(h, kind) # 0 => h[IndexOf(h, kind)].kind = kind
<1> DEFINE at == {i \in 1 .. Len(h) : h[i].kind = kind}
<1>1. CASE at = {}
  BY <1>1 DEF IndexOf
<1>2. CASE at # {}
  <2>1. at \in SUBSET Nat OBVIOUS
  <2> HIDE DEF at
  <2>2. \E i \in at : \A j \in at : i <= j BY <1>2, <2>1, LeastNat, Zenon
  <2> DEFINE k == CHOOSE i \in at : \A j \in at : i <= j
  <2>3. k \in at BY <2>2, Zenon
  <2>4. IndexOf(h, kind) = k BY <1>2, Zenon DEF IndexOf, at
  <2> HIDE DEF k
  <2> QED BY <2>3, <2>4 DEF at
<1> QED BY <1>1, <1>2, Zenon

\* In a hierarchy that is valid every kind has one place, and only the first is
\* the root key's.
LEMMA IndexUnique ==
    ASSUME NEW S, NEW h \in Seq(S), HierarchyValid(h), NEW i \in 1 .. Len(h)
    PROVE  /\ IndexOf(h, h[i].kind) = i /\ RoleOf(h, h[i].kind) = h[i].role
           /\ h[i].role = "root" <=> i = 1
<1>1. IndexOf(h, h[i].kind) # 0
  <2>1. PICK k : k = h[i].kind OBVIOUS
  <2> DEFINE at == {j \in 1 .. Len(h) : h[j].kind = k}
  <2>2. i \in at /\ at \in SUBSET (Nat \ {0}) BY <2>1
  <2> HIDE DEF at
  <2>3. \E m \in at : \A j \in at : m <= j BY <2>2, LeastNat, Zenon
  <2>4. (CHOOSE m \in at : \A j \in at : m <= j) \in at BY <2>3, Zenon
  <2>5. IndexOf(h, k) \in at BY <2>2, <2>4, Zenon DEF IndexOf, at
  <2> QED BY <2>1, <2>2, <2>5, Zenon
<1>2. /\ IndexOf(h, h[i].kind) \in 1 .. Len(h)
      /\ h[IndexOf(h, h[i].kind)].kind = h[i].kind
  BY <1>1, IndexFound
<1>3. IndexOf(h, h[i].kind) = i
  BY <1>2, Zenon DEF HierarchyValid
<1>4. RoleOf(h, h[i].kind) = h[i].role
  BY <1>3 DEF RoleOf, RoleAt
<1>5. h[i].role = "root" <=> i = 1
  <2>1. i = 1 \/ i \in 2 .. Len(h) - 1 \/ (i = Len(h) /\ Len(h) > 1) OBVIOUS
  <2>2. h[1].role = "root" BY Zenon DEF HierarchyValid
  <2>3. CASE i \in 2 .. Len(h) - 1 BY <2>3, Zenon DEF HierarchyValid
  <2>4. CASE i = Len(h) /\ Len(h) > 1 BY <2>4, Zenon DEF HierarchyValid
  <2> QED BY <2>1, <2>2, <2>3, <2>4, Zenon
<1> QED BY <1>3, <1>4, <1>5, Zenon

-----------------------------------------------------------------------------
(* A configuration that Validate accepts *)

Accepted == cfg \in Configs /\ Validate(cfg)

\* The hierarchy is valid, and its kinds are found at their places.
LEMMA HierarchyFacts ==
    ASSUME Accepted
    PROVE  /\ H \in Seq([kind : Kinds, role : STRING]) /\ HierarchyValid(H) /\ Len(H) \in Nat
           /\ \A kind : IndexOf(H, kind) \in 0 .. Len(H)
           /\ \A kind : IndexOf(H, kind) # 0 => H[IndexOf(H, kind)].kind = kind
           /\ \A i \in 1 .. Len(H) :
                /\ H[i].kind \in Kinds
                /\ IndexOf(H, H[i].kind) = i /\ RoleOf(H, H[i].kind) = H[i].role
                /\ H[i].role = "root" <=> i = 1
<1>1. H \in Seq([kind : Kinds, role : STRING])
  BY ConfigsAssumption, Zenon DEF Accepted, H
<1>2. HierarchyValid(H)
  BY Zenon DEF Accepted, Validate, H
<1>3. PICK h \in Seq([kind : Kinds, role : STRING]) : h = H
  BY <1>1, Zenon
<1>4. /\ \A kind : IndexOf(h, kind) \in 0 .. Len(h)
      /\ \A kind : IndexOf(h, kind) # 0 => h[IndexOf(h, kind)].kind = kind
  BY IndexFound, Zenon
<1>5. \A i \in 1 .. Len(h) :
        /\ IndexOf(h, h[i].kind) = i /\ RoleOf(h, h[i].kind) = h[i].role
        /\ h[i].role = "root" <=> i = 1
  BY <1>2, <1>3, IndexUnique, Zenon
<1>6. Len(h) \in Nat /\ \A i \in 1 .. Len(h) : h[i].kind \in Kinds
  <2>1. \A S : \A e \in Seq(S) : Len(e) \in Nat /\ \A i \in 1 .. Len(e) : e[i] \in S OBVIOUS
  <2>2. \A e \in [kind : Kinds, role : STRING] : e.kind \in Kinds OBVIOUS
  <2> QED BY <2>1, <2>2, Zenon
<1> QED BY <1>2, <1>3, <1>4, <1>5, <1>6, Zenon

\* GetSegmentByName finds the segment of that name, which is also the one the
\* checks took the provider for.
LEMMA SegmentFound ==
    ASSUME NEW a, InTopology(a)
    PROVE  /\ SegmentOf(a) \in Segments(cfg.topology) /\ SegmentOf(a).name = a
           /\ Providers(cfg.topology, cfg.segment)[a] = SegmentOf(a).segment
<1>1. \E t \in Segments(cfg.topology) : t.name = a
  BY Zenon DEF InTopology, NamesOf
<1>2. SegmentOf(a) \in Segments(cfg.topology) /\ SegmentOf(a).name = a
  BY <1>1, Zenon DEF SegmentOf
<1>3. Providers(cfg.topology, cfg.segment)[a] = SegmentOf(a).segment
  BY Zenon DEF Providers, InTopology, SegmentOf
<1> QED BY <1>2, <1>3, Zenon

\* The names of agents stand for no other node.
LEMMA KnownNodes ==
    ASSUME Accepted
    PROVE  /\ \A a : InTopology(a) => a \in Agents /\ a # RootNode
           /\ \A n : Known(n) => n \in Nodes /\ n # NoNode
<1>1. \A a : InTopology(a) => a \in Agents
  BY ConfigsAssumption, Zenon DEF Accepted, InTopology
<1>2. RootNode # NoNode
  BY Zenon DEF RootNode, NoNode
<1> QED BY <1>1, <1>2, ConfigsAssumption, Zenon DEF Known, Nodes

\* The segment of a node is a part of the hierarchy, and its bindings are the
\* ones of the kinds in it, the root key excepted.
LEMMA SegmentPlaced ==
    ASSUME Accepted, NEW n, Known(n)
    PROVE  /\ IndexOf(H, Seg(n).start) \in 1 .. Len(H) /\ IndexOf(H, Seg(n).end) \in 1 .. Len(H)
           /\ IndexOf(H, Seg(n).start) <= IndexOf(H, Seg(n).end)
           /\ BindingsCover(H, Seg(n), Bindings(n), n = RootNode)
<1>1. BindingsCover(H, Seg(n), Bindings(n), n = RootNode)
  <2>1. CASE n = RootNode
    <3>1. BindingsCover(cfg.hierarchy, cfg.segment, cfg.bindings, TRUE)
      BY Zenon DEF Accepted, Validate, RootSegmentValid
    <3> QED BY <2>1, <3>1, Zenon DEF Seg, Bindings, H
  <2>2. CASE n # RootNode
    <3>1. SegmentOf(n) \in Segments(cfg.topology) BY <2>2, SegmentFound, Zenon DEF Known
    <3>2. BindingsCover(cfg.hierarchy, SegmentOf(n).segment, SegmentOf(n).bindings, FALSE)
      BY <3>1, Zenon DEF Accepted, Validate, TopologyValid, AgentSegmentValid
    <3> QED BY <2>2, <3>2, Zenon DEF Seg, Bindings, H
  <2> QED BY <2>1, <2>2, Zenon
<1>2. PICK i, j : i = IndexOf(H, Seg(n).start) /\ j = IndexOf(H, Seg(n).end)
  OBVIOUS
<1>3. i \in 0 .. Len(H) /\ j \in 0 .. Len(H) /\ Len(H) \in Nat
  BY <1>2, HierarchyFacts, Zenon
<1>4. i # 0 /\ j # 0 /\ i <= j
  BY <1>1, <1>2, Zenon DEF BindingsCover
<1> QED BY <1>1, <1>2, <1>3, <1>4

\* An agent's first kind lies below the root key and has a provider, and none of
\* its kinds is the root key.
LEMMA AgentStart ==
    ASSUME Accepted, NEW a, InTopology(a)
    PROVE  /\ IndexOf(H, Seg(a).start) > 1
           /\ Seg(a).start \in DOMAIN Bindings(a) /\ Bindings(a)[Seg(a).start].parent # NoParent
<1>1. a # RootNode /\ Known(a)
  BY KnownNodes, Zenon DEF Known
<1>2. Seg(a) = SegmentOf(a).segment /\ Bindings(a) = SegmentOf(a).bindings
  BY <1>1, Zenon DEF Seg, Bindings
<1>3. AgentSegmentValid(H, Seg(a), Bindings(a))
  BY <1>2, SegmentFound, Zenon DEF Accepted, Validate, TopologyValid, H
<1>4. PICK i \in 1 .. Len(H) : i = IndexOf(H, Seg(a).start) /\ i <= IndexOf(H, Seg(a).end)
  BY <1>1, SegmentPlaced, Zenon
<1>5. H[i].kind = Seg(a).start /\ RoleOf(H, Seg(a).start) = H[i].role
  <2>1. i # 0 BY <1>4
  <2> QED BY <1>4, <2>1, HierarchyFacts, Zenon
<1>6. i # 1
  <2>1. RoleOf(H, Seg(a).start) # "root" BY <1>3, Zenon DEF AgentSegmentValid
  <2> QED BY <1>5, <2>1, HierarchyFacts, Zenon
<1>7. i \in Span(H, Seg(a))
  <2>1. PICK j \in 1 .. Len(H) : j = IndexOf(H, Seg(a).end) BY <1>1, SegmentPlaced, Zenon
  <2> QED BY <1>4, <2>1 DEF Span
<1>8. Seg(a).start \in DOMAIN Bindings(a)
  BY <1>3, <1>5, <1>7, Zenon DEF AgentSegmentValid, BindingsCover
<1>9. Bindings(a)[Seg(a).start].parent # NoParent
  BY <1>3, Zenon DEF AgentSegmentValid
<1> QED BY <1>4, <1>6, <1>8, <1>9

\* A kind of the node's segment that is not the root key's has a binding there,
\* and a place with one above it.
LEMMA ManagedIsBound ==
    ASSUME Accepted, NEW n, Known(n), NEW kind, Manages(n, kind), RoleOf(H, kind) # "root"
    PROVE  /\ kind \in DOMAIN Bindings(n)
           /\ IndexOf(H, kind) \in 2 .. Len(H) /\ IndexOf(H, kind) \in Span(H, Seg(n))
           /\ ParentKind(kind) \in Kinds
           /\ IndexOf(H, ParentKind(kind)) = IndexOf(H, kind) - 1
<1>1. IndexOf(H, kind) # 0 /\ IndexOf(H, kind) \in Span(H, Seg(n))
  <2>1. SegmentContains(H, Seg(n), kind) BY Zenon DEF Manages, Seg
  <2> QED BY <2>1, Zenon DEF SegmentContains
<1>2. PICK i \in 0 .. Len(H) : i = IndexOf(H, kind)
  BY HierarchyFacts, Zenon
<1>3. i \in 1 .. Len(H) /\ H[i].kind = kind
  <2>1. i \in 1 .. Len(H) BY <1>1, <1>2, HierarchyFacts
  <2> QED BY <1>1, <1>2, <2>1, HierarchyFacts, Zenon
<1>4. H[i].role # "root" /\ i # 1
  BY <1>3, HierarchyFacts, Zenon
<1>5. kind \in DOMAIN Bindings(n)
  BY <1>1, <1>2, <1>3, <1>4, SegmentPlaced, Zenon DEF BindingsCover
<1>6. PICK j \in 1 .. Len(H) : j = i - 1
  BY <1>3, <1>4, HierarchyFacts
<1>7. ParentKind(kind) = H[j].kind
  BY <1>2, <1>6, Zenon DEF ParentKind
<1>8. ParentKind(kind) \in Kinds /\ IndexOf(H, ParentKind(kind)) = j
  BY <1>7, HierarchyFacts, Zenon
<1>9. i \in 2 .. Len(H)
  BY <1>3, <1>4, HierarchyFacts
<1> QED BY <1>1, <1>2, <1>5, <1>6, <1>8, <1>9, Zenon

\* The kinds that have bindings at a node are in its segment.
LEMMA BoundIsManaged ==
    ASSUME Accepted, NEW n, Known(n), NEW kind \in DOMAIN Bindings(n)
    PROVE  Manages(n, kind) /\ kind \in Kinds
<1>1. PICK i \in Span(H, Seg(n)) : H[i].kind = kind
  BY SegmentPlaced, Zenon DEF BindingsCover
<1>2. i \in 1 .. Len(H)
  <2>1. PICK a \in 1 .. Len(H), b \in 1 .. Len(H) :
           a = IndexOf(H, Seg(n).start) /\ b = IndexOf(H, Seg(n).end)
    BY SegmentPlaced, Zenon
  <2> QED BY <1>1, <2>1, HierarchyFacts DEF Span
<1>3. IndexOf(H, kind) = i /\ kind \in Kinds
  BY <1>1, <1>2, HierarchyFacts, Zenon
<1>4. 0 \notin {IndexOf(H, Seg(n).start), IndexOf(H, Seg(n).end), i}
  BY <1>2, SegmentPlaced
<1>5. SegmentContains(H, Seg(n), kind)
  BY <1>1, <1>3, <1>4, Zenon DEF SegmentContains
<1> QED BY <1>3, <1>5, Zenon DEF Manages, Seg

\* What the checks say of a provider: it stands for a node, which manages the
\* kind above.
LEMMA ProviderManages ==
    ASSUME Accepted, NEW n, Known(n), NEW kind \in DOMAIN Bindings(n),
           RoleOf(H, kind) # "root", Bindings(n)[kind].parent # NoParent
    PROVE  /\ Bindings(n)[kind].parent \in {RootLabel} \cup NamesOf(cfg.topology)
           /\ Known(NodeOf(Bindings(n)[kind].parent))
           /\ Manages(NodeOf(Bindings(n)[kind].parent), ParentKind(kind))
<1> DEFINE providers == Providers(cfg.topology, cfg.segment)
<1>1. ParentProvidersResolve(H, Bindings(n), providers)
  <2>1. CASE n = RootNode
    BY <2>1, Zenon DEF Accepted, Validate, TopologyValid, Bindings, H
  <2>2. CASE n # RootNode
    <3>1. SegmentOf(n) \in Segments(cfg.topology) BY <2>2, SegmentFound, Zenon DEF Known
    <3> QED BY <2>2, <3>1, Zenon DEF Accepted, Validate, TopologyValid, Bindings, H
  <2> QED BY <2>1, <2>2, Zenon
<1>2. PICK p : p = Bindings(n)[kind].parent
  OBVIOUS
<1>3. /\ IndexOf(H, kind) \in 2 .. Len(H)
      /\ IndexOf(H, ParentKind(kind)) = IndexOf(H, kind) - 1
  BY BoundIsManaged, ManagedIsBound, Zenon
<1>4. p \in DOMAIN providers /\ p \in {RootLabel} \cup NamesOf(cfg.topology)
  <2>1. p \in DOMAIN providers BY <1>1, <1>2, Zenon DEF ParentProvidersResolve
  <2> QED BY <2>1, Zenon DEF Providers
<1>5. Known(NodeOf(p)) /\ providers[p] = Seg(NodeOf(p))
  <2>1. CASE InTopology(p)
    <3>1. NodeOf(p) = p /\ p # RootNode BY <2>1, KnownNodes, Zenon DEF NodeOf
    <3> QED BY <2>1, <3>1, SegmentFound, Zenon DEF Known, Seg
  <2>2. CASE ~ InTopology(p)
    <3>1. NodeOf(p) = RootNode BY <2>2, Zenon DEF NodeOf
    <3>2. providers[p] = cfg.segment BY <1>4, <2>2, Zenon DEF Providers, InTopology
    <3> QED BY <3>1, <3>2, Zenon DEF Known, Seg
  <2> QED BY <2>1, <2>2, Zenon
<1>6. /\ IndexOf(H, Seg(NodeOf(p)).start) # 0 /\ IndexOf(H, Seg(NodeOf(p)).end) # 0
  BY <1>5, SegmentPlaced
<1>7. IndexOf(H, kind) - 1 > 0 /\ IndexOf(H, kind) - 1 # 0
  BY <1>3, HierarchyFacts
<1>8. IndexOf(H, kind) - 1 \in Span(H, Seg(NodeOf(p)))
  BY <1>1, <1>2, <1>5, <1>6, <1>7, Zenon DEF ParentProvidersResolve
<1>9. SegmentContains(H, Seg(NodeOf(p)), ParentKind(kind))
  BY <1>3, <1>6, <1>7, <1>8, Zenon DEF SegmentContains
<1> QED BY <1>2, <1>4, <1>5, <1>9, Zenon DEF Manages, Seg

\* Without a provider the kind above is in the same segment.
LEMMA LocalManages ==
    ASSUME Accepted, NEW n, Known(n), NEW kind \in DOMAIN Bindings(n),
           RoleOf(H, kind) # "root", Bindings(n)[kind].parent = NoParent
    PROVE  Manages(n, ParentKind(kind))
<1>1. PICK i \in 2 .. Len(H) :
        /\ i = IndexOf(H, kind) /\ i \in Span(H, Seg(n)) /\ IndexOf(H, ParentKind(kind)) = i - 1
  BY BoundIsManaged, ManagedIsBound, Zenon
<1>2. PICK a \in 1 .. Len(H), b \in 1 .. Len(H) :
        a = IndexOf(H, Seg(n).start) /\ b = IndexOf(H, Seg(n).end)
  BY SegmentPlaced, Zenon
<1>3. i # a
  <2>1. CASE n = RootNode
    <3>1. a = 1 BY <1>2, <2>1, Zenon DEF Accepted, Validate, RootSegmentValid, Seg, H
    <3> QED BY <1>1, <3>1, HierarchyFacts
  <2>2. CASE n # RootNode
    <3>1. InTopology(n) BY <2>2, Zenon DEF Known
    <3>2. kind # Seg(n).start BY <3>1, AgentStart, Zenon
    <3>3. a # 0 /\ i # 0 BY <1>1, <1>2, HierarchyFacts
    <3>4. H[a].kind = Seg(n).start /\ H[i].kind = kind BY <1>1, <1>2, <3>3, HierarchyFacts, Zenon
    <3> QED BY <3>2, <3>4, Zenon
  <2> QED BY <2>1, <2>2, Zenon
<1>4. i - 1 \in Span(H, Seg(n)) /\ i - 1 # 0
  BY <1>1, <1>2, <1>3, HierarchyFacts DEF Span
<1>5. SegmentContains(H, Seg(n), ParentKind(kind))
  <2>1. a # 0 /\ b # 0 BY <1>2, HierarchyFacts
  <2> QED BY <1>1, <1>2, <1>4, <2>1, Zenon DEF SegmentContains
<1> QED BY <1>5, Zenon DEF Manages, Seg

\* The provider of an agent's first kind is not the agent itself or one below.
LEMMA ProviderAbove ==
    ASSUME Accepted, NEW a, InTopology(a), NEW p, p = Bindings(a)[Seg(a).start].parent
    PROVE  /\ p \in {RootLabel} \cup NamesOf(cfg.topology)
           /\ InTopology(p) => IndexOf(H, Seg(p).start) < IndexOf(H, Seg(a).start)
<1>1. /\ Known(a) /\ Seg(a).start \in DOMAIN Bindings(a) /\ p # NoParent
      /\ IndexOf(H, Seg(a).start) > 1
  BY AgentStart, Zenon DEF Known
<1>2. PICK i \in 1 .. Len(H) : i = IndexOf(H, Seg(a).start)
  BY <1>1, SegmentPlaced, Zenon
<1>3. RoleOf(H, Seg(a).start) # "root"
  <2>1. i # 0 /\ i # 1 BY <1>1, <1>2, HierarchyFacts
  <2>2. H[i].kind = Seg(a).start BY <1>2, <2>1, HierarchyFacts, Zenon
  <2> QED BY <2>1, <2>2, HierarchyFacts, Zenon
<1>4. /\ p \in {RootLabel} \cup NamesOf(cfg.topology)
      /\ Known(NodeOf(p)) /\ Manages(NodeOf(p), ParentKind(Seg(a).start))
      /\ IndexOf(H, ParentKind(Seg(a).start)) = i - 1
  <2>1. IndexOf(H, ParentKind(Seg(a).start)) = i - 1
    BY <1>1, <1>2, <1>3, BoundIsManaged, ManagedIsBound, Zenon
  <2> QED BY <1>1, <1>3, <2>1, ProviderManages, Zenon
<1>5. ASSUME InTopology(p) PROVE IndexOf(H, Seg(p).start) < i
  <2>1. NodeOf(p) = p /\ Known(p) BY <1>5, Zenon DEF NodeOf, Known
  <2>2. SegmentContains(H, Seg(p), ParentKind(Seg(a).start)) BY <1>4, <2>1, Zenon DEF Manages, Seg
  <2>3. PICK b \in 1 .. Len(H), c \in 1 .. Len(H) :
           b = IndexOf(H, Seg(p).start) /\ c = IndexOf(H, Seg(p).end)
    BY <2>1, SegmentPlaced, Zenon
  <2>4. i - 1 \in b .. c BY <1>4, <2>2, <2>3, Zenon DEF SegmentContains, Span
  <2>5. Len(H) \in Nat BY HierarchyFacts, Zenon
  <2>6. b < i BY <2>3, <2>4, <2>5
  <2> QED BY <1>2, <2>3, <2>6, Zenon
<1> QED BY <1>2, <1>4, <1>5, Zenon

\* If an agent were called "root", every provider would be an agent, and there
\* would be no end of agents that start higher and higher.
LEMMA NoAgentIsRoot ==
    ASSUME Accepted
    PROVE  ~ InTopology(RootLabel)
<1> SUFFICES ASSUME InTopology(RootLabel) PROVE FALSE
  OBVIOUS
<1> DEFINE T == {IndexOf(H, Seg(a).start) : a \in NamesOf(cfg.topology)}
<1>1. \A a \in NamesOf(cfg.topology) : InTopology(a) /\ IndexOf(H, Seg(a).start) \in Nat
  <2>1. \A a \in NamesOf(cfg.topology) : InTopology(a) BY Zenon DEF InTopology
  <2>2. \A kind : IndexOf(H, kind) \in Nat BY HierarchyFacts
  <2> QED BY <2>1, <2>2, Zenon
<1>2. T \in SUBSET Nat /\ T # {}
  <2>1. RootLabel \in NamesOf(cfg.topology) BY Zenon DEF InTopology
  <2> QED BY <1>1, <2>1, Zenon
<1>3. PICK x \in T : \A y \in T : x <= y
  <2> HIDE DEF T
  <2> QED BY <1>2, LeastNat, Zenon
<1>4. PICK a \in NamesOf(cfg.topology) : x = IndexOf(H, Seg(a).start)
  BY <1>3, Zenon
<1>5. PICK p : p = Bindings(a)[Seg(a).start].parent
  OBVIOUS
<1>6. p \in NamesOf(cfg.topology)
  <2>1. RootLabel \in NamesOf(cfg.topology) BY Zenon DEF InTopology
  <2> QED BY <1>1, <1>5, <2>1, ProviderAbove, Zenon
<1>7. PICK y \in T : y = IndexOf(H, Seg(p).start) /\ y < x
  BY <1>1, <1>4, <1>5, <1>6, ProviderAbove, Zenon
<1>8. x <= y /\ x \in Nat /\ y \in Nat
  <2> HIDE DEF T
  <2> QED BY <1>2, <1>3, <1>7, Zenon
<1> QED BY <1>7, <1>8

\* What ProvidersStartHigher and RootLabelIsTheRoots say of the segments.
LEMMA AcceptedTopology ==
    ASSUME Accepted
    PROVE  \A t \in Segments(cfg.topology) :
             LET p == t.bindings[t.segment.start].parent
             IN  InTopology(p) =>
                   IndexOf(H, SegmentOf(p).segment.start) < IndexOf(H, t.segment.start)
<1> SUFFICES ASSUME NEW t \in Segments(cfg.topology), NEW p, p = t.bindings[t.segment.start].parent,
                    InTopology(p)
             PROVE  IndexOf(H, SegmentOf(p).segment.start) < IndexOf(H, t.segment.start)
  BY Zenon
<1>1. PICK a : a = t.name /\ InTopology(a)
  BY Zenon DEF InTopology, NamesOf
<1>2. SegmentOf(a) = t
  <2>1. SegmentOf(a) \in Segments(cfg.topology) /\ SegmentOf(a).name = t.name
    BY <1>1, SegmentFound, Zenon
  <2>2. \A i, j \in 1 .. Len(cfg.topology) : cfg.topology[i].name = cfg.topology[j].name => i = j
    BY Zenon DEF Accepted, Validate, TopologyValid
  <2> QED BY <2>1, <2>2, Zenon DEF Segments
<1>3. a # RootNode /\ p # RootNode
  BY <1>1, KnownNodes, Zenon
<1>4. Seg(a) = t.segment /\ Bindings(a) = t.bindings /\ Seg(p) = SegmentOf(p).segment
  BY <1>2, <1>3, Zenon DEF Seg, Bindings
<1> QED BY <1>1, <1>4, ProviderAbove, Zenon

\* The names ParentName may return are known, and there is no other kind of node.
LEMMA ParentKnown ==
    ASSUME Accepted, NEW a, InTopology(a), NEW p \in ParentNames(SegmentOf(a))
    PROVE  p \in {RootLabel} \cup NamesOf(cfg.topology)
<1>1. PICK kind \in DOMAIN SegmentOf(a).bindings : p = SegmentOf(a).bindings[kind].parent
  BY Zenon DEF ParentNames
<1>2. p # NoParent
  BY Zenon DEF ParentNames
<1>3. SegmentOf(a) \in Segments(cfg.topology)
  BY SegmentFound, Zenon
<1>4. ParentProvidersResolve(H, SegmentOf(a).bindings, Providers(cfg.topology, cfg.segment))
  BY <1>3, Zenon DEF Accepted, Validate, TopologyValid, H
<1>5. p \in DOMAIN Providers(cfg.topology, cfg.segment)
  BY <1>1, <1>2, <1>4, Zenon DEF ParentProvidersResolve
<1> QED BY <1>5, Zenon DEF Providers

\* The kinds of an agent are not the root key's.
LEMMA AgentKinds ==
    ASSUME Accepted, NEW a, InTopology(a), NEW kind, Manages(a, kind)
    PROVE  RoleOf(H, kind) # "root"
<1>1. a # RootNode /\ Known(a)
  BY KnownNodes, Zenon DEF Known
<1>2. SegmentContains(H, Seg(a), kind)
  BY Zenon DEF Manages, Seg
<1>3. PICK i \in 0 .. Len(H) : i = IndexOf(H, kind) /\ i # 0 /\ i \in Span(H, Seg(a))
  BY <1>2, HierarchyFacts, Zenon DEF SegmentContains
<1>4. PICK b \in 1 .. Len(H), c \in 1 .. Len(H) :
        b = IndexOf(H, Seg(a).start) /\ c = IndexOf(H, Seg(a).end) /\ b > 1
  BY <1>1, SegmentPlaced, AgentStart, Zenon
<1>5. i \in b .. c
  BY <1>3, <1>4, Zenon DEF Span
<1>6. i \in 1 .. Len(H) /\ i # 1
  BY <1>4, <1>5, HierarchyFacts
<1>7. H[i].kind = kind
  BY <1>3, HierarchyFacts, Zenon
<1> QED BY <1>6, <1>7, HierarchyFacts, Zenon

-----------------------------------------------------------------------------
(* Steps, for all configurations *)

\* The configuration never changes, and neither does what is read from it.
LEMMA SameConfig ==
    ASSUME cfg' = cfg
    PROVE  /\ H' = H /\ \A k : ParentKind(k)' = ParentKind(k)
           /\ \A a : SegmentOf(a)' = SegmentOf(a) /\ (InTopology(a)' <=> InTopology(a))
           /\ \A n : Bindings(n)' = Bindings(n) /\ (Known(n)' <=> Known(n))
           /\ \A n, k : Manages(n, k)' <=> Manages(n, k)
<1>1. H' = H /\ \A a : SegmentOf(a)' = SegmentOf(a) /\ (InTopology(a)' <=> InTopology(a))
  BY Zenon DEF H, SegmentOf, InTopology
<1>2. \A k : ParentKind(k)' = ParentKind(k)
  BY <1>1, Zenon DEF ParentKind
<1>3. \A n : Bindings(n)' = Bindings(n) /\ (Known(n)' <=> Known(n))
  BY <1>1, Zenon DEF Bindings, Known
<1>4. \A n, k : Manages(n, k)' <=> Manages(n, k)
  BY <1>1, Zenon DEF Manages
<1> QED BY <1>1, <1>2, <1>3, <1>4, Zenon

\* What a request and a process may be.
WalkType ==
    [state: {"idle", "climbing", "answered", "noKey", "noProcessor", "noVault"},
     key: Kinds \cup {NoKey}, node: Nodes \cup {NoNode}, kind: Kinds \cup {NoKey}]
NodeState == {"down", "refused", "failed", "aborted", "registered", "up"}

\* The root is no agent, and no agent is no node.
LEMMA NodeNames ==
    /\ RootNode \in Nodes /\ RootNode \notin Agents /\ NoNode \notin Nodes /\ Agents \subseteq Nodes
    /\ MaxFaults \in Nat
<1>1. RootNode # NoNode
  BY Zenon DEF RootNode, NoNode
<1> QED BY <1>1, ConfigsAssumption, Zenon DEF Nodes

\* The first state.
LEMMA InitInv ==
    ASSUME Init PROVE DeployInv
<1>1. TypeOK
  <2>1. walk \in WalkType BY Zenon DEF Init, Idle, WalkType
  <2>2. faults \in 0 .. MaxFaults BY NodeNames DEF Init
  <2> QED BY <2>1, <2>2, Zenon DEF Init, TypeOK, WalkType
<1>2. node[RootNode] = "down" /\ \A a \in Agents : node[a] = "down"
  BY Zenon DEF Init, Nodes
<1>3. NodesInv
  BY <1>2, Zenon DEF NodesInv
<1>4. PlacedInv
  BY Zenon DEF Init, PlacedInv
<1>5. ClimbInv
  BY Zenon DEF Init, ClimbInv, Idle
<1> QED BY <1>1, <1>3, <1>4, <1>5, Zenon DEF DeployInv, Init

\* A step of the keys leaves the nodes as they are.
LEMMA NodesStay ==
    ASSUME DeployInv, UNCHANGED <<cfg, node, conns>>
    PROVE  NodesInv' /\ (cfg \in Configs)'
<1>1. \A a : SegmentOf(a)' = SegmentOf(a) /\ (InTopology(a)' <=> InTopology(a))
  BY SameConfig, Zenon
<1> QED BY <1>1, Zenon DEF DeployInv, NodesInv

\* A step of the nodes leaves the keys as they are; the request may be given up.
LEMMA KeysStay ==
    ASSUME DeployInv, UNCHANGED <<cfg, home, sealed>>, walk' \in {walk, Idle}
    PROVE  PlacedInv' /\ ClimbInv' /\ (cfg \in Configs)'
<1>1. cfg' = cfg
  OBVIOUS
<1>2. /\ H' = H /\ \A k : ParentKind(k)' = ParentKind(k)
      /\ \A n : Bindings(n)' = Bindings(n) /\ (Known(n)' <=> Known(n))
      /\ \A n, k : Manages(n, k)' <=> Manages(n, k)
  BY <1>1, SameConfig, Zenon
<1>3. PlacedInv'
  BY <1>1, <1>2, Zenon DEF DeployInv, PlacedInv
<1>4. ClimbInv'
  <2>1. Idle.state = "idle" BY Zenon DEF Idle
  <2>2. CASE walk' = Idle
    <3>1. walk'.state = "idle" BY <2>1, <2>2, Zenon
    <3>2. "idle" # "climbing" OBVIOUS
    <3> QED BY <3>1, <3>2, Zenon DEF ClimbInv
  <2>3. CASE walk' = walk BY <1>1, <1>2, <2>3, Zenon DEF DeployInv, ClimbInv
  <2> QED BY <2>2, <2>3, Zenon
<1> QED BY <1>3, <1>4, Zenon DEF DeployInv

\* The root starts, or refuses its configuration.
LEMMA BootRootStep ==
    ASSUME DeployInv, BootRoot
    PROVE  DeployInv'
<1>1. TypeOK /\ UNCHANGED <<cfg, conns, home, sealed, walk, faults>>
  BY Zenon DEF DeployInv, BootRoot
<1>2. PICK st \in NodeState : node' = [node EXCEPT ![RootNode] = st] /\ (st = "up" => Validate(cfg))
  <2>1. PICK x : /\ x = IF ~ Validate(cfg) THEN "refused"
                          ELSE IF ManagerBuilds(RootNode, {}) THEN "up" ELSE "failed"
                 /\ node' = [node EXCEPT ![RootNode] = x]
    BY Zenon DEF BootRoot, Becomes
  <2>2. x \in NodeState /\ (x = "up" => Validate(cfg)) BY <2>1, Zenon DEF NodeState
  <2> QED BY <2>1, <2>2, Zenon
<1>3. node'[RootNode] = st /\ \A a \in Agents : node'[a] = node[a]
  BY <1>1, <1>2, NodeNames, Zenon DEF TypeOK
<1>4. TypeOK'
  BY <1>1, <1>2, Zenon DEF TypeOK, NodeState, Nodes
<1>5. NodesInv'
  <2>1. \A a : SegmentOf(a)' = SegmentOf(a) /\ (InTopology(a)' <=> InTopology(a))
    BY <1>1, SameConfig, Zenon
  <2> QED BY <1>1, <1>2, <1>3, <2>1, Zenon DEF DeployInv, NodesInv
<1>6. PlacedInv' /\ ClimbInv' /\ (cfg \in Configs)'
  BY <1>1, KeysStay, Zenon
<1> QED BY <1>4, <1>5, <1>6, Zenon DEF DeployInv

\* An agent is given its parent.
LEMMA RegisterStep ==
    ASSUME DeployInv, NEW a \in Agents, Register(a)
    PROVE  DeployInv'
<1>1. TypeOK /\ UNCHANGED <<cfg, home, sealed, walk, faults>> /\ node[RootNode] = "up" /\ InTopology(a)
  BY Zenon DEF DeployInv, Register
<1>2. PICK p \in ParentNames(SegmentOf(a)) :
        \/ node' = [node EXCEPT ![a] = "registered"] /\ conns' = [conns EXCEPT ![a] = {p}]
        \/ node' = [node EXCEPT ![a] = "aborted"] /\ conns' = conns
  BY Zenon DEF Register, Becomes
<1>3. Validate(cfg) /\ Accepted
  BY <1>1, Zenon DEF DeployInv, NodesInv, Accepted
<1>4. a # RootNode /\ a \in Nodes /\ RootNode \in Nodes
  BY NodeNames, Zenon
<1>5. p \in Agents \cup {RootLabel}
  <2>1. NamesOf(cfg.topology) \subseteq Agents BY ConfigsAssumption, Zenon DEF DeployInv
  <2> QED BY <1>1, <1>3, <2>1, ParentKnown, Zenon
<1>6. /\ node' \in [Nodes -> NodeState] /\ node'[RootNode] = node[RootNode]
      /\ \A b \in Agents \ {a} : node'[b] = node[b] /\ conns'[b] = conns[b]
      /\ (node'[a] = "registered" /\ conns'[a] = {p}) \/ node'[a] = "aborted"
  BY <1>1, <1>2, <1>4, Zenon DEF TypeOK, NodeState, Nodes
<1>7. conns' \in [Agents -> SUBSET (Agents \cup {RootLabel, cfg.name})]
  BY <1>1, <1>2, <1>5 DEF TypeOK
<1>8. TypeOK'
  BY <1>1, <1>6, <1>7, Zenon DEF TypeOK, NodeState
<1>9. NodesInv'
  <2>1. \A b : SegmentOf(b)' = SegmentOf(b) /\ (InTopology(b)' <=> InTopology(b))
    BY <1>1, SameConfig, Zenon
  <2>2. "aborted" # "registered" /\ "aborted" # "up" OBVIOUS
  <2> QED BY <1>1, <1>3, <1>6, <2>1, <2>2, Zenon DEF DeployInv, NodesInv
<1>10. PlacedInv' /\ ClimbInv' /\ (cfg \in Configs)'
  BY <1>1, KeysStay, Zenon
<1> QED BY <1>8, <1>9, <1>10, Zenon DEF DeployInv

\* An agent builds its manager, or fails.
LEMMA BootAgentStep ==
    ASSUME DeployInv, NEW a \in Agents, BootAgent(a)
    PROVE  DeployInv'
<1>1. TypeOK /\ UNCHANGED <<cfg, conns, home, sealed, walk, faults>> /\ node[a] = "registered"
  BY Zenon DEF DeployInv, BootAgent
<1>2. PICK st \in NodeState : node' = [node EXCEPT ![a] = st]
  BY Zenon DEF BootAgent, Becomes, NodeState
<1>3. a # RootNode /\ a \in Nodes /\ RootNode \in Nodes
  BY NodeNames, Zenon
<1>4. node'[RootNode] = node[RootNode] /\ \A b \in Agents \ {a} : node'[b] = node[b]
  BY <1>1, <1>2, <1>3, Zenon DEF TypeOK, Nodes
<1>5. TypeOK'
  BY <1>1, <1>2, Zenon DEF TypeOK, NodeState
<1>6. NodesInv'
  <2>1. \A b : SegmentOf(b)' = SegmentOf(b) /\ (InTopology(b)' <=> InTopology(b))
    BY <1>1, SameConfig, Zenon
  <2> QED BY <1>1, <1>4, <2>1, Zenon DEF DeployInv, NodesInv
<1>7. PlacedInv' /\ ClimbInv' /\ (cfg \in Configs)'
  BY <1>1, KeysStay, Zenon
<1> QED BY <1>5, <1>6, <1>7, Zenon DEF DeployInv

\* A process ends.
LEMMA StopStep ==
    ASSUME DeployInv, NEW n \in Nodes, Stop(n)
    PROVE  DeployInv'
<1>1. /\ TypeOK /\ UNCHANGED <<cfg, conns, home, sealed>> /\ node' = [node EXCEPT ![n] = "down"]
      /\ walk' \in {walk, Idle} /\ faults < MaxFaults /\ faults' = faults + 1
  BY Zenon DEF DeployInv, Stop, Becomes
<1>2. \A m \in Nodes : node'[m] = node[m] \/ node'[m] = "down"
  BY <1>1, Zenon DEF TypeOK
<1>3. TypeOK'
  <2>1. Idle \in WalkType BY Zenon DEF Idle, WalkType
  <2>2. faults' \in 0 .. MaxFaults BY <1>1, NodeNames DEF TypeOK
  <2>3. node' \in [Nodes -> {"down", "refused", "failed", "aborted", "registered", "up"}]
    BY <1>1, Zenon DEF TypeOK
  <2> QED BY <1>1, <2>1, <2>2, <2>3, Zenon DEF TypeOK, WalkType
<1>4. NodesInv'
  <2>1. \A b : SegmentOf(b)' = SegmentOf(b) /\ (InTopology(b)' <=> InTopology(b))
    BY <1>1, SameConfig, Zenon
  <2>2. "down" # "registered" /\ "down" # "up" OBVIOUS
  <2> QED BY <1>1, <1>2, <2>1, <2>2, NodeNames, Zenon DEF DeployInv, NodesInv
<1>5. PlacedInv' /\ ClimbInv' /\ (cfg \in Configs)'
  BY <1>1, KeysStay, Zenon
<1> QED BY <1>3, <1>4, <1>5, Zenon DEF DeployInv

\* A key is announced to a node that manages its kind.
LEMMA AnnounceStep ==
    ASSUME DeployInv, NEW n \in Nodes, NEW kind \in Kinds, AnnounceKey(kind, n)
    PROVE  DeployInv'
<1>1. /\ TypeOK /\ UNCHANGED <<cfg, node, conns, sealed, walk, faults>>
      /\ home' = [home EXCEPT ![kind] = n] /\ home[kind] = NoNode
      /\ Validate(cfg) /\ Known(n) /\ Manages(n, kind)
      /\ RoleOf(H, kind) # "root" => home[ParentKind(kind)] # NoNode
  BY Zenon DEF DeployInv, AnnounceKey, NodesInv, Known, ParentIsAdjacent
<1>2. /\ home'[kind] = n /\ \A k : k \in Kinds \ {kind} => home'[k] = home[k]
      /\ home' \in [Kinds -> Nodes \cup {NoNode}] /\ n # NoNode
  BY <1>1, NodeNames, Zenon DEF TypeOK
<1>3. TypeOK'
  BY <1>1, <1>2, Zenon DEF TypeOK
<1>4. /\ H' = H /\ \A k : ParentKind(k)' = ParentKind(k)
      /\ \A m : Bindings(m)' = Bindings(m) /\ (Known(m)' <=> Known(m))
      /\ \A m, k : Manages(m, k)' <=> Manages(m, k)
  BY <1>1, SameConfig, Zenon
<1>5. ASSUME NEW k \in Kinds, home[k] # NoNode PROVE home'[k] # NoNode
  BY <1>2, <1>5, Zenon
<1>6. PlacedInv'
  <2>1. ASSUME NEW k \in Kinds, Validate(cfg), Known(home'[k]), Manages(home'[k], k), RoleOf(H, k) # "root"
        PROVE  ParentKind(k) \in Kinds
    BY <2>1, ManagedIsBound, Zenon DEF DeployInv, Accepted
  <2>2. ASSUME NEW k \in Kinds, home'[k] # NoNode
        PROVE  /\ Validate(cfg) /\ Known(home'[k]) /\ Manages(home'[k], k)
               /\ RoleOf(H, k) # "root" => home[ParentKind(k)] # NoNode
    BY <1>1, <1>2, <2>2, Zenon DEF DeployInv, PlacedInv
  <2>3. ASSUME NEW k \in Kinds, home'[k] # NoNode, RoleOf(H, k) # "root"
        PROVE  home'[ParentKind(k)] # NoNode
    BY <1>5, <2>1, <2>2, <2>3, Zenon
  <2> QED BY <1>1, <1>4, <2>2, <2>3, Zenon DEF PlacedInv
<1>7. ClimbInv'
  BY <1>1, <1>4, <1>5, Zenon DEF DeployInv, ClimbInv
<1> QED BY <1>1, <1>3, <1>6, <1>7, NodesStay, Zenon DEF DeployInv

\* A step of the request changes nothing else.
LEMMA WalkStep ==
    ASSUME DeployInv, UNCHANGED <<cfg, node, conns, home>>,
           walk' \in WalkType, sealed' \subseteq Kinds, faults' \in 0 .. MaxFaults, ClimbInv'
    PROVE  DeployInv'
<1>1. TypeOK'
  BY Zenon DEF DeployInv, TypeOK, WalkType
<1>2. PlacedInv'
  <2>1. cfg' = cfg OBVIOUS
  <2>2. /\ H' = H /\ \A k : ParentKind(k)' = ParentKind(k)
        /\ \A m : Known(m)' <=> Known(m)
        /\ \A m, k : Manages(m, k)' <=> Manages(m, k)
    BY <2>1, SameConfig, Zenon
  <2> QED BY <2>1, <2>2, Zenon DEF DeployInv, PlacedInv
<1> QED BY <1>1, <1>2, NodesStay, Zenon DEF DeployInv

\* The secret of a key is to be created.
LEMMA CreateSecretStep ==
    ASSUME DeployInv, NEW kind \in Kinds, CreateSecret(kind)
    PROVE  DeployInv'
<1>1. /\ TypeOK /\ UNCHANGED <<cfg, node, conns, home, faults>> /\ home[kind] # NoNode
      /\ walk.state = "idle"
  BY Zenon DEF DeployInv, CreateSecret
<1>2. CASE RoleOf(H, kind) = "root"
  <2>1. walk' = walk /\ sealed' = sealed \cup {kind} BY <1>2, Zenon DEF CreateSecret
  <2>2. walk' \in WalkType /\ sealed' \subseteq Kinds /\ faults' \in 0 .. MaxFaults
    BY <1>1, <2>1, Zenon DEF TypeOK, WalkType
  <2>3. "idle" # "climbing" OBVIOUS
  <2>4. ClimbInv' BY <1>1, <2>1, <2>3, Zenon DEF ClimbInv
  <2> QED BY <1>1, <2>2, <2>4, WalkStep, Zenon
<1>3. CASE RoleOf(H, kind) # "root"
  <2>1. /\ Validate(cfg) /\ Known(home[kind]) /\ Manages(home[kind], kind)
        /\ kind \in DOMAIN Bindings(home[kind])
    BY <1>1, <1>3, ManagedIsBound, Zenon DEF DeployInv, PlacedInv, Accepted
  <2>2. /\ walk' = [state |-> "climbing", key |-> kind, node |-> home[kind], kind |-> kind]
        /\ sealed' = sealed
    BY <1>3, <2>1, Zenon DEF CreateSecret
  <2>3. walk'.state = "climbing" /\ walk'.key = kind /\ walk'.node = home[kind] /\ walk'.kind = kind
    BY <2>2, Zenon
  <2>4. walk' \in WalkType BY <1>1, <2>2, Zenon DEF WalkType, TypeOK
  <2>5. sealed' \subseteq Kinds /\ faults' \in 0 .. MaxFaults BY <1>1, <2>2, Zenon DEF TypeOK
  <2>6. H' = H /\ \A m : Bindings(m)' = Bindings(m) /\ (Known(m)' <=> Known(m))
    BY <1>1, SameConfig, Zenon
  <2>7. ClimbInv' BY <1>1, <1>3, <2>1, <2>3, <2>6, Zenon DEF ClimbInv
  <2> QED BY <1>1, <2>4, <2>5, <2>7, WalkStep, Zenon
<1> QED BY <1>2, <1>3, Zenon

\* The request goes to the parent's key, at this node or at another.
LEMMA ClimbStep ==
    ASSUME DeployInv, Climb
    PROVE  DeployInv'
<1>1. /\ TypeOK /\ UNCHANGED <<cfg, node, conns, home, sealed, faults>> /\ walk.state = "climbing"
      /\ walk \in WalkType
  BY Zenon DEF DeployInv, Climb, TypeOK, WalkType
<1>2. PICK k : k = walk.kind
  OBVIOUS
<1>3. PICK m : m = walk.node
  OBVIOUS
<1>4. /\ Accepted /\ Known(m) /\ k \in DOMAIN Bindings(m) /\ RoleOf(H, k) # "root"
      /\ walk.key \in Kinds /\ home[walk.key] # NoNode /\ RoleOf(H, walk.key) # "root"
  BY <1>1, <1>2, <1>3, Zenon DEF DeployInv, ClimbInv, Accepted
<1>5. PICK p : p = Bindings(m)[k].parent
  OBVIOUS
<1>6. PICK n : n = IF p # NoParent THEN NodeOf(p) ELSE m
  OBVIOUS
<1>7. ParentKind(k) \in Kinds
  BY <1>4, BoundIsManaged, ManagedIsBound, Zenon
<1>8. Known(n) /\ n \in Nodes
  BY <1>4, <1>5, <1>6, ProviderManages, KnownNodes, Zenon
<1>9. \/ walk' = [walk EXCEPT !.state = "answered"]
      \/ walk' = [walk EXCEPT !.state = Answer(n, ParentKind(k)), !.node = n, !.kind = ParentKind(k)]
  BY <1>2, <1>3, <1>5, <1>6, Zenon DEF Climb
<1>10. H' = H /\ \A q : Bindings(q)' = Bindings(q) /\ (Known(q)' <=> Known(q))
  BY <1>1, SameConfig, Zenon
<1>11. sealed' \subseteq Kinds /\ faults' \in 0 .. MaxFaults
  BY <1>1, Zenon DEF TypeOK
<1>12. CASE walk' = [walk EXCEPT !.state = "answered"]
  <2>1. walk' \in WalkType /\ walk'.state = "answered" /\ walk'.key = walk.key
    BY <1>1, <1>12, Zenon DEF WalkType
  <2>2. "answered" # "climbing" OBVIOUS
  <2>3. ClimbInv' BY <1>1, <1>4, <1>10, <2>1, <2>2, Zenon DEF ClimbInv
  <2> QED BY <1>1, <1>11, <2>1, <2>3, WalkStep, Zenon
<1>13. CASE walk' = [walk EXCEPT !.state = Answer(n, ParentKind(k)), !.node = n, !.kind = ParentKind(k)]
  <2>1. PICK x : x = Answer(n, ParentKind(k)) OBVIOUS
  <2>2. /\ x \in {"noKey", "noProcessor", "noVault", "climbing"}
        /\ x = "climbing" => /\ ParentKind(k) \in DOMAIN Bindings(n)
                             /\ RoleOf(H, ParentKind(k)) # "root"
    BY <2>1, Zenon DEF Answer
  <2>3. /\ walk' \in WalkType /\ walk'.state = x /\ walk'.key = walk.key
        /\ walk'.node = n /\ walk'.kind = ParentKind(k)
    BY <1>1, <1>7, <1>8, <1>13, <2>1, <2>2, Zenon DEF WalkType
  <2>4. ClimbInv' BY <1>1, <1>4, <1>8, <1>10, <2>2, <2>3, Zenon DEF ClimbInv, Accepted
  <2> QED BY <1>1, <1>11, <2>3, <2>4, WalkStep, Zenon
<1> QED BY <1>9, <1>12, <1>13, Zenon

\* The answer is stored, or the call is lost.
LEMMA StoreStep ==
    ASSUME DeployInv, Store \/ LoseCall
    PROVE  DeployInv'
<1>1. /\ TypeOK /\ UNCHANGED <<cfg, node, conns, home>> /\ walk.state # "idle"
      /\ walk \in WalkType
  BY Zenon DEF DeployInv, Store, LoseCall, TypeOK, WalkType
<1>2. walk.key \in Kinds /\ home[walk.key] # NoNode /\ RoleOf(H, walk.key) # "root"
  BY <1>1, Zenon DEF DeployInv, ClimbInv
<1>3. walk' = Idle \/ walk' = [walk EXCEPT !.state = "noVault"]
  BY Zenon DEF Store, LoseCall
<1>4. sealed' \subseteq Kinds /\ faults' \in 0 .. MaxFaults
  <2>1. sealed' \subseteq Kinds BY <1>1, <1>2, Zenon DEF TypeOK, Store, LoseCall
  <2>2. faults' = faults \/ (faults < MaxFaults /\ faults' = faults + 1) BY Zenon DEF Store, LoseCall
  <2> QED BY <1>1, <2>1, <2>2, NodeNames DEF TypeOK
<1>5. Idle \in WalkType /\ Idle.state = "idle"
  BY Zenon DEF Idle, WalkType
<1>6. CASE walk' = Idle
  <2>1. "idle" # "climbing" OBVIOUS
  <2>2. ClimbInv' BY <1>5, <1>6, <2>1, Zenon DEF ClimbInv
  <2> QED BY <1>1, <1>4, <1>5, <1>6, <2>2, WalkStep, Zenon
<1>7. CASE walk' = [walk EXCEPT !.state = "noVault"]
  <2>1. walk' \in WalkType /\ walk'.state = "noVault" /\ walk'.key = walk.key
    BY <1>1, <1>7, Zenon DEF WalkType
  <2>2. "noVault" # "climbing" OBVIOUS
  <2>3. H' = H BY <1>1, SameConfig, Zenon
  <2>4. ClimbInv' BY <1>1, <1>2, <2>1, <2>2, <2>3, Zenon DEF ClimbInv
  <2> QED BY <1>1, <1>4, <2>1, <2>4, WalkStep, Zenon
<1> QED BY <1>3, <1>6, <1>7, Zenon

\* Every step keeps the invariant.
LEMMA NextInv ==
    ASSUME DeployInv, [Next]_vars
    PROVE  DeployInv'
<1>1. CASE UNCHANGED vars
  <2>1. UNCHANGED <<cfg, node, conns, home, sealed, walk, faults>> BY <1>1, Zenon DEF vars
  <2>2. TypeOK' BY <2>1, Zenon DEF DeployInv, TypeOK
  <2> QED BY <2>1, <2>2, NodesStay, KeysStay, Zenon DEF DeployInv
<1>2. CASE Next
  BY <1>2, BootRootStep, ClimbStep, StoreStep, RegisterStep, BootAgentStep, StopStep,
     AnnounceStep, CreateSecretStep, Zenon DEF Next
<1> QED BY <1>1, <1>2, Zenon

-----------------------------------------------------------------------------
(* What is not checked *)

\* An agent's manager is built with the one connection it was given, which is
\* not enough for two providers.
BuildsFrom(a, p) == ManagerBuilds(a, {p})
TwoProviders(a) == \E p, q \in ParentNames(SegmentOf(a)) : p # q

\* The root's manager is built without connections unless a binding needs one,
\* an agent's from the one connection it was given unless another binding needs
\* another one, and every registration is answered unless the root's name is no
\* connection.
LEMMA ManagersBuild ==
    ASSUME Accepted
    PROVE  /\ \/ ManagerBuilds(RootNode, {})
              \/ \E k \in DOMAIN cfg.bindings : cfg.bindings[k].parent # NoParent
           /\ \A a : InTopology(a) => \A p \in ParentNames(SegmentOf(a)) :
                /\ BuildsFrom(a, p) \/ TwoProviders(a)
                /\ p \in cfg.connections \/ p = RootLabel
                /\ cfg.auth => AgentIdentitiesKnown(cfg, a)
<1>1. ASSUME \A k \in DOMAIN cfg.bindings : cfg.bindings[k].parent = NoParent
      PROVE  ManagerBuilds(RootNode, {})
  <2>1. \A kind \in DOMAIN Bindings(RootNode) : Bindings(RootNode)[kind].parent = NoParent
    BY <1>1, Zenon DEF Bindings
  <2> QED BY <2>1, Zenon DEF ManagerBuilds
<1>2. ASSUME NEW a, InTopology(a), NEW p \in ParentNames(SegmentOf(a)), ~ TwoProviders(a)
      PROVE  BuildsFrom(a, p)
  <2>1. a # RootNode /\ Known(a) BY <1>2, KnownNodes, Zenon DEF Known
  <2>2. Bindings(a) = SegmentOf(a).bindings BY <2>1, Zenon DEF Bindings
  <2>3. ASSUME NEW kind \in DOMAIN Bindings(a), Bindings(a)[kind].parent # NoParent
        PROVE  Bindings(a)[kind].parent \in {p}
    BY <1>2, <2>2, <2>3, Zenon DEF ParentNames, TwoProviders
  <2>4. ASSUME NEW kind \in DOMAIN Bindings(a), RoleOf(H, kind) # "root",
               Bindings(a)[kind].parent = NoParent
        PROVE  RoleOf(H, ParentKind(kind)) # "root"
    BY <1>2, <2>1, <2>4, LocalManages, AgentKinds, Zenon
  <2> QED BY <2>1, <2>3, <2>4, Zenon DEF ManagerBuilds, BuildsFrom
<1>3. ASSUME NEW a, InTopology(a), NEW p \in ParentNames(SegmentOf(a))
      PROVE  p \in cfg.connections \/ p = RootLabel
  <2>1. NamesOf(cfg.topology) \subseteq cfg.connections
    BY Zenon DEF Accepted, Validate, ConnectionsValid
  <2> QED BY <1>3, <2>1, ParentKnown, Zenon
<1>4. ASSUME NEW a, InTopology(a), cfg.auth PROVE AgentIdentitiesKnown(cfg, a)
  <2>1. NamesOf(cfg.topology) \cup {cfg.name} \subseteq cfg.identities
    BY <1>4, Zenon DEF Accepted, Validate, IdentitiesValid
  <2>2. ChildrenNames(cfg, a) \subseteq NamesOf(cfg.topology) BY Zenon DEF ChildrenNames, NamesOf
  <2>3. a \in NamesOf(cfg.topology) BY <1>4, Zenon DEF InTopology
  <2> QED BY <2>1, <2>2, <2>3, Zenon DEF AgentIdentitiesKnown
<1> QED BY <1>1, <1>2, <1>3, <1>4, Zenon

\* The states a process may be in by one of the defects that are not checked.
Excused(n, st) ==
    /\ n = RootNode /\ st = "failed" =>
          \E k \in DOMAIN cfg.bindings : cfg.bindings[k].parent # NoParent
    /\ n \in Agents /\ st = "aborted" => RootLabel \in ParentNames(SegmentOf(n)) \ cfg.connections
    /\ n \in Agents /\ st = "failed" => \E p, q \in ParentNames(SegmentOf(n)) : p # q

\* A node fails by one of the defects.
LEMMA BootsStep ==
    ASSUME DeployInv, AcceptedBoots, [Next]_vars
    PROVE  AcceptedBoots'
<1>1. TypeOK /\ cfg \in Configs /\ NodesInv
  BY Zenon DEF DeployInv
<1>2. cfg' = cfg /\ \A a : SegmentOf(a)' = SegmentOf(a)
  <2>1. cfg' = cfg
    BY Zenon DEF Next, vars, BootRoot, Climb, Store, LoseCall, Register, BootAgent, Stop,
                AnnounceKey, CreateSecret
  <2> QED BY <2>1, SameConfig, Zenon
<1>3. ASSUME NEW n \in Nodes, NEW st, Excused(n, st), node' = [node EXCEPT ![n] = st]
      PROVE  AcceptedBoots'
  <2>1. \A m \in Nodes : node'[m] = IF m = n THEN st ELSE node[m]
    BY <1>1, <1>3, Zenon DEF TypeOK
  <2>2. /\ node'[RootNode] = "failed" =>
              \E k \in DOMAIN cfg.bindings : cfg.bindings[k].parent # NoParent
        /\ \A a \in Agents :
              /\ node'[a] = "aborted" => RootLabel \in ParentNames(SegmentOf(a)) \ cfg.connections
              /\ node'[a] = "failed" => \E p, q \in ParentNames(SegmentOf(a)) : p # q
    BY <1>3, <2>1, NodeNames, Zenon DEF AcceptedBoots, Excused
  <2> QED BY <1>2, <2>2, Zenon DEF AcceptedBoots
<1>4. \A n, st : st \in {"down", "refused", "registered", "up"} => Excused(n, st)
  <2>1. \A st : st \in {"down", "refused", "registered", "up"} => st \notin {"failed", "aborted"}
    OBVIOUS
  <2> QED BY <2>1, Zenon DEF Excused
<1>5. CASE BootRoot
  <2>1. PICK x : /\ x = IF ~ Validate(cfg) THEN "refused"
                          ELSE IF ManagerBuilds(RootNode, {}) THEN "up" ELSE "failed"
                 /\ node' = [node EXCEPT ![RootNode] = x]
    BY <1>5, Zenon DEF BootRoot, Becomes
  <2>2. Excused(RootNode, x)
    <3>1. CASE x = "failed"
      <4>1. Accepted /\ ~ ManagerBuilds(RootNode, {}) BY <1>1, <2>1, <3>1, Zenon DEF Accepted
      <4>2. \E k \in DOMAIN cfg.bindings : cfg.bindings[k].parent # NoParent
        BY <4>1, ManagersBuild, Zenon
      <4> QED BY <4>2, NodeNames, Zenon DEF Excused
    <3>2. CASE x # "failed" BY <1>4, <2>1, <3>2, Zenon
    <3> QED BY <3>1, <3>2, Zenon
  <2> QED BY <1>3, <2>1, <2>2, NodeNames, Zenon
<1>6. ASSUME NEW a \in Agents, Register(a) PROVE AcceptedBoots'
  <2>1. Accepted /\ InTopology(a) BY <1>1, <1>6, Zenon DEF Register, NodesInv, Accepted
  <2>2. PICK p \in ParentNames(SegmentOf(a)) :
          \/ node' = [node EXCEPT ![a] = "registered"]
          \/ /\ ~ (p \in cfg.connections /\ (cfg.auth => AgentIdentitiesKnown(cfg, a)))
             /\ node' = [node EXCEPT ![a] = "aborted"]
    BY <1>6, Zenon DEF Register, Becomes
  <2>3. CASE node' = [node EXCEPT ![a] = "registered"] BY <1>3, <1>4, <2>3, NodeNames, Zenon
  <2>4. CASE /\ ~ (p \in cfg.connections /\ (cfg.auth => AgentIdentitiesKnown(cfg, a)))
             /\ node' = [node EXCEPT ![a] = "aborted"]
    <3>1. RootLabel \in ParentNames(SegmentOf(a)) \ cfg.connections
      BY <2>1, <2>4, ManagersBuild, Zenon
    <3>2. "aborted" # "failed" OBVIOUS
    <3>3. Excused(a, "aborted") BY <3>1, <3>2, Zenon DEF Excused
    <3> QED BY <1>3, <2>4, <3>3, NodeNames, Zenon
  <2> QED BY <2>2, <2>3, <2>4, Zenon
<1>7. ASSUME NEW a \in Agents, BootAgent(a) PROVE AcceptedBoots'
  <2>1. Accepted /\ InTopology(a)
    BY <1>1, <1>7, Zenon DEF BootAgent, NodesInv, Accepted
  <2>2. PICK p \in ParentNames(SegmentOf(a)) : conns[a] = {p}
    BY <1>1, <1>7, Zenon DEF BootAgent, NodesInv
  <2>3. PICK x : /\ x = IF BuildsFrom(a, p) THEN "up" ELSE "failed"
                 /\ node' = [node EXCEPT ![a] = x]
    BY <1>7, <2>2, Zenon DEF BootAgent, Becomes, BuildsFrom
  <2>4. Excused(a, x)
    <3>1. CASE BuildsFrom(a, p) BY <1>4, <2>3, <3>1, Zenon
    <3>2. CASE ~ BuildsFrom(a, p)
      <4>1. x = "failed" BY <2>3, <3>2
      <4>2. TwoProviders(a) BY <2>1, <2>2, <3>2, ManagersBuild, Zenon
      <4>3. a # RootNode /\ "failed" # "aborted" BY NodeNames, Zenon
      <4> QED BY <4>1, <4>2, <4>3, Zenon DEF Excused, TwoProviders
    <3> QED BY <3>1, <3>2, Zenon
  <2> QED BY <1>3, <2>3, <2>4, NodeNames, Zenon
<1>8. ASSUME NEW n \in Nodes, Stop(n) PROVE AcceptedBoots'
  BY <1>3, <1>4, <1>8, Zenon DEF Stop, Becomes
<1>9. ASSUME node' = node PROVE AcceptedBoots'
  BY <1>2, <1>9, Zenon DEF AcceptedBoots
<1>10. CASE Next
  <2>1. \/ BootRoot \/ \E a \in Agents : Register(a) \/ BootAgent(a)
        \/ \E n \in Nodes : Stop(n)
        \/ node' = node
    BY <1>10, Zenon DEF Next, Climb, Store, LoseCall, AnnounceKey, CreateSecret
  <2> QED BY <1>5, <1>6, <1>7, <1>8, <1>9, <2>1, Zenon
<1>11. CASE UNCHANGED vars
  BY <1>9, <1>11, Zenon DEF vars
<1> QED BY <1>10, <1>11, Zenon

\* What the property says of a request is said of the configuration, which does
\* not change, and of the node of its key.
LEMMA ServedStay ==
    ASSUME ServeInv, cfg' = cfg, walk' = walk, home'[walk.key] = home[walk.key] \/ walk.state # "noVault",
           home'[walk.kind] = home[walk.kind] \/ walk.state # "climbing"
    PROVE  AcceptedServes' /\ (walk'.state = "climbing" => home'[walk'.kind] = walk'.node)
<1>1. /\ H' = H /\ Members' = Members /\ \A n : Bindings(n)' = Bindings(n)
      /\ \A n, k : Manages(n, k)' <=> Manages(n, k)
  BY SameConfig, Zenon DEF Members
<1>2. \A k : Shared(k)' <=> Shared(k)
  BY <1>1, Zenon DEF Shared
<1>3. \A n, k : HasVault(n, k)' <=> HasVault(n, k)
  BY <1>1, Zenon DEF HasVault
<1>4. walk.state = "noVault" =>
        (~ HasVault(walk.node, walk.kind) \/ ~ HasVault(home[walk.key], walk.key))'
  BY <1>3, Zenon DEF ServeInv, AcceptedServes
<1>5. AcceptedServes'
  BY <1>1, <1>2, <1>4, Zenon DEF ServeInv, AcceptedServes
<1>6. walk'.state = "climbing" => home'[walk'.kind] = walk'.node
  BY Zenon DEF ServeInv
<1> QED BY <1>5, <1>6, Zenon

\* The climb meets everything it needs, or one of the defects.
LEMMA ClimbServes ==
    ASSUME DeployInv, ServeInv, Climb
    PROVE  /\ AcceptedServes'
           /\ walk'.state = "climbing" => home'[walk'.kind] = walk'.node
<1>1. /\ TypeOK /\ UNCHANGED <<cfg, node, conns, home, sealed, faults>> /\ walk.state = "climbing"
      /\ walk \in WalkType
  BY Zenon DEF DeployInv, Climb, TypeOK, WalkType
<1>2. PICK k : k = walk.kind
  OBVIOUS
<1>3. PICK m : m = walk.node
  OBVIOUS
<1>4. /\ Accepted /\ Known(m) /\ k \in DOMAIN Bindings(m) /\ RoleOf(H, k) # "root" /\ home[k] = m
  BY <1>1, <1>2, <1>3, Zenon DEF DeployInv, ClimbInv, ServeInv, Accepted
<1>5. PICK up : up = ParentKind(k)
  OBVIOUS
<1>6. PICK p : p = Bindings(m)[k].parent
  OBVIOUS
<1>7. PICK n : n = IF p # NoParent THEN NodeOf(p) ELSE m
  OBVIOUS
<1>8. k \in Kinds /\ up \in Kinds
  BY <1>4, <1>5, BoundIsManaged, ManagedIsBound, Zenon
<1>9. Known(n) /\ Manages(n, up)
  BY <1>4, <1>5, <1>6, <1>7, ProviderManages, LocalManages, Zenon
<1>10. Known(home[up]) /\ Manages(home[up], up)
  <2>1. m # NoNode BY <1>4, KnownNodes, Zenon
  <2>2. home[up] # NoNode BY <1>4, <1>5, <1>8, <2>1, Zenon DEF DeployInv, PlacedInv
  <2> QED BY <1>8, <2>2, Zenon DEF DeployInv, PlacedInv
<1>11. /\ H' = H /\ Members' = Members /\ \A q : Bindings(q)' = Bindings(q)
       /\ \A q, kind : Manages(q, kind)' <=> Manages(q, kind)
  <2>1. cfg' = cfg BY <1>1, Zenon
  <2> QED BY <2>1, SameConfig, Zenon DEF Members
<1>12. CASE p = NoParent /\ RoleOf(H, up) = "root"
  <2>1. walk' = [walk EXCEPT !.state = "answered"]
    BY <1>2, <1>3, <1>5, <1>6, <1>12, Zenon DEF Climb
  <2>2. walk'.state = "answered" BY <1>1, <2>1, Zenon DEF WalkType
  <2>3. "answered" \notin {"noKey", "noProcessor", "noVault", "climbing"} OBVIOUS
  <2> QED BY <2>2, <2>3, Zenon DEF AcceptedServes
<1>13. CASE ~ (p = NoParent /\ RoleOf(H, up) = "root")
  <2>1. PICK x : x = Answer(n, up) OBVIOUS
  <2>2. walk' = [walk EXCEPT !.state = x, !.node = n, !.kind = up]
    BY <1>2, <1>3, <1>5, <1>6, <1>7, <1>13, <2>1, Zenon DEF Climb
  <2>3. walk'.state = x /\ walk'.node = n /\ walk'.kind = up BY <1>1, <2>2, Zenon DEF WalkType
  <2>4. x = "noKey" => Shared(up)
    <3>1. x = "noKey" => home[up] # n BY <2>1, Zenon DEF Answer
    <3>2. n \in Members /\ home[up] \in Members
      BY <1>9, <1>10, Zenon DEF Known, Members, InTopology
    <3> QED BY <1>9, <1>10, <3>1, <3>2, Zenon DEF Shared
  <2>5. x = "noProcessor" => RoleOf(H, up) = "root"
    <3>1. RoleOf(H, up) # "root" => up \in DOMAIN Bindings(n) BY <1>4, <1>9, ManagedIsBound, Zenon
    <3> QED BY <2>1, <3>1, Zenon DEF Answer
  <2>6. x = "noVault" => ~ HasVault(n, up) BY <2>1, Zenon DEF Answer, HasVault
  <2>7. x = "climbing" => home[up] = n BY <2>1, Zenon DEF Answer
  <2>8. Shared(up)' <=> Shared(up) BY <1>11, Zenon DEF Shared
  <2>9. HasVault(n, up)' <=> HasVault(n, up) BY <1>11, Zenon DEF HasVault
  <2>10. AcceptedServes'
    BY <1>11, <2>3, <2>4, <2>5, <2>6, <2>8, <2>9, Zenon DEF AcceptedServes
  <2> QED BY <1>1, <2>3, <2>7, <2>10, Zenon
<1> QED BY <1>12, <1>13, Zenon

\* A request fails for good by one of the defects.
LEMMA ServesStep ==
    ASSUME DeployInv, ServeInv, [Next]_vars
    PROVE  /\ AcceptedServes'
           /\ walk'.state = "climbing" => home'[walk'.kind] = walk'.node
<1> DEFINE Goal == AcceptedServes' /\ (walk'.state = "climbing" => home'[walk'.kind] = walk'.node)
<1>1. TypeOK /\ cfg \in Configs /\ NodesInv /\ PlacedInv /\ ClimbInv /\ walk \in WalkType
  BY Zenon DEF DeployInv, TypeOK, WalkType
<1>2. Idle.state = "idle" /\ "idle" \notin {"noKey", "noProcessor", "noVault", "climbing"}
  BY Zenon DEF Idle
<1>3. ASSUME walk' = Idle PROVE Goal
  BY <1>2, <1>3, Zenon DEF AcceptedServes
<1>4. ASSUME cfg' = cfg, walk' = walk, home' = home PROVE Goal
  BY <1>4, ServedStay, Zenon
<1>5. ASSUME NEW n \in Nodes, NEW k \in Kinds, AnnounceKey(k, n) PROVE Goal
  <2>1. cfg' = cfg /\ walk' = walk /\ home' = [home EXCEPT ![k] = n] /\ home[k] = NoNode
    BY <1>5, Zenon DEF AnnounceKey
  <2>2. \A q \in Kinds : home[q] # NoNode => home'[q] = home[q]
    BY <1>1, <2>1, Zenon DEF TypeOK
  <2>3. walk.state = "climbing" => home'[walk.kind] = home[walk.kind]
    <3> SUFFICES ASSUME walk.state = "climbing" PROVE home'[walk.kind] = home[walk.kind]
      OBVIOUS
    <3>1. Accepted /\ Known(walk.node) /\ walk.kind \in DOMAIN Bindings(walk.node)
      BY <1>1, Zenon DEF ClimbInv, Accepted
    <3>2. home[walk.kind] # NoNode /\ walk.kind \in Kinds
      BY <3>1, KnownNodes, BoundIsManaged, Zenon DEF ServeInv
    <3> QED BY <2>2, <3>2, Zenon
  <2>4. walk.state = "noVault" => home'[walk.key] = home[walk.key]
    <3>1. "noVault" # "idle" OBVIOUS
    <3> QED BY <1>1, <2>2, <3>1, Zenon DEF ClimbInv
  <2> QED BY <2>1, <2>3, <2>4, ServedStay, Zenon
<1>6. ASSUME NEW k \in Kinds, CreateSecret(k) PROVE Goal
  <2>1. CASE RoleOf(H, k) = "root" BY <1>4, <1>6, <2>1, Zenon DEF CreateSecret
  <2>2. CASE RoleOf(H, k) # "root"
    <3>1. home' = home /\ home[k] # NoNode BY <1>6, Zenon DEF CreateSecret
    <3>2. k \in DOMAIN Bindings(home[k])
      BY <1>1, <2>2, <3>1, ManagedIsBound, Zenon DEF PlacedInv, Accepted
    <3>3. walk' = [state |-> "climbing", key |-> k, node |-> home[k], kind |-> k]
      BY <1>6, <2>2, <3>2, Zenon DEF CreateSecret
    <3>4. walk'.state = "climbing" /\ walk'.node = home[k] /\ walk'.kind = k BY <3>3, Zenon
    <3>5. "climbing" \notin {"noKey", "noProcessor", "noVault"} OBVIOUS
    <3> QED BY <3>1, <3>4, <3>5, Zenon DEF AcceptedServes
  <2> QED BY <2>1, <2>2, Zenon
<1>7. CASE Store
  <2>1. CASE Bindings(home[walk.key])[walk.key].vault BY <1>3, <1>7, <2>1, Zenon DEF Store
  <2>2. CASE ~ Bindings(home[walk.key])[walk.key].vault
    <3>1. walk' = [walk EXCEPT !.state = "noVault"] /\ home' = home /\ cfg' = cfg
      BY <1>7, <2>2, Zenon DEF Store
    <3>2. walk'.state = "noVault" /\ walk'.key = walk.key BY <1>1, <3>1, Zenon DEF WalkType
    <3>3. \A n : Bindings(n)' = Bindings(n) BY <3>1, SameConfig, Zenon
    <3>4. (~ HasVault(home[walk.key], walk.key))'
      BY <2>2, <3>1, <3>2, <3>3, Zenon DEF HasVault
    <3>5. "noVault" \notin {"noKey", "noProcessor", "climbing"} OBVIOUS
    <3> QED BY <3>2, <3>4, <3>5, Zenon DEF AcceptedServes
  <2> QED BY <2>1, <2>2, Zenon
<1>8. CASE Next
  <2>1. \/ Climb \/ Store \/ \E n \in Nodes, k \in Kinds : AnnounceKey(k, n)
        \/ \E k \in Kinds : CreateSecret(k)
        \/ walk' = Idle \/ (cfg' = cfg /\ walk' = walk /\ home' = home)
    BY <1>8, Zenon DEF Next, BootRoot, LoseCall, Register, BootAgent, Stop
  <2> QED BY <1>3, <1>4, <1>5, <1>6, <1>7, <2>1, ClimbServes, Zenon
<1>9. CASE UNCHANGED vars
  BY <1>4, <1>9, Zenon DEF vars
<1> QED BY <1>8, <1>9, Zenon

-----------------------------------------------------------------------------
(* The theorems *)

\* The variables have their types, for all configurations.
THEOREM DeploymentTypes == Spec => []TypeOK
<1>1. DeployInv => TypeOK
  BY Zenon DEF DeployInv
<1> QED BY <1>1, InitInv, NextInv, PTL DEF Spec

\* No agent of a configuration the root runs with is called "root", although
\* nothing checks it: for all configurations.
THEOREM RootLabelStaysTheRoots == Spec => []RootLabelIsTheRoots
<1>1. DeployInv => RootLabelIsTheRoots
  BY NoAgentIsRoot, Zenon DEF DeployInv, NodesInv, Accepted, RootLabelIsTheRoots
<1> QED BY <1>1, InitInv, NextInv, PTL DEF Spec

\* The provider of an agent's first kind starts higher than the agent: for all
\* configurations.
THEOREM ProvidersAreHigher == Spec => []ProvidersStartHigher
<1>1. DeployInv => ProvidersStartHigher
  BY AcceptedTopology, Zenon DEF DeployInv, NodesInv, Accepted, ProvidersStartHigher
<1> QED BY <1>1, InitInv, NextInv, PTL DEF Spec

\* The whole invariant.
LEMMA DeployServeInv == Spec => [](DeployInv /\ ServeInv)
<1>1. Init => DeployInv /\ ServeInv
  <2>1. Init => AcceptedBoots
    <3>1. "down" \notin {"failed", "aborted"} OBVIOUS
    <3>2. Init => \A n \in Nodes : node[n] = "down" BY Zenon DEF Init
    <3> QED BY <3>1, <3>2, NodeNames, Zenon DEF AcceptedBoots
  <2>2. Init => walk.state = "idle" BY DEF Init, Idle
  <2>3. Init => AcceptedServes /\ walk.state # "climbing" BY <2>2, Zenon DEF AcceptedServes
  <2> QED BY <2>1, <2>3, InitInv, Zenon DEF ServeInv
<1>2. DeployInv /\ ServeInv /\ [Next]_vars => DeployInv' /\ ServeInv'
  <2> SUFFICES ASSUME DeployInv, ServeInv, [Next]_vars PROVE DeployInv' /\ ServeInv'
    OBVIOUS
  <2>1. AcceptedBoots' BY BootsStep, Zenon DEF ServeInv
  <2>2. AcceptedServes' /\ (walk'.state = "climbing" => home'[walk'.kind] = walk'.node)
    BY ServesStep, Zenon
  <2> QED BY <2>1, <2>2, NextInv, Zenon DEF ServeInv
<1> QED BY <1>1, <1>2, PTL DEF Spec

\* A configuration that Validate accepts can be run, except for the three defects
\* the property names: no other one keeps a manager from being built or a
\* registration from being answered. For all configurations.
THEOREM AcceptedConfigBoots == Spec => []AcceptedBoots
<1>1. DeployInv /\ ServeInv => AcceptedBoots
  BY Zenon DEF ServeInv
<1> QED BY <1>1, DeployServeInv, PTL

\* Wherever AnnounceKey allowed the keys of an accepted configuration to be
\* placed, every climb meets the key, the processor and the secret it needs,
\* except for the three defects the property names. For all configurations.
THEOREM AcceptedConfigServes == Spec => []AcceptedServes
<1>1. DeployInv /\ ServeInv => AcceptedServes
  BY Zenon DEF ServeInv
<1> QED BY <1>1, DeployServeInv, PTL

=============================================================================
