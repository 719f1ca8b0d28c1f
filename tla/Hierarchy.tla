------------------------------ MODULE Hierarchy ------------------------------
(***************************************************************************)
(* The root's configuration and the checks it passes before the root       *)
(* starts: the key hierarchy, the segments of it that the root and each    *)
(* agent manage, and the bindings that say how each kind is protected.     *)
(*                                                                         *)
(* A hierarchy is a sequence of key specs from the top; a binding only     *)
(* says which of its parts are there. An empty provider name is refused    *)
(* wherever it stands and is not among the values.                         *)
(***************************************************************************)
EXTENDS Integers, Sequences

NoParent == ""      \* a binding without parent_key_provider
RootLabel == "root" \* the name ValidateTopologyAgainstHierarchy knows the root by

-----------------------------------------------------------------------------
(* KeyHierarchy *)

\* The place of the kind in the hierarchy, 0 when it is not there.
IndexOf(h, kind) ==
    LET at == {i \in 1 .. Len(h) : h[i].kind = kind}
    IN  IF at = {} THEN 0 ELSE CHOOSE i \in at : \A j \in at : i <= j

RoleAt(h, i) == IF i = 0 THEN "none" ELSE h[i].role
RoleOf(h, kind) == RoleAt(h, IndexOf(h, kind))

HierarchyValid(h) ==
    /\ h # <<>>
    /\ \A i \in 1 .. Len(h) : h[i].kind # ""
    /\ h[1].role = "root"
    /\ \A i \in 2 .. Len(h) - 1 : h[i].role \in {"kek", "tek"}
    /\ Len(h) > 1 => h[Len(h)].role = "dek"
    /\ \A i, j \in 1 .. Len(h) : h[i].kind = h[j].kind => i = j

\* The places between the ends of the segment, both included.
Span(h, seg) == IndexOf(h, seg.start) .. IndexOf(h, seg.end)

\* A faulty variant: the end of the segment is not looked at.
SegmentReaches(h, seg, kind) ==
    /\ 0 \notin {IndexOf(h, seg.start), IndexOf(h, seg.end), IndexOf(h, kind)}
    /\ IndexOf(h, seg.start) <= IndexOf(h, kind)

SegmentContains(h, seg, kind) ==
    /\ 0 \notin {IndexOf(h, seg.start), IndexOf(h, seg.end), IndexOf(h, kind)}
    /\ IndexOf(h, kind) \in Span(h, seg)

-----------------------------------------------------------------------------
(* A segment against the hierarchy *)

BindingsCover(h, seg, bindings, exemptRoot) ==
    /\ 0 \notin {IndexOf(h, seg.start), IndexOf(h, seg.end)}
    /\ IndexOf(h, seg.start) <= IndexOf(h, seg.end)
    /\ \A i \in Span(h, seg) :
          (exemptRoot /\ h[i].role = "root") \/ h[i].kind \in DOMAIN bindings
    /\ \A kind \in DOMAIN bindings : \E i \in Span(h, seg) : h[i].kind = kind

RootSegmentValid(h, seg, bindings) ==
    /\ BindingsCover(h, seg, bindings, TRUE)
    /\ IndexOf(h, seg.start) = 1
    /\ RoleOf(h, seg.end) # "tek"
    /\ \A i \in Span(h, seg) : h[i].role # "root" => bindings[h[i].kind].cryptor

AgentSegmentValid(h, seg, bindings) ==
    /\ BindingsCover(h, seg, bindings, FALSE)
    /\ RoleOf(h, seg.start) = "tek"
    /\ seg.start # seg.end => RoleOf(h, seg.end) \notin {"root", "tek"}
    /\ \A i \in Span(h, seg) : h[i].role # "root"
    /\ bindings[seg.start].parent # NoParent
    /\ bindings[seg.start].sealer
    /\ \A i \in Span(h, seg) : bindings[h[i].kind].cryptor

-----------------------------------------------------------------------------
(* The topology: who provides the parent keys *)

Segments(topology) == {topology[i] : i \in 1 .. Len(topology)}
NamesOf(topology) == {t.name : t \in Segments(topology)}

\* A faulty variant: the root keeps its name.
ProvidersRootFirst(topology, rootSeg) ==
    [n \in {RootLabel} \cup NamesOf(topology) |->
        IF n = RootLabel
          THEN rootSeg
          ELSE (CHOOSE t \in Segments(topology) : t.name = n).segment]

\* The segment a provider's name stands for: a segment of the topology hides
\* the root's when it has the same name.
Providers(topology, rootSeg) ==
    [n \in {RootLabel} \cup NamesOf(topology) |->
        IF n \in NamesOf(topology)
          THEN (CHOOSE t \in Segments(topology) : t.name = n).segment
          ELSE rootSeg]

\* A faulty variant: any name the topology knows is accepted.
ProvidersOnlyKnown(h, bindings, providers) ==
    \A kind \in DOMAIN bindings :
        LET p == bindings[kind].parent IN p # NoParent => p \in DOMAIN providers

ParentProvidersResolve(h, bindings, providers) ==
    \A kind \in DOMAIN bindings :
        LET p == bindings[kind].parent
            at == IndexOf(h, kind) - 1
        IN  p # NoParent =>
              /\ p \in DOMAIN providers
              /\ at > 0 =>
                   LET s == providers[p]
                   IN  0 \in {IndexOf(h, s.start), IndexOf(h, s.end)}
                       \/ at \in Span(h, s)

TopologyValid(h, topology, rootSeg, rootBindings) ==
    LET providers == Providers(topology, rootSeg)
    IN  /\ \A i, j \in 1 .. Len(topology) : topology[i].name = topology[j].name => i = j
        /\ \A t \in Segments(topology) : AgentSegmentValid(h, t.segment, t.bindings)
        /\ ParentProvidersResolve(h, rootBindings, providers)
        /\ \A t \in Segments(topology) : ParentProvidersResolve(h, t.bindings, providers)

-----------------------------------------------------------------------------
(* RootConfig *)

ConnectionsValid(cfg) ==
    NamesOf(cfg.topology) \cup {cfg.name} \subseteq cfg.connections

IdentitiesValid(cfg) == NamesOf(cfg.topology) \cup {cfg.name} \subseteq cfg.identities

Validate(cfg) ==
    /\ HierarchyValid(cfg.hierarchy)
    /\ \A t \in Segments(cfg.topology) : t.name # "" /\ DOMAIN t.bindings # {}
    /\ DOMAIN cfg.bindings # {}
    /\ RootSegmentValid(cfg.hierarchy, cfg.segment, cfg.bindings)
    /\ TopologyValid(cfg.hierarchy, cfg.topology, cfg.segment, cfg.bindings)
    /\ cfg.auth => IdentitiesValid(cfg)
    /\ ConnectionsValid(cfg)

\* The names ParentName may return: it takes the first binding with a
\* provider that the iteration over the map meets.
ParentNames(t) == {t.bindings[k].parent : k \in DOMAIN t.bindings} \ {NoParent}

ChildrenNames(cfg, name) == 
    {t.name : t \in {s \in Segments(cfg.topology) : name \in ParentNames(s)}}

\* The identities Register hands out; the agent itself must have one too.
AgentIdentitiesKnown(cfg, name) ==
    /\ name \in cfg.identities
    /\ ChildrenNames(cfg, name) \cup {cfg.name} \subseteq cfg.identities

=============================================================================
