---------------------------- MODULE MCDeployment ----------------------------
(***************************************************************************)
(* Deployment over sets of configurations: two agents at most, hierarchies *)
(* of up to five kinds, well-formed configurations together with ones that *)
(* have a defect.                                                          *)
(***************************************************************************)
EXTENDS Deployment

MCAgents == {"a", "b", "root"}
Names == <<"K0", "K1", "K2", "K3", "K4">>
MCKinds == {Names[i] : i \in 1 .. 5}

Make(roles) == [i \in 1 .. Len(roles) |-> [kind |-> Names[i], role |-> roles[i]]]
Four == Make(<<"root", "kek", "tek", "dek">>)
Five == Make(<<"root", "kek", "tek", "tek", "dek">>)
Long == Make(<<"root", "kek", "tek", "kek", "dek">>)
Headless == Make(<<"kek", "kek", "tek", "dek">>)
Twice == [Five EXCEPT ![4].kind = "K2"]

KindsFrom(h, i, j) == {h[l].kind : l \in i .. j}
Full(p) == [sealer |-> TRUE, cryptor |-> TRUE, vault |-> TRUE, parent |-> p]

\* Bindings of the kinds, the first of them with the given provider.
Bind(ks, first, p) == [k \in ks |-> Full(IF k = first THEN p ELSE NoParent)]

Part(h, n, i, j, p) ==
    [name |-> n, segment |-> [start |-> h[i].kind, end |-> h[j].kind],
     bindings |-> Bind(KindsFrom(h, i, j), h[i].kind, p)]

Parts(h) == {Part(h, n, i, j, p) :
               n \in MCAgents, i \in 2 .. Len(h), j \in 2 .. Len(h), p \in MCAgents}
\* Parts whose ends are in order, and parts with one defect in their bindings.
Whole(h) == {t \in Parts(h) : t.segment.start \in DOMAIN t.bindings}
First(h) == {t \in Whole(h) : t.name = "a"}
Sound(h) == {t \in Whole(h) : AgentSegmentValid(h, t.segment, t.bindings)}
Damaged(h) ==
    UNION {{[t EXCEPT !.bindings[t.segment.start].sealer = FALSE],
            [t EXCEPT !.bindings[t.segment.end].cryptor = FALSE],
            [t EXCEPT !.bindings[t.segment.start].parent = NoParent],
            [t EXCEPT !.bindings = [k \in DOMAIN t.bindings \ {t.segment.end} |-> t.bindings[k]]],
            [t EXCEPT !.bindings = Bind(DOMAIN t.bindings \cup {"K1"}, t.segment.start, "root")]} :
           t \in First(h)}

Topologies(h) == {<<>>} \cup {<<t>> : t \in Parts(h) \cup Damaged(h)}
                 \cup {<<s, t>> : s \in Sound(h) \cap First(h), t \in Sound(h)}

RootBindings(h, j) == Bind(KindsFrom(h, 2, j), "", NoParent)

\* The root's segment is from place i to j.
Config(name, h, i, j, topology) ==
    [name |-> name, hierarchy |-> h,
     segment |-> [start |-> h[i].kind, end |-> h[j].kind],
     bindings |-> RootBindings(h, j), topology |-> topology,
     connections |-> {name, RootLabel} \cup NamesOf(topology), auth |-> FALSE,
     identities |-> {name} \cup NamesOf(topology)]

Shapes(h, names) ==
    {Config(n, h, i, j, t) : n \in names, i \in {1, 2}, j \in {2, 3}, t \in Topologies(h)}

\* No kind is managed by two nodes.
Disjoint(c) ==
    \A t \in Segments(c.topology) :
        LET span == Span(c.hierarchy, t.segment)
        IN  /\ span \cap Span(c.hierarchy, c.segment) = {}
            /\ \A u \in Segments(c.topology) : u # t => span \cap Span(c.hierarchy, u.segment) = {}

\* Most have a defect that the checks must find.
Plain ==
    {c \in Shapes(Five, {"root"}) \cup Shapes(Long, {"root"}) \cup Shapes(Four, {"main"})
           \cup Shapes(Headless, {"root"}) \cup Shapes(Twice, {"root"}) : Disjoint(c)}

\* With mutual TLS, and with or without an identity for each node.
Authenticated ==
    {[[c EXCEPT !.auth = TRUE] EXCEPT !.identities = @ \ {n}] :
        c \in {d \in Shapes(Four, {"root"}) : Disjoint(d)}, n \in {"root", "a", ""}}

(* Defects that no check looks for.                                         *)

\* Two nodes manage a kind.
Overlapping == {c \in Shapes(Four, {"main"}) : Validate(c) /\ ~ Disjoint(c)}

\* The root's name is no connection, a binding of the root or another one of an
\* agent has a provider, or a binding has no vault.
Unchecked(c) ==
    {[c EXCEPT !.connections = @ \ {RootLabel}]}
    \cup UNION {{[c EXCEPT !.bindings[k].parent = RootLabel], [c EXCEPT !.bindings[k].vault = FALSE]} :
                  k \in DOMAIN c.bindings}
    \cup UNION {UNION {{[c EXCEPT !.topology[i].bindings[k].parent = "a"],
                       [c EXCEPT !.topology[i].bindings[k].vault = FALSE]} :
                         k \in DOMAIN c.topology[i].bindings} :
                  i \in 1 .. Len(c.topology)}

\* An agent is directly below the root key, which is all the root manages.
BelowRootKey ==
    LET h == Make(<<"root", "tek", "dek">>)
    IN  {[Config("root", h, 1, 1, <<Part(h, "a", 2, j, "root")>>)
            EXCEPT !.bindings = Bind({"K0"}, "", NoParent)] : j \in {2, 3}}

\* Configurations that run; the ones that differ by the agent's name only are
\* given their defects once.
Running == {c \in Shapes(Five, {"main"}) : Disjoint(c) /\ Validate(c)}
Repeats(c) == Len(c.topology) = 1 /\ c.topology[1].name # "a"

MCConfigs ==
    Plain \cup Authenticated \cup Overlapping \cup BelowRootKey \cup Running
    \cup UNION {Unchecked(c) : c \in {d \in Running : ~ Repeats(d)}}

=============================================================================
