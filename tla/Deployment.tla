----------------------------- MODULE Deployment -----------------------------
(***************************************************************************)
(* From the root's configuration to a key whose secret is sealed: the root *)
(* checks its configuration and starts, agents register and start with     *)
(* what Register hands them, keys are announced to the nodes that manage   *)
(* their kind, and creating a key's secret climbs from parent key to       *)
(* parent key, over RPC where a binding names a provider, up to the        *)
(* RootManager.                                                            *)
(*                                                                         *)
(* One chain of keys is followed, one key per kind; vaults outlive the     *)
(* processes. What the checks of Hierarchy accept is what the nodes have   *)
(* to live with afterwards.                                                *)
(***************************************************************************)
EXTENDS Hierarchy, FiniteSets

CONSTANTS Agents,    \* the names agents register under
          Kinds,     \* the names of key kinds
          Configs,   \* the configurations the root may be given
          MaxFaults  \* bound on stopped processes and failed RPCs

\* An agent with the root's own name would share the root's connection.
ASSUME DistinctNames ==
    \A c \in Configs : c.name # RootLabel => c.name \notin NamesOf(c.topology)

RootNode == "root node"
NoNode == "no node"
NoKey == ""
Nodes == Agents \cup {RootNode}

\* The configurations name agents and kinds of these sets.
ASSUME ConfigsAssumption ==
    /\ RootNode \notin Agents /\ NoNode \notin Agents /\ MaxFaults \in Nat
    /\ \A c \in Configs : /\ c.hierarchy \in Seq([kind : Kinds, role : STRING])
                          /\ Len(c.topology) \in Nat /\ NamesOf(c.topology) \subseteq Agents
Idle == [state |-> "idle", key |-> NoKey, node |-> NoNode, kind |-> NoKey]

VARIABLES cfg,     \* the root's configuration
          node,    \* each process
          conns,   \* the connections an agent was given by Register
          home,    \* the node each announced key is managed by
          sealed,  \* the keys whose secret is in the vault of their node
          walk,    \* the secret being created, and where its request is
          faults   \* the stops and failed RPCs so far

vars == <<cfg, node, conns, home, sealed, walk, faults>>

H == cfg.hierarchy
SegmentOf(a) == CHOOSE t \in Segments(cfg.topology) : t.name = a
InTopology(a) == a \in NamesOf(cfg.topology)
Bindings(n) == IF n = RootNode THEN cfg.bindings ELSE SegmentOf(n).bindings
ParentKind(kind) == H[IndexOf(H, kind) - 1].kind

\* Whom a connection of that name reaches.
NodeOf(name) == IF InTopology(name) THEN name ELSE RootNode

Init ==
    /\ cfg \in Configs
    /\ node = [n \in Nodes |-> "down"]
    /\ conns = [a \in Agents |-> {}]
    /\ home = [k \in Kinds |-> NoNode]
    /\ sealed = {}
    /\ walk = Idle
    /\ faults = 0

-----------------------------------------------------------------------------
(* Starting the processes *)

\* NewManager needs a parent for each binding that is not the root key's: a
\* connection to the provider, the manager itself, or the RootManager, which
\* only the root has. The root gives its manager no connections.
ManagerBuilds(n, registry) ==
    \A kind \in DOMAIN Bindings(n) :
        LET p == Bindings(n)[kind].parent
        IN  RoleOf(H, kind) # "root" =>
              IF p # NoParent
                THEN n # RootNode /\ p \in registry
                ELSE RoleOf(H, ParentKind(kind)) = "root" => n = RootNode

Becomes(n, state) == node' = [node EXCEPT ![n] = state]

BootRoot ==
    /\ node[RootNode] # "up"
    /\ Becomes(RootNode, IF ~ Validate(cfg) THEN "refused"
                         ELSE IF ManagerBuilds(RootNode, {}) THEN "up" ELSE "failed")
    /\ UNCHANGED <<cfg, conns, home, sealed, walk, faults>>

\* A faulty variant: every agent's parent is taken to be the root.
RegisterBelowRoot(a) ==
    /\ node[RootNode] = "up" /\ node[a] \notin {"up", "registered"} /\ InTopology(a)
    /\ Becomes(a, "registered") /\ conns' = [conns EXCEPT ![a] = {cfg.name}]
    /\ UNCHANGED <<cfg, home, sealed, walk, faults>>

\* AgentService.Register hands out the connection to one parent.
Register(a) ==
    /\ node[RootNode] = "up" /\ node[a] \notin {"up", "registered"} /\ InTopology(a)
    /\ \E p \in ParentNames(SegmentOf(a)) :
         IF p \in cfg.connections /\ (cfg.auth => AgentIdentitiesKnown(cfg, a))
           THEN Becomes(a, "registered") /\ conns' = [conns EXCEPT ![a] = {p}]
           ELSE Becomes(a, "aborted") /\ UNCHANGED conns
    /\ UNCHANGED <<cfg, home, sealed, walk, faults>>

BootAgent(a) ==
    /\ node[a] = "registered"
    /\ Becomes(a, IF ManagerBuilds(a, conns[a]) THEN "up" ELSE "failed")
    /\ UNCHANGED <<cfg, conns, home, sealed, walk, faults>>

\* A process ends. A request it sent or is serving is lost, and the task it
\* was for comes again.
Stop(n) ==
    /\ node[n] = "up" /\ faults < MaxFaults
    /\ Becomes(n, "down")
    /\ walk' \in {walk, Idle}
    /\ n \in {RootNode, walk.node} \/ walk.key \in {k \in Kinds : home[k] = n} => walk' = Idle
    /\ faults' = faults + 1
    /\ UNCHANGED <<cfg, conns, home, sealed>>

-----------------------------------------------------------------------------
(* Keys *)

Manages(n, kind) ==
    SegmentContains(H, IF n = RootNode THEN cfg.segment ELSE SegmentOf(n).segment, kind)

\* The parent key exists and is of the kind just above.
ParentIsAdjacent(kind) == home[ParentKind(kind)] # NoNode

AnnounceKey(kind, n) ==
    /\ node[RootNode] = "up" /\ home[kind] = NoNode
    /\ n # RootNode => InTopology(n)
    /\ Manages(n, kind)
    /\ RoleOf(H, kind) # "root" => ParentIsAdjacent(kind)
    /\ home' = [home EXCEPT ![kind] = n]
    /\ UNCHANGED <<cfg, node, conns, sealed, walk, faults>>

Ancestors(kind) == {H[i].kind : i \in 1 .. IndexOf(H, kind) - 1}

\* ActivateKey reaches the node that manages the key and its secret is to be
\* created there. The root key has none of its own: its provider is bound.
CreateSecret(kind) ==
    /\ walk.state = "idle" /\ node[RootNode] = "up"
    /\ home[kind] # NoNode /\ kind \notin sealed /\ node[home[kind]] = "up"
    /\ Ancestors(kind) \subseteq sealed
    /\ IF RoleOf(H, kind) = "root"
         THEN sealed' = sealed \cup {kind} /\ UNCHANGED walk
         ELSE /\ walk' = [state |-> IF kind \in DOMAIN Bindings(home[kind])
                                      THEN "climbing" ELSE "noProcessor",
                           key |-> kind, node |-> home[kind], kind |-> kind]
              /\ UNCHANGED sealed
    /\ UNCHANGED <<cfg, node, conns, home, faults>>

\* How Manager.Seal answers for the key of that kind: the root's tables have
\* every key, an agent's the ones it manages; the secret is where it was made.
Answer(n, kind) ==
    IF n # RootNode /\ home[kind] # n THEN "noKey"
    ELSE IF kind \notin DOMAIN Bindings(n) \/ RoleOf(H, kind) = "root" THEN "noProcessor"
    ELSE IF ~ Bindings(n)[kind].vault THEN "noVault"
    ELSE IF home[kind] # n THEN "noKey" ELSE "climbing"

\* A faulty variant: a manager passes only its own keys' requests on.
ClimbOnce ==
    /\ walk.state = "climbing" /\ walk.kind = walk.key
    /\ IF Bindings(walk.node)[walk.kind].parent = NoParent /\ RoleOf(H, ParentKind(walk.kind)) = "root"
         THEN walk' = [walk EXCEPT !.state = "answered"]
         ELSE walk' = [walk EXCEPT !.kind = ParentKind(walk.kind)]
    /\ UNCHANGED <<cfg, node, conns, home, sealed, faults>>

\* The next parent up. The processor's parent is a remote manager, the same
\* manager, or the RootManager, which ends the climb.
Climb ==
    LET b == Bindings(walk.node)[walk.kind]
        up == ParentKind(walk.kind)
        n == IF b.parent # NoParent THEN NodeOf(b.parent) ELSE walk.node
    IN  /\ walk.state = "climbing" /\ node[n] = "up"
        /\ walk' = IF b.parent = NoParent /\ RoleOf(H, up) = "root"
                     THEN [walk EXCEPT !.state = "answered"]
                     ELSE [walk EXCEPT !.state = Answer(n, up), !.node = n, !.kind = up]
        /\ UNCHANGED <<cfg, node, conns, home, sealed, faults>>

\* The sealed secret is back at the node that asked, which stores it.
Store ==
    /\ walk.state = "answered" /\ node[home[walk.key]] = "up"
    /\ IF Bindings(home[walk.key])[walk.key].vault
         THEN walk' = Idle /\ sealed' = sealed \cup {walk.key}
         ELSE walk' = [walk EXCEPT !.state = "noVault"] /\ UNCHANGED sealed
    /\ UNCHANGED <<cfg, node, conns, home, faults>>

\* An RPC of the climb fails: the error is passed down, and the task comes
\* again. The errors above are met again every time, and are left standing.
LoseCall ==
    /\ walk.state \in {"climbing", "answered"} /\ faults < MaxFaults
    /\ walk' = Idle
    /\ faults' = faults + 1
    /\ UNCHANGED <<cfg, node, conns, home, sealed>>

Next ==
    \/ BootRoot \/ Climb \/ Store \/ LoseCall
    \/ \E a \in Agents : Register(a) \/ BootAgent(a)
    \/ \E n \in Nodes : Stop(n) \/ \E k \in Kinds : AnnounceKey(k, n)
    \/ \E k \in Kinds : CreateSecret(k)

Spec == Init /\ [][Next]_vars

\* The processes are restarted by their supervisor and the orchestrator
\* delivers a task until it is done.
FairSpec ==
    /\ Spec
    /\ WF_vars(BootRoot) /\ WF_vars(Climb) /\ WF_vars(Store)
    /\ \A a \in Agents : WF_vars(Register(a)) /\ WF_vars(BootAgent(a))
    /\ \A k \in Kinds : SF_vars(CreateSecret(k))

-----------------------------------------------------------------------------
(* Properties *)

\* The type invariant: what the variables hold.
TypeOK ==
    /\ node \in [Nodes -> {"down", "refused", "failed", "aborted", "registered", "up"}]
    /\ conns \in [Agents -> SUBSET (Agents \cup {RootLabel, cfg.name})]
    /\ home \in [Kinds -> Nodes \cup {NoNode}]
    /\ sealed \subseteq Kinds
    /\ walk \in [state: {"idle", "climbing", "answered", "noKey", "noProcessor", "noVault"},
                 key: Kinds \cup {NoKey}, node: Nodes \cup {NoNode}, kind: Kinds \cup {NoKey}]
    /\ faults \in 0 .. MaxFaults

\* A configuration that RootConfig.Validate accepts can be run, whichever binding
\* ParentName's map iteration meets first, except for three defects that no
\* check looks for: the root's own bindings name a provider, to which NewManager
\* has no connection; an agent's provider is "root" and no connection has that
\* name; or an agent has two providers, of which Register hands out one.
AcceptedBoots ==
    /\ node[RootNode] = "failed" =>
          \E k \in DOMAIN cfg.bindings : cfg.bindings[k].parent # NoParent
    /\ \A a \in Agents :
          /\ node[a] = "aborted" => RootLabel \in ParentNames(SegmentOf(a)) \ cfg.connections
          /\ node[a] = "failed" => \E p, q \in ParentNames(SegmentOf(a)) : p # q

\* In a configuration that Validate accepts, the climb to seal a new key's
\* secret meets, at every node, the parent key, a processor for its kind and
\* the parent's secret, wherever AnnounceKey allowed the keys to be placed,
\* except for three defects that no check looks for: two nodes manage a kind,
\* and the key is at the other one; an agent is directly below the root key; a
\* binding has no vault.
Members == {RootNode} \cup NamesOf(cfg.topology)
Shared(kind) == \E m, n \in Members : m # n /\ Manages(m, kind) /\ Manages(n, kind)
HasVault(n, kind) == Bindings(n)[kind].vault

AcceptedServes ==
    /\ walk.state = "noKey" => Shared(walk.kind)
    /\ walk.state = "noProcessor" => RoleOf(H, walk.kind) = "root"
    /\ walk.state = "noVault" =>
          ~ HasVault(walk.node, walk.kind) \/ ~ HasVault(home[walk.key], walk.key)

\* No agent of a configuration the root runs with is called "root": such a
\* segment would hide the root's own in ValidateTopologyAgainstHierarchy's
\* table of providers. Nothing checks the name; every chain of providers has
\* to reach the first kind, and only the root's segment has it.
RootLabelIsTheRoots == node[RootNode] = "up" => ~ InTopology(RootLabel)

\* The provider of an agent's first kind is the root or an agent whose segment
\* starts higher, so the requests of a running configuration never go round
\* in a circle of agents.
ProvidersStartHigher ==
    node[RootNode] = "up" =>
        \A t \in Segments(cfg.topology) :
            LET p == t.bindings[t.segment.start].parent
            IN  InTopology(p) =>
                  IndexOf(H, SegmentOf(p).segment.start) < IndexOf(H, t.segment.start)

\* A key announced to a node gets its secret, whatever processes stop on the
\* way: the climb ends and is tried again until it has succeeded, unless one of
\* the defects above keeps a node from starting or a climb from being served.
Broken ==
    \/ \E n \in Nodes : node[n] \in {"failed", "aborted"}
    \/ walk.state \in {"noKey", "noProcessor", "noVault"}

AnnouncedGetsSealed == \A k \in Kinds : (home[k] # NoNode) ~> (k \in sealed \/ Broken)

=============================================================================
