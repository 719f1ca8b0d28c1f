------------------------------ MODULE MCServing -----------------------------
(***************************************************************************)
(* A small instance of Serving for TLC: a root key, a key under it and a   *)
(* key under that one; a topology of the root and one agent.               *)
(***************************************************************************)
EXTENDS Serving, TLC

CONSTANTS root, mid, leaf, t1, t2

ChainParent == root :> NoKey @@ mid :> root @@ leaf :> mid
OneTenant == root :> t1 @@ mid :> t1 @@ leaf :> t1
BoundKeys == {mid, leaf}
Agents == {"agent"}

MCCalls == {<<"suspend-key", root, FALSE>>, <<"suspend-key", mid, FALSE>>, <<"suspend-key", mid, TRUE>>,
            <<"activate-key", root, FALSE>>, <<"activate-key", mid, TRUE>>,
            <<"deactivate-key", leaf, FALSE>>, <<"deactivate-key", root, TRUE>>}

-----------------------------------------------------------------------------
RootUri == Uri(<<"domain", "role", "root">>)
AgentUri == Uri(<<"domain", "role", "agent">>)
OddUri == Uri(<<"domain", "role", "{}">>)
AdminUri == Uri(<<"domain">>)

Id(name, uri) == [name |-> name, uri |-> uri]
Mtls(ids) == [type |-> "mtls", ids |-> ids, server |-> TRUE, client |-> TRUE]

Both == <<Id("root", RootUri), Id("agent", AgentUri)>>

\* The first two and that with "set" are accepted.
MCConfigs ==
    {[auth |-> Mtls(Append(Both, Id("admin", AdminUri))), kmip |-> "none"],
     [auth |-> Mtls(<<Id("root", RootUri), Id("agent", OddUri)>>), kmip |-> "none"],
     [auth |-> Mtls(<<Id("root", RootUri)>>), kmip |-> "none"],
     [auth |-> Mtls(<<Id("root", RootUri), Id("root", AgentUri), Id("agent", AgentUri)>>), kmip |-> "none"],
     [auth |-> Mtls(<<Id("root", RootUri), Id("agent", Uri(<<"domain", "role">>))>>), kmip |-> "none"],
     [auth |-> [Mtls(Both) EXCEPT !.client = FALSE], kmip |-> "none"]}
      \cup {[auth |-> NoAuth, kmip |-> x] : x \in {"set", "invalid"}}

-----------------------------------------------------------------------------
GrpcAsk(kind, k, version, uris) ==
    [kind |-> kind, key |-> k, tenant |-> t1, version |-> version, wellFormed |-> TRUE, uris |-> uris, cn |-> t1]

KmipAsk(kind, k, version, cn) ==
    [kind |-> kind, key |-> k, tenant |-> t1, version |-> version, wellFormed |-> TRUE, uris |-> <<>>, cn |-> cn]

MCAsks ==
    {GrpcAsk("seal", mid, 1, <<AgentUri>>), GrpcAsk("unseal", leaf, 1, <<RootUri>>),
     GrpcAsk("unseal", root, 1, <<RootUri>>), GrpcAsk("seal", mid, 0, <<RootUri>>),
     GrpcAsk("seal", leaf, 1, <<RootUri, AgentUri>>),
     KmipAsk("get", leaf, 0, t1), KmipAsk("get", leaf, 1, t2), KmipAsk("get", leaf, -1, t1),
     [KmipAsk("get", leaf, 1, t1) EXCEPT !.wellFormed = FALSE],
     KmipAsk("attributes", leaf, 1, t1), KmipAsk("other", leaf, 1, t1)}

=============================================================================
