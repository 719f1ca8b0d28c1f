------------------------------ MODULE Identity ------------------------------
(***************************************************************************)
(* Who may call the root: the kryptonid:// URIs of the auth section, the   *)
(* checks the section passes, and the authenticator built from it.         *)
(*                                                                         *)
(* A URI is its scheme and the parts between the slashes that follow       *)
(* "://".  The parts that matter are the empty one, one with a character   *)
(* that Parse refuses, one that url.URL.String escapes and others.         *)
(***************************************************************************)
EXTENDS Sequences, Integers

CONSTANTS RootName,  \* the name of the root in its configuration
          Segment    \* the names of the topology's segments

Uri(parts) == [scheme |-> "kryptonid", parts |-> parts]
NoUri == [scheme |-> "", parts |-> <<>>]  \* an entry left blank

\* invalidChars: the asterisk and white space; the slash separates parts.
PartValid(p) == p \notin {"", "white space"}

\* Parse takes what follows the domain for pairs of a type and a name. A URI
\* that ends with the slash after its domain has no pairs.
Parses(uri) ==
    /\ uri.scheme = "kryptonid"
    /\ PartValid(uri.parts[1])
    /\ \/ Tail(uri.parts) \in {<<>>, <<"">>}
       \/ /\ Len(Tail(uri.parts)) % 2 = 0
          /\ \A i \in 2 .. Len(uri.parts) : PartValid(uri.parts[i])

\* What String makes of the URI in a certificate.
Escaped(uri) ==
    [uri EXCEPT !.parts = [i \in DOMAIN uri.parts |->
        IF uri.parts[i] = "{}" THEN "%7B%7D" ELSE uri.parts[i]]]

-----------------------------------------------------------------------------
(* The auth section: [type, ids, server, client], where ids is a sequence  *)
(* of [name, uri] and server and client tell whether all paths are given.  *)

NoAuth == [type |-> "none", ids |-> <<>>, server |-> FALSE, client |-> FALSE]

NamesOf(ids) == {ids[i].name : i \in DOMAIN ids}

\* Decoding the section fails in newConfig when its type is unknown.
Decodes(auth) == auth.type = "mtls"

\* Validate of the mtls section: the paths of its server and of its client part.
PathsGiven(auth) == auth.server /\ auth.client

AuthValid(auth) ==
    /\ auth.ids # <<>>
    /\ \A i \in DOMAIN auth.ids : auth.ids[i].name # "" /\ Parses(auth.ids[i].uri)
    /\ PathsGiven(auth)

\* Faulty variant: a name that is missing goes unnoticed.
DistinctNames(ids) == \A i, j \in DOMAIN ids : ids[i].name = ids[j].name => i = j

ValidateAuthIdentities(ids) ==
    /\ \A i, j \in DOMAIN ids : ids[i].name = ids[j].name => i = j
    /\ {RootName} \cup Segment \subseteq NamesOf(ids)

\* The part of RootConfig.Validate that is about callers.
CallersValid(auth) ==
    auth # NoAuth => Decodes(auth) /\ AuthValid(auth) /\ ValidateAuthIdentities(auth.ids)

URIs(auth) == {auth.ids[i].uri : i \in DOMAIN auth.ids}

\* NewAuthenticator.
Allowlist(auth) == URIs(auth) \ {NoUri}

\* UnaryInterceptor: what it answers to a verified certificate with these URIs.
Verdict(auth, uris) ==
    IF auth = NoAuth THEN "ok"
    ELSE IF Len(uris) # 1 THEN "Unauthenticated"
    ELSE IF Escaped(uris[1]) \in Allowlist(auth) THEN "ok"
    ELSE "PermissionDenied"

=============================================================================
