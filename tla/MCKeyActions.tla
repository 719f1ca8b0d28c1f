---------------------------- MODULE MCKeyActions ----------------------------
(***************************************************************************)
(* Small instances of KeyActions for TLC.                                  *)
(***************************************************************************)
EXTENDS KeyActionsInv, TLC

CONSTANTS root, mid, leaf

\* A root key and one key below it.
PairParent == root :> NoKey @@ leaf :> root

\* A root key, a key under it and a key under that one.
ChainParent == root :> NoKey @@ mid :> root @@ leaf :> mid

Symmetric == Permutations(GroupId)
=============================================================================
