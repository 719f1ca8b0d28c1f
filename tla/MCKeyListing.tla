---------------------------- MODULE MCKeyListing ----------------------------
(***************************************************************************)
(* KeyListing with three keys of one tenant and one of another, pages of   *)
(* one and two keys, and a clock of two values, so that created_at ties.   *)
(***************************************************************************)
EXTENDS KeyListing

MCKey == 1 .. 4
MCTenantOf == [k \in MCKey |-> IF k = 2 THEN "other" ELSE "own"]
MCLimits == {0, 1}

=============================================================================
