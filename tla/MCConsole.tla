----------------------------- MODULE MCConsole -----------------------------
(* Two processes and two tenants: the documents of the state file have two *)
(* lengths, and so have the tokens; the name of the second tenant takes two *)
(* lines, of which one is visible at a time.                                *)
EXTENDS Console, TLC

MCTenantId == {"t1", "t2"}
MCLines == [t \in MCTenantId |-> IF t = "t2" THEN 2 ELSE 1]
MCSize == [d \in MCTenantId \cup {"mtls", "no-auth"} |-> IF d \in {"t1", "no-auth"} THEN 1 ELSE 2]

=============================================================================
