---------------------------- MODULE KeyLifecycle ----------------------------
(***************************************************************************)
(* The life cycle states of a key and the processing states of the work    *)
(* done on it, with the transition and usage tables of                     *)
(* internal/keylifecycle and the four key actions of the orchestrator.     *)
(***************************************************************************)

LifeCycle == {"pre-activation", "active", "suspended",
              "deactivated", "compromised", "destroyed"}

Status == {"pending", "in-progress", "completed", "failed"}

\* The action types a job group can have, and the state each one drives to.
Actions == {"announce-key", "activate-key", "suspend-key", "deactivate-key"}

toState == [a \in Actions |-> IF a = "announce-key" THEN "pre-activation"
                              ELSE IF a = "activate-key" THEN "active"
                              ELSE IF a = "suspend-key" THEN "suspended"
                              ELSE "deactivated"]

\* The transition table (NIST SP 800-57).
transitions ==
  {<<"pre-activation", "destroyed">>, <<"pre-activation", "active">>,
   <<"pre-activation", "compromised">>,
   <<"active", "destroyed">>, <<"active", "deactivated">>,
   <<"active", "suspended">>, <<"active", "compromised">>,
   <<"suspended", "destroyed">>, <<"suspended", "deactivated">>,
   <<"suspended", "compromised">>, <<"suspended", "active">>,
   <<"deactivated", "destroyed">>, <<"deactivated", "compromised">>,
   <<"compromised", "destroyed">>}

ValidateTransition(from, to) == <<from, to>> \in transitions

\* The operations a key permits in each state.
stateUsages ==
  {<<"pre-activation", "link">>}
    \cup {"active"} \X {"encrypt", "decrypt", "unwrap", "wrap", "rotate"}
    \cup {"suspended", "deactivated", "compromised"} \X {"decrypt", "unwrap"}

ValidateKeyUsage(s, op) == <<s, op>> \in stateUsages

-----------------------------------------------------------------------------
(* A row of the keys table: what the properties tell apart is whether the   *)
(* row exists and its two states.                                           *)

NoRow == [lc |-> "none", st |-> "none"]
Row(lc, st) == [lc |-> lc, st |-> st]
KeyRow == [lc : LifeCycle, st : Status]

=============================================================================
