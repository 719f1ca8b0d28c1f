----------------------------- MODULE KeyLedger ------------------------------
(***************************************************************************)
(* What the admin key API promises about the ledger of keys, without jobs, *)
(* handlers, agents or transactions.                                       *)
(*                                                                         *)
(* A call moves a set of keys at once to its target state, pending.  From  *)
(* then on the life cycle state stays and only the processing status       *)
(* advances.  The state in which a key serves (that of its version where   *)
(* the key is managed) changes only while the key is not settled, and a    *)
(* key settles only when it serves in the state the ledger shows.          *)
(***************************************************************************)
EXTENDS KeyLifecycle

CONSTANT Key

VARIABLES rows,   \* the ledger
          serves  \* the state the key's version is in where it is managed

LedgerSettled(k) == rows[k].st = "completed" /\ rows[k].lc # "pre-activation"

LedgerInit ==
  /\ rows \in [Key -> {NoRow, Row("pre-activation", "completed")}]
  /\ serves \in [Key -> {"none", "active"}]

\* A call: an announcement, or one of the actions.
Request ==
  \E a \in Actions, S \in SUBSET Key :
    /\ rows' = [k \in Key |-> IF k \in S THEN Row(toState[a], "pending")
                                         ELSE rows[k]]
    /\ UNCHANGED serves

\* Work on a set of keys begins.
Claim ==
  \E S \in SUBSET {k \in Key : rows[k].st = "pending"} :
    /\ rows' = [k \in Key |-> IF k \in S THEN Row(rows[k].lc, "in-progress")
                                         ELSE rows[k]]
    /\ UNCHANGED serves

Serve(k) ==
  /\ ~LedgerSettled(k)
  /\ \E s \in LifeCycle : serves' = [serves EXCEPT ![k] = s]
  /\ UNCHANGED rows

\* The end of the work on a key, which may be the moment its version appears
\* in the state the ledger shows.
Settle(k) ==
  /\ rows[k].st \in {"pending", "in-progress"}
  /\ \E st \in {"completed", "failed"} : rows' = [rows EXCEPT ![k] = Row(rows[k].lc, st)]
  /\ serves' \in {serves, [serves EXCEPT ![k] = rows[k].lc]}
  /\ rows'[k].st = "completed" /\ rows'[k].lc # "pre-activation"
       => serves'[k] = rows'[k].lc

LedgerNext == Request \/ Claim \/ \E k \in Key : Serve(k) \/ Settle(k)

LedgerSpec == LedgerInit /\ [][LedgerNext]_<<rows, serves>>
=============================================================================
