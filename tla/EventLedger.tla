----------------------------- MODULE EventLedger -----------------------------
(***************************************************************************)
(* What the recorder promises an auditor: for every chain, a sequence of   *)
(* events to which new ones are only ever added at the end.  README.md of  *)
(* the repository calls it a "tamper-evident flight recorder" whose events *)
(* are "hash-chained to the previous one within its session".              *)
(***************************************************************************)
EXTENDS Sequences

CONSTANTS Chains,      \* one chain per (org_id, session_id)
          Events       \* what an event row can say

VARIABLE ledger

Init == ledger = [c \in Chains |-> << >>]

Record(c, e) == ledger' = [ledger EXCEPT ![c] = Append(@, e)]

Next == \E c \in Chains, e \in Events : Record(c, e)

Spec == Init /\ [][Next]_ledger
==============================================================================
