------------------------------- MODULE Program -------------------------------
(***************************************************************************)
(* The program that owns the accounts of Ledger, and finality: it may be   *)
(* redeployed, and a node knows the deploys it has finalized, while it     *)
(* answers for accounts at its last confirmed slot.  Not code of the       *)
(* crate; it is what the calls of upgrade.rs are answered from.            *)
(***************************************************************************)
EXTENDS Ledger

VARIABLES
  upgradeable,   \* it has a ProgramData account
  deploys,       \* the confirmed slots it was deployed at
  rooted         \* rooted[n]: the last slot node n has finalized

programVars == <<upgradeable, deploys, rooted>>

ProgramTypeOK ==
  /\ upgradeable \in BOOLEAN
  /\ deploys \in SUBSET (0..tip)
  /\ rooted \in [Nodes -> Slots] /\ \A n \in Nodes : rooted[n] <= seen[n]

ProgramInit ==
  /\ upgradeable \in BOOLEAN
  /\ deploys = {0}
  /\ rooted = [n \in Nodes |-> 0]

Redeploy ==
  /\ upgradeable
  /\ ConfirmIdle
  /\ deploys' = deploys \cup {tip + 1}
  /\ UNCHANGED <<upgradeable, rooted>>

Root(n) ==
  /\ \E s \in (rooted[n] + 1)..seen[n] : rooted' = [rooted EXCEPT ![n] = s]
  /\ UNCHANGED <<ledgerVars, upgradeable, deploys>>

ProgramNext ==
  \/ LedgerNext /\ UNCHANGED programVars
  \/ Redeploy
  \/ \E n \in Nodes : Root(n)

\* d is the last deploy that node n has finalized.
IsLastDeploy(n, d) == d \in deploys /\ d <= rooted[n] /\ \A e \in deploys : e <= rooted[n] => e <= d
=============================================================================
