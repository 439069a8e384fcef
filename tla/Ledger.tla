------------------------------- MODULE Ledger -------------------------------
(***************************************************************************)
(* Accounts on the chain as reconciliation meets them through an RPC       *)
(* endpoint: what each account holds after every confirmed slot, which     *)
(* slots have a transaction that names it, and how far each node behind    *)
(* the endpoint has come.  External to the crate.  Confirmed slots are     *)
(* taken not to be rolled back.                                            *)
(***************************************************************************)
EXTENDS Naturals

CONSTANTS Nodes,      \* the nodes one RPC URL may route a call to
          NumRows,    \* accounts are 1..NumRows, in the order of the sample
          Values,     \* what an account may hold
          Absent,     \* an account that does not exist
          MaxSlot     \* bound: the last slot the modelled chain confirms

ASSUME LedgerAssumption ==
  /\ NumRows \in Nat \ {0}
  /\ MaxSlot \in Nat
  /\ Absent \notin Values

Rows == 1..NumRows
Bytes == Values \cup {Absent}
Slots == 0..MaxSlot

VARIABLES tip,       \* the last confirmed slot
          bytes,     \* bytes[r][s]: what account r holds after slot s
          touched,   \* touched[r]: slots with a transaction naming account r
          seen       \* seen[n]: the last slot node n has confirmed

ledgerVars == <<tip, bytes, touched, seen>>

LedgerTypeOK ==
  /\ tip \in Slots
  /\ bytes \in [Rows -> [Slots -> Bytes]]
  /\ touched \in [Rows -> SUBSET (1..tip)]
  /\ seen \in [Nodes -> 0..tip]

LedgerInit ==
  /\ tip = 0
  /\ \E first \in [Rows -> Bytes] : bytes = [r \in Rows |-> [s \in Slots |-> first[r]]]
  /\ touched = [r \in Rows |-> {}]
  /\ seen = [n \in Nodes |-> 0]

\* The next slot confirms with nothing in it for the sampled accounts.
ConfirmIdle ==
  /\ tip < MaxSlot
  /\ tip' = tip + 1
  /\ UNCHANGED <<bytes, touched, seen>>

\* The next slot confirms a transaction naming account r: a write, a close, or
\* a read-only or failed one that leaves the bytes as they were.
ConfirmTouch(r) ==
  /\ tip < MaxSlot
  /\ tip' = tip + 1
  /\ touched' = [touched EXCEPT ![r] = @ \cup {tip + 1}]
  /\ \E v \in Bytes :
        bytes' = [bytes EXCEPT ![r] = [s \in Slots |-> IF s <= tip THEN @[s] ELSE v]]
  /\ UNCHANGED seen

CatchUp(n) ==
  /\ \E s \in (seen[n] + 1)..tip : seen' = [seen EXCEPT ![n] = s]
  /\ UNCHANGED <<tip, bytes, touched>>

LedgerNext ==
  \/ ConfirmIdle
  \/ \E r \in Rows : ConfirmTouch(r)
  \/ \E n \in Nodes : CatchUp(n)

\* Slot s is the last that node n knows to name account r.
IsLastTouch(n, r, s) ==
  /\ s \in touched[r] /\ s <= seen[n]
  /\ \A t \in touched[r] : t <= seen[n] => t <= s
=============================================================================
