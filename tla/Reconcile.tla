------------------------------ MODULE Reconcile ------------------------------
(***************************************************************************)
(* reconcile over RpcAccountFetcher: sampled index rows against the chain. *)
(*                                                                         *)
(* First get_multiple_accounts reads every row's account, in batches of at *)
(* most batchLimit keys, each batch answered by any node at its own slot,  *)
(* starting over when a node names a lower cap.  Then the rows are judged  *)
(* in order; a row that differs costs a last_touch_slot call.  The chain   *)
(* moves on between any two calls.                                         *)
(***************************************************************************)
EXTENDS Ledger, Sequences

CONSTANTS MaxKeys,      \* MAX_GET_MULTIPLE_ACCOUNTS_KEYS
          KeyCap,       \* KeyCap[n]: the most keys node n accepts in a call
          MaxSlotLag    \* max_slot_lag

ASSUME ReconcileAssumption ==
  /\ MaxKeys \in Nat \ {0}
  /\ KeyCap \in [Nodes -> Nat \ {0}]
  /\ MaxSlotLag \in Nat

\* Option::None for a slot.
NoSlot == MaxSlot + 1

Lower(a, b) == IF a <= b THEN a ELSE b

VARIABLES
  indexed,       \* indexed[r]: the bytes the index holds
  indexedSlot,   \* indexedSlot[r]: the slot it wrote them at, or NoSlot
  phase,         \* "fetch", "judge" or "done"
  batchLimit,    \* RpcAccountFetcher.batch_limit
  contextSlot,   \* the oldest batch slot so far, NoSlot before any
  accounts,      \* the accounts read so far, with the slot each was read at
  row,           \* the row to judge next
  results,       \* results[r]: "none" until row r is judged
  callFailed     \* history: a call failed and named no lower cap

sample == <<indexed, indexedSlot>>
fetchVars == <<batchLimit, contextSlot, accounts>>
vars == <<ledgerVars, sample, phase, fetchVars, row, results, callFailed>>

Fails == {"missing", "no slot", "untouched since", "no lag", "beyond lag"}
Skips == {"behind index", "written after", "slot lag", "unreachable"}
Results == {"none", "pass"} \cup Fails \cup Skips

Account == [data : Bytes, slot : Slots]

TypeOK ==
  /\ LedgerTypeOK
  /\ indexed \in [Rows -> Values]
  /\ indexedSlot \in [Rows -> Slots \cup {NoSlot}]
  /\ phase \in {"fetch", "judge", "done"}
  /\ batchLimit \in 1..MaxKeys
  /\ contextSlot \in Slots \cup {NoSlot}
  /\ accounts \in Seq(Account) /\ Len(accounts) <= NumRows
  /\ row \in 1..(NumRows + 1)
  /\ results \in [Rows -> Results]
  /\ callFailed \in BOOLEAN

Init ==
  /\ LedgerInit
  /\ indexed \in [Rows -> Values]
  /\ indexedSlot \in [Rows -> Slots \cup {NoSlot}]
  /\ phase = "fetch"
  /\ batchLimit = MaxKeys
  /\ contextSlot = NoSlot /\ accounts = << >>
  /\ row = 1
  /\ results = [r \in Rows |-> "none"]
  /\ callFailed = FALSE
-----------------------------------------------------------------------------
(* get_multiple_accounts                                                   *)

\* Keys in the next batch.
BatchSize == Lower(batchLimit, NumRows - Len(accounts))

\* Slip: the newest batch slot is reported instead of the oldest.
FetchBatchNewest(n) ==
  /\ phase = "fetch"
  /\ BatchSize <= KeyCap[n]
  /\ accounts' = accounts \o [i \in 1..BatchSize |->
       [data |-> bytes[Len(accounts) + i][seen[n]], slot |-> seen[n]]]
  /\ contextSlot' = IF contextSlot = NoSlot \/ contextSlot < seen[n] THEN seen[n] ELSE contextSlot
  /\ phase' = IF Len(accounts) + BatchSize = NumRows THEN "judge" ELSE "fetch"
  /\ UNCHANGED <<ledgerVars, sample, batchLimit, row, results, callFailed>>

\* Slip: every batch asks for the first keys again.
FetchBatchFromFirst(n) ==
  /\ phase = "fetch"
  /\ BatchSize <= KeyCap[n]
  /\ accounts' = accounts \o [i \in 1..BatchSize |-> [data |-> bytes[i][seen[n]], slot |-> seen[n]]]
  /\ contextSlot' = Lower(contextSlot, seen[n])
  /\ phase' = IF Len(accounts) + BatchSize = NumRows THEN "judge" ELSE "fetch"
  /\ UNCHANGED <<ledgerVars, sample, batchLimit, row, results, callFailed>>

FetchBatch(n) ==
  LET read == [i \in 1..BatchSize |->
                 [data |-> bytes[Len(accounts) + i][seen[n]], slot |-> seen[n]]]
  IN
  /\ phase = "fetch"
  /\ BatchSize <= KeyCap[n]
  /\ accounts' = accounts \o read
  /\ contextSlot' = Lower(contextSlot, seen[n])
  /\ phase' = IF Len(accounts) + BatchSize = NumRows THEN "judge" ELSE "fetch"
  /\ UNCHANGED <<ledgerVars, sample, batchLimit, row, results, callFailed>>

Unreachable ==
  /\ phase' = "done"
  /\ results' = [r \in Rows |-> "unreachable"]
  /\ UNCHANGED <<ledgerVars, sample, fetchVars, row>>

\* Slip: a cap that is not lower starts the fetch over as well.
StartOverSame(named) ==
  /\ named <= batchLimit
  /\ batchLimit' = named
  /\ accounts' = << >> /\ contextSlot' = NoSlot
  /\ UNCHANGED <<ledgerVars, sample, phase, row, results>>

\* Slip: one key below the cap that was named.
StartOverBelow(named) ==
  /\ named < batchLimit
  /\ batchLimit' = named - 1
  /\ accounts' = << >> /\ contextSlot' = NoSlot
  /\ UNCHANGED <<ledgerVars, sample, phase, row, results>>

\* Slip: the context slot of the first try is kept.
StartOverKeepsSlot(named) ==
  /\ named < batchLimit
  /\ batchLimit' = named
  /\ accounts' = << >>
  /\ UNCHANGED <<ledgerVars, sample, contextSlot, phase, row, results>>

\* An error names a key cap below the limit in use: remember it and redo the
\* whole fetch in batches of that many.
StartOver(named) ==
  /\ named < batchLimit
  /\ batchLimit' = named
  /\ accounts' = << >> /\ contextSlot' = NoSlot
  /\ UNCHANGED <<ledgerVars, sample, phase, row, results>>

\* Slip: a key cap is an error like any other.
BatchTooLongFails(n) ==
  /\ phase = "fetch"
  /\ KeyCap[n] < BatchSize
  /\ Unreachable
  /\ UNCHANGED callFailed

BatchTooLong(n) ==
  /\ phase = "fetch"
  /\ KeyCap[n] < BatchSize
  /\ StartOver(KeyCap[n])
  /\ UNCHANGED callFailed

\* reported_key_limit reads any "maximum of <n>", a rate limit's too.
CapMisread ==
  /\ phase = "fetch"
  /\ \E named \in 1..MaxKeys : StartOver(named)
  /\ UNCHANGED callFailed

\* Slip: a reply is taken as it is.  When that of a sample of one batch has no
\* entries, zip has no row to judge.
WrongLengthTaken(n) ==
  /\ phase = "fetch" /\ BatchSize <= KeyCap[n]
  /\ BatchSize = NumRows
  /\ contextSlot' = seen[n] /\ phase' = "done"
  /\ UNCHANGED <<ledgerVars, sample, batchLimit, accounts, row, results, callFailed>>

\* ensure!: a reply with an entry too few or too many is as good as none.
WrongLength(n) ==
  /\ phase = "fetch" /\ BatchSize <= KeyCap[n]
  /\ callFailed' = TRUE
  /\ Unreachable

\* A call is refused or unanswered, or its reply does not parse.
FetchFails ==
  /\ phase = "fetch"
  /\ callFailed' = TRUE
  /\ Unreachable
-----------------------------------------------------------------------------
(* reconcile_one, row by row                                               *)

Give(r, result) ==
  /\ results' = [results EXCEPT ![r] = result]
  /\ row' = r + 1
  /\ phase' = IF r = NumRows THEN "done" ELSE "judge"
  /\ UNCHANGED <<ledgerVars, sample, fetchVars, callFailed>>

OnChain(r) == accounts[r].data

\* What the two byte strings and the slots alone decide, "none" when they
\* do not: the order is the code's.
Local(r) ==
  IF OnChain(r) = Absent THEN "missing"
  ELSE IF indexed[r] = OnChain(r) THEN "pass"
  ELSE IF indexedSlot[r] = NoSlot THEN "no slot"
  ELSE IF contextSlot < indexedSlot[r] THEN "behind index"
  ELSE "none"

JudgeLocally ==
  /\ phase = "judge"
  /\ Local(row) # "none"
  /\ Give(row, Local(row))

\* Slip: the lookup goes out without minContextSlot.
LastTouchFromAnyNode(n) ==
  /\ phase = "judge"
  /\ Local(row) = "none"
  /\ \E lastTouch \in touched[row] :
        /\ IsLastTouch(n, row, lastTouch)
        /\ Give(row, IF lastTouch <= indexedSlot[row] THEN "untouched since" ELSE "written after")

\* Slip: a touch at the indexed slot itself counts as later.
LastTouchAtSlot(n) ==
  /\ phase = "judge"
  /\ Local(row) = "none"
  /\ contextSlot <= seen[n]
  /\ \E lastTouch \in touched[row] :
        /\ IsLastTouch(n, row, lastTouch)
        /\ Give(row, IF lastTouch < indexedSlot[row] THEN "untouched since" ELSE "written after")

\* minContextSlot: only a node as far as the context slot answers.
LastTouchKnown(n) ==
  /\ phase = "judge"
  /\ Local(row) = "none"
  /\ contextSlot <= seen[n]
  /\ \E lastTouch \in touched[row] :
        /\ IsLastTouch(n, row, lastTouch)
        /\ Give(row, IF lastTouch <= indexedSlot[row] THEN "untouched since" ELSE "written after")

\* No history for the key, a node behind the context slot, or a failed call:
\* the slot-lag rule.
LastTouchUnknown ==
  /\ phase = "judge"
  /\ Local(row) = "none"
  /\ LET delta == contextSlot - indexedSlot[row] IN
     Give(row, IF delta = 0 THEN "no lag"
               ELSE IF delta > MaxSlotLag THEN "beyond lag" ELSE "slot lag")

Check ==
  \/ \E n \in Nodes : FetchBatch(n) \/ WrongLength(n) \/ BatchTooLong(n) \/ LastTouchKnown(n)
  \/ CapMisread \/ FetchFails \/ JudgeLocally \/ LastTouchUnknown

LedgerStep ==
  LedgerNext /\ UNCHANGED <<sample, phase, fetchVars, row, results, callFailed>>

Next == Check \/ LedgerStep

Spec == Init /\ [][Next]_vars

\* What the process does by itself or upon an answer.  LastTouchUnknown is the
\* answer of a node with no history or behind the context slot.
Progress ==
  \/ \E n \in Nodes : FetchBatch(n) \/ BatchTooLong(n) \/ LastTouchKnown(n)
  \/ JudgeLocally \/ LastTouchUnknown

\* The process runs on and every call is answered in the end.  It may fail
\* instead, but the check does not need that to end.
FairSpec == Spec /\ WF_vars(Progress)
-----------------------------------------------------------------------------
Judged(r) == results[r] \notin {"none", "unreachable"}

\* The index holds something else than the chain held at the row's own slot.
Corrupt(r) == indexed[r] # bytes[r][indexedSlot[r]]

(* A Fail for a row that was read at the merged context slot means what it *)
(* says: nothing touched the account since the index wrote it, and still   *)
(* the bytes differ, so the row was wrong from the start.  minContextSlot  *)
(* is what makes it so, however many nodes answer.                         *)
FailAtContextIsCorrupt ==
  \A r \in Rows :
    /\ results[r] \in {"untouched since", "no lag"}
    /\ accounts[r].slot = contextSlot
    => Corrupt(r)

(* What fetch.rs and the README say of the same Fails, with no such        *)
(* condition: an account that was written later is skipped, never failed.  *)
FailIsCorrupt ==
  \A r \in Rows : results[r] = "untouched since" => Corrupt(r)

(* What the README says: a chain read older than the indexed slot is       *)
(* Skipped with "rpc behind index", never Fail.  Asked here only of rows   *)
(* that are right.                                                         *)
OlderReadNeverFails ==
  \A r \in Rows :
    /\ results[r] \in Fails
    /\ indexedSlot[r] <= tip /\ ~Corrupt(r)
    => indexedSlot[r] <= accounts[r].slot

(* Across batches, and across a fetch that starts over, each answer keeps  *)
(* its row and its slot: a Pass means the account was read with exactly    *)
(* these bytes at the slot recorded for it; and the merged slot is that of *)
(* some row, with no row read before it, so that "rpc behind index" and    *)
(* the lag are never measured from a slot no batch was read at.            *)
ReadsKeepTheirPlace ==
  /\ \A r \in Rows : results[r] = "pass" => indexed[r] = bytes[r][accounts[r].slot]
  /\ phase = "judge" =>
       /\ \E r \in Rows : accounts[r].slot = contextSlot
       /\ \A r \in Rows : contextSlot <= accounts[r].slot

(* A wrong row is not excused: if no transaction has named the account     *)
(* since the indexed slot, and the chain was read from there on, the row   *)
(* neither passes nor is skipped as written after it.                      *)
CorruptIsNotExcused ==
  \A r \in Rows :
    /\ Judged(r) /\ indexedSlot[r] # NoSlot
    /\ Corrupt(r)
    /\ indexedSlot[r] <= accounts[r].slot
    /\ \A s \in touched[r] : s <= indexedSlot[r]
    => results[r] \notin {"pass", "written after"}

(* An endpoint's key cap alone never costs the check: only a call whose    *)
(* error names no lower cap makes the fetch unreachable.                   *)
CapAloneNeverFails ==
  (\E r \in Rows : results[r] = "unreachable") => callFailed

\* Keys to read and rows to judge, if the limit in use is not lowered.
ToDo == (NumRows - Len(accounts)) + (IF phase = "done" THEN 0 ELSE (NumRows + 1) - row)

(* Every step of the check, failed calls included, leaves fewer keys and   *)
(* rows to do or lowers the key limit, which is never raised again and     *)
(* never reaches 0: "Strictly lower, so this ends".  With each call        *)
(* answered, no pool of nodes and no error text can keep a check going.    *)
EveryCallCounts ==
  [][Check => \/ batchLimit' < batchLimit
              \/ batchLimit' = batchLimit /\ ToDo' < ToDo]_vars

(* The batches, the restarts and the nodes do not show: a check is one     *)
(* look at each row, judged in order.  It implements ReconcilePromise.     *)
ReadAt == IF Len(accounts) = NumRows THEN [r \in Rows |-> accounts[r].slot] ELSE << >>

Promise == INSTANCE ReconcilePromise WITH readAt <- ReadAt

OneLookARow == Promise!Spec

(* Every check ends with a result for each row.                            *)
ReconcileEnds == <>(phase = "done" /\ \A r \in Rows : results[r] # "none")
=============================================================================
