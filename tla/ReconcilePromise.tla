--------------------------- MODULE ReconcilePromise ---------------------------
(***************************************************************************)
(* What reconcile promises of a sample, with no nodes, batches, key caps   *)
(* or second tries in it.  Every row is read once, at some confirmed slot  *)
(* of its own; it is judged by what its account held then, measured from   *)
(* the oldest of those slots, and by the transactions that named it up to  *)
(* some slot from there on, if anybody knows them.  The chain's past is    *)
(* fixed, so what was read need not be kept.                               *)
(***************************************************************************)
EXTENDS Naturals

CONSTANTS NumRows, Values, Absent, MaxSlot, MaxSlotLag

VARIABLES tip, bytes, touched,   \* the accounts on the chain, as in Ledger
          indexed, indexedSlot,  \* the sample
          readAt,                \* readAt[r]: where row r was read, << >> before
          results

sample == <<indexed, indexedSlot>>
vars == <<tip, bytes, touched, sample, readAt, results>>

Rows == 1..NumRows
Slots == 0..MaxSlot
NoSlot == MaxSlot + 1
Bytes == Values \cup {Absent}

Init ==
  /\ tip = 0
  /\ bytes \in [Rows -> [Slots -> Bytes]]
  /\ touched = [r \in Rows |-> {}]
  /\ indexed \in [Rows -> Values] /\ indexedSlot \in [Rows -> Slots \cup {NoSlot}]
  /\ readAt = << >>
  /\ results = [r \in Rows |-> "none"]

\* A slot confirms: what it changes it names, and the past stays as it was.
Confirm ==
  /\ tip' = tip + 1 /\ tip < MaxSlot
  /\ touched' \in [Rows -> SUBSET (1..tip')] /\ bytes' \in [Rows -> [Slots -> Bytes]]
  /\ \A r \in Rows :
        /\ touched'[r] \in {touched[r], touched[r] \cup {tip'}}
        /\ touched'[r] = touched[r] => bytes'[r] = bytes[r]
        /\ \A s \in 0..tip : bytes'[r][s] = bytes[r][s]
  /\ UNCHANGED <<sample, readAt, results>>

Look ==
  /\ readAt = << >> /\ \A r \in Rows : results[r] = "none"
  /\ readAt' \in [Rows -> 0..tip]
  /\ UNCHANGED <<tip, bytes, touched, sample, results>>

\* No account could be read, so no row is judged.
GiveUp ==
  /\ readAt = << >> /\ \A r \in Rows : results[r] = "none"
  /\ results' = [r \in Rows |-> "unreachable"]
  /\ UNCHANGED <<tip, bytes, touched, sample, readAt>>

Oldest(s) == (\E r \in Rows : readAt[r] = s) /\ \A r \in Rows : s <= readAt[r]

\* The last transaction naming row r, up to a slot that is no older than s.
LastTouches(r, s) ==
  {t \in touched[r] :
     \E known \in s..tip : t <= known /\ \A u \in touched[r] : u <= known => u <= t}

ByTouch(r, s) ==
  {IF t <= indexedSlot[r] THEN "untouched since" ELSE "written after" : t \in LastTouches(r, s)}

ByLag(r, s) ==
  CASE s = indexedSlot[r]              -> "no lag"
    [] s > indexedSlot[r] + MaxSlotLag -> "beyond lag"
    [] OTHER                           -> "slot lag"

\* What may be said of row r when the oldest read is of slot s.
Verdicts(r, s) ==
  LET held == bytes[r][readAt[r]] IN
  IF held = Absent THEN {"missing"}
  ELSE IF held = indexed[r] THEN {"pass"}
  ELSE IF indexedSlot[r] = NoSlot THEN {"no slot"}
  ELSE IF s < indexedSlot[r] THEN {"behind index"}
  ELSE ByTouch(r, s) \cup {ByLag(r, s)}

Judge(r) ==
  /\ readAt # << >>
  /\ results[r] = "none" /\ \A q \in Rows : q < r => results[q] # "none"
  /\ \E s \in Slots : Oldest(s) /\ \E v \in Verdicts(r, s) : results' = [results EXCEPT ![r] = v]
  /\ UNCHANGED <<tip, bytes, touched, sample, readAt>>

Next == Confirm \/ Look \/ GiveUp \/ \E r \in Rows : Judge(r)

Spec == Init /\ [][Next]_vars
=============================================================================
