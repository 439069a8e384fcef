--------------------------- MODULE ReconcileProofs ---------------------------
(***************************************************************************)
(* reconcile for every sample, pool of nodes, key cap and history: what a  *)
(* row's result is worth, whichever nodes answered and however often the   *)
(* fetch started over.                                                     *)
(***************************************************************************)
EXTENDS Reconcile, SequenceTheorems, TLAPS

\* Only a transaction naming an account changes what it holds.
History ==
  \A r \in Rows : \A s, t \in Slots :
    s <= t /\ (\A u \in touched[r] : u <= s \/ t < u) => bytes[r][s] = bytes[r][t]

\* What was read is what the row's account held at the slot recorded for it.
Reads ==
  /\ \A r \in 1..Len(accounts) :
       /\ accounts[r].slot <= tip
       /\ accounts[r].data = bytes[r][accounts[r].slot]
       /\ contextSlot <= accounts[r].slot
  /\ accounts = << >> => contextSlot = NoSlot
  /\ accounts # << >> => \E r \in 1..Len(accounts) : accounts[r].slot = contextSlot

Control ==
  /\ phase = "fetch" => Len(accounts) < NumRows /\ row = 1
  /\ phase = "judge" => Len(accounts) = NumRows /\ row \in Rows
  /\ \A r \in Rows : Judged(r) => Len(accounts) = NumRows
  /\ phase # "done" => \A r \in Rows : results[r] # "unreachable"

\* A result against the chain up to now, in a form no later slot disturbs.
Sound(r) ==
  /\ results[r] \in {"untouched since", "no lag"} =>
       /\ indexedSlot[r] <= contextSlot
       /\ accounts[r].slot = contextSlot => Corrupt(r)
  /\ results[r] = "pass" => indexed[r] = accounts[r].data
  /\ results[r] = "written after" => \E s \in touched[r] : s > indexedSlot[r]

IInv ==
  /\ TypeOK /\ History /\ Reads /\ Control
  /\ \A r \in Rows : Sound(r)
  /\ CapAloneNeverFails

USE DEF Rows, Slots

(* The first slot has no history to contradict, and nothing is read.       *)
LEMMA InitIInv == Init => IInv
<1> SUFFICES ASSUME Init PROVE IInv
  OBVIOUS
<1> USE LedgerAssumption, ReconcileAssumption
<1>1. PICK first \in [Rows -> Bytes] : bytes = [r \in Rows |-> [s \in Slots |-> first[r]]]
  BY DEF Init, LedgerInit
<1>2. TypeOK
  <2>1. LedgerTypeOK
    BY <1>1 DEF Init, LedgerInit, LedgerTypeOK
  <2>2. contextSlot \in Slots \cup {NoSlot} /\ accounts \in Seq(Account) /\ Len(accounts) <= NumRows
    BY DEF Init, NoSlot
  <2>3. results \in [Rows -> Results]
    BY DEF Init, Results
  <2>4. row \in 1..(NumRows + 1) /\ batchLimit \in 1..MaxKeys /\ callFailed \in BOOLEAN
    <3>1. row = 1 /\ batchLimit = MaxKeys
      BY DEF Init
    <3>2. callFailed \in BOOLEAN
      BY Zenon DEF Init
    <3> QED
      BY <3>1, <3>2
  <2>5. indexed \in [Rows -> Values] /\ indexedSlot \in [Rows -> Slots \cup {NoSlot}]
    BY DEF Init
  <2>6. phase \in {"fetch", "judge", "done"}
    BY DEF Init
  <2> QED
    BY <2>1, <2>2, <2>3, <2>4, <2>5, <2>6 DEF TypeOK
<1>3. History
  BY <1>1 DEF History
<1>4. Reads
  BY DEF Init, Reads
<1>5. Control
  BY DEF Init, Control, Judged
<1>6. (\A r \in Rows : Sound(r)) /\ CapAloneNeverFails
  BY DEF Init, Sound, CapAloneNeverFails
<1> QED
  BY <1>2, <1>3, <1>4, <1>5, <1>6 DEF IInv

(* The chain's next slot changes no account at a slot already confirmed,   *)
(* and changes one at all only by a transaction that names it.             *)
LEMMA LedgerGrows ==
  ASSUME TypeOK, History, LedgerNext
  PROVE  /\ LedgerTypeOK' /\ History' /\ tip <= tip'
         /\ \A r \in Rows : touched[r] \subseteq touched'[r]
         /\ \A r \in Rows, s \in Slots : s <= tip => bytes'[r][s] = bytes[r][s]
<1> USE LedgerAssumption DEF LedgerTypeOK
<1>0. /\ tip \in Nat /\ MaxSlot \in Nat /\ tip <= MaxSlot
      /\ \A r \in Rows : \A s \in touched[r] : s \in Nat /\ s <= tip
  BY DEF TypeOK
<1>1. CASE ConfirmIdle
  BY <1>0, <1>1 DEF ConfirmIdle, TypeOK, History
<1>2. ASSUME NEW r \in Rows, ConfirmTouch(r)
      PROVE  /\ LedgerTypeOK' /\ History' /\ tip <= tip'
             /\ \A q \in Rows : touched[q] \subseteq touched'[q]
             /\ \A q \in Rows, s \in Slots : s <= tip => bytes'[q][s] = bytes[q][s]
  <2>1. PICK v \in Bytes :
          bytes' = [bytes EXCEPT ![r] = [s \in Slots |-> IF s <= tip THEN @[s] ELSE v]]
    BY <1>2 DEF ConfirmTouch
  <2>2. /\ tip' = tip + 1 /\ tip' \in Slots /\ seen' = seen
        /\ touched' = [touched EXCEPT ![r] = @ \cup {tip + 1}]
    BY <1>0, <1>2 DEF ConfirmTouch
  <2>3. /\ \A q \in Rows : q # r => bytes'[q] = bytes[q] /\ touched'[q] = touched[q]
        /\ \A s \in Slots : bytes'[r][s] = IF s <= tip THEN bytes[r][s] ELSE v
        /\ touched'[r] = touched[r] \cup {tip + 1}
    BY <2>1, <2>2 DEF TypeOK
  <2>4. LedgerTypeOK'
    <3>1. bytes' \in [Rows -> [Slots -> Bytes]]
      BY <2>1 DEF TypeOK
    <3>2. touched' \in [Rows -> SUBSET (1..tip')]
      BY <1>0, <2>2 DEF TypeOK
    <3>3. seen' \in [Nodes -> 0..tip']
      BY <1>0, <2>2 DEF TypeOK
    <3> QED
      BY <2>2, <3>1, <3>2, <3>3
  <2>5. History'
    <3> SUFFICES ASSUME NEW q \in Rows, NEW s \in Slots, NEW t \in Slots, s <= t,
                        \A u \in touched'[q] : u <= s \/ t < u
                 PROVE  bytes'[q][s] = bytes'[q][t]
      BY DEF History
    <3>1. CASE q # r
      BY <2>3, <3>1 DEF History
    <3>2. CASE q = r
      <4>1. tip + 1 <= s \/ t < tip + 1
        BY <2>3, <3>2
      <4>2. CASE tip + 1 <= s
        BY <1>0, <2>3, <3>2, <4>2
      <4>3. CASE t < tip + 1
        BY <1>0, <2>3, <3>2, <4>3 DEF History
      <4> QED
        BY <4>1, <4>2, <4>3
    <3> QED
      BY <3>1, <3>2
  <2>6. \A q \in Rows : touched[q] \subseteq touched'[q]
    BY <2>3
  <2>7. \A q \in Rows, s \in Slots : s <= tip => bytes'[q][s] = bytes[q][s]
    BY <2>3
  <2>8. tip <= tip'
    BY <1>0, <2>2
  <2> QED
    BY <2>4, <2>5, <2>6, <2>7, <2>8
<1>3. ASSUME NEW n \in Nodes, CatchUp(n)
      PROVE  /\ LedgerTypeOK' /\ History' /\ tip <= tip'
             /\ \A q \in Rows : touched[q] \subseteq touched'[q]
             /\ \A q \in Rows, s \in Slots : s <= tip => bytes'[q][s] = bytes[q][s]
  <2>1. PICK s \in (seen[n] + 1)..tip : seen' = [seen EXCEPT ![n] = s]
    BY <1>3 DEF CatchUp
  <2>2. UNCHANGED <<tip, bytes, touched>>
    BY <1>3 DEF CatchUp
  <2>3. seen[n] \in 0..tip
    BY DEF TypeOK
  <2>4. s \in 0..tip
    BY <1>0, <2>1, <2>3
  <2>5. LedgerTypeOK'
    <3>1. seen' \in [Nodes -> 0..tip]
      BY <2>1, <2>4 DEF TypeOK
    <3> QED
      BY <2>2, <3>1 DEF TypeOK
  <2>6. History'
    BY <2>2 DEF History
  <2> QED
    BY <1>0, <2>2, <2>5, <2>6
<1> QED
  BY <1>1, <1>2, <1>3 DEF LedgerNext

(* Every account is read at a slot.                                        *)
LEMMA ReadSlots == TypeOK => \A r \in 1..Len(accounts) : accounts[r].slot \in Slots
<1> SUFFICES ASSUME TypeOK, NEW r \in 1..Len(accounts) PROVE accounts[r].slot \in Slots
  OBVIOUS
<1>1. accounts \in Seq(Account)
  BY DEF TypeOK
<1>2. accounts[r] \in Account
  BY <1>1
<1> QED
  BY <1>2 DEF Account

(* A slot that confirms takes back no read and no result.                  *)
LEMMA LedgerKeepsIInv == IInv /\ LedgerStep => IInv'
<1> SUFFICES ASSUME IInv, LedgerStep PROVE IInv'
  OBVIOUS
<1> USE LedgerAssumption, ReconcileAssumption
<1>1. /\ LedgerTypeOK' /\ History' /\ tip <= tip'
      /\ \A r \in Rows : touched[r] \subseteq touched'[r]
      /\ \A r \in Rows, s \in Slots : s <= tip => bytes'[r][s] = bytes[r][s]
  BY LedgerGrows DEF IInv, LedgerStep
<1>2. /\ UNCHANGED <<indexed, indexedSlot, phase, batchLimit, contextSlot, accounts, row>>
      /\ UNCHANGED <<results, callFailed>>
  BY DEF LedgerStep, sample, fetchVars
<1>3. tip \in Slots /\ tip' \in Slots /\ Len(accounts) \in Nat /\ Len(accounts) <= NumRows
  BY <1>1 DEF IInv, TypeOK, LedgerTypeOK
<1>4. \A r \in 1..Len(accounts) : accounts[r].slot \in Slots
  BY ReadSlots DEF IInv
<1>5. TypeOK'
  BY <1>1, <1>2 DEF IInv, TypeOK
<1>6. Reads'
  <2>1. ASSUME NEW r \in 1..Len(accounts)
        PROVE  accounts[r].slot <= tip' /\ accounts[r].data = bytes'[r][accounts[r].slot]
    <3>1. r \in Rows /\ accounts[r].slot \in Slots
      BY <1>3, <1>4
    <3>2. accounts[r].slot <= tip /\ accounts[r].data = bytes[r][accounts[r].slot]
      BY DEF IInv, Reads
    <3> QED
      BY <3>1, <3>2, <1>1, <1>3
  <2> QED
    BY <1>2, <2>1 DEF IInv, Reads
<1>7. Control'
  BY <1>2 DEF IInv, Control, Judged
<1>8. ASSUME NEW r \in Rows PROVE Sound(r)'
  <2>1. Sound(r)
    BY DEF IInv
  <2>2. ASSUME results[r] \in {"untouched since", "no lag"}, accounts[r].slot = contextSlot
        PROVE  Corrupt(r)'
    <3>1. indexedSlot[r] <= contextSlot /\ Corrupt(r)
      BY <2>1, <2>2 DEF Sound
    <3>2. r \in 1..Len(accounts)
      BY <2>2, <1>3 DEF IInv, Control, Judged
    <3>3. contextSlot \in Slots /\ contextSlot <= tip
      BY <2>2, <3>2, <1>4 DEF IInv, Reads
    <3>4. indexedSlot[r] \in Slots /\ indexedSlot[r] <= tip
      BY <3>1, <3>3, <1>3 DEF IInv, TypeOK, NoSlot
    <3> QED
      BY <1>1, <1>2, <3>1, <3>4 DEF Corrupt
  <2> QED
    BY <1>1, <1>2, <2>1, <2>2 DEF Sound
<1>9. CapAloneNeverFails'
  BY <1>2 DEF IInv, CapAloneNeverFails
<1> QED
  BY <1>1, <1>5, <1>6, <1>7, <1>8, <1>9 DEF IInv

(* One batch: what it read is appended to what the ones before it read.    *)
LEMMA BatchAppends ==
  ASSUME IInv, NEW n \in Nodes, FetchBatch(n)
  PROVE  LET had == Len(accounts)
             size == BatchSize
         IN  /\ had \in Nat /\ had < NumRows /\ size \in Nat /\ 1 <= size /\ had + size <= NumRows
             /\ accounts' \in Seq(Account) /\ Len(accounts') = had + size
             /\ \A r \in 1..had : accounts'[r] = accounts[r]
             /\ \A r \in (had + 1)..(had + size) :
                  accounts'[r] = [data |-> bytes[r][seen[n]], slot |-> seen[n]]
<1> USE LedgerAssumption, ReconcileAssumption
<1> DEFINE had == Len(accounts)
           size == BatchSize
           read == [i \in 1..size |-> [data |-> bytes[had + i][seen[n]], slot |-> seen[n]]]
<1>1. /\ UNCHANGED <<tip, bytes, touched, seen, indexed, indexedSlot, batchLimit, row>>
      /\ UNCHANGED <<results, callFailed>>
      /\ phase = "fetch" /\ accounts' = accounts \o read
      /\ contextSlot' = Lower(contextSlot, seen[n])
      /\ phase' = IF had + size = NumRows THEN "judge" ELSE "fetch"
  BY DEF FetchBatch, ledgerVars, sample
<1>2. had \in Nat /\ had < NumRows /\ size \in Nat /\ 1 <= size /\ had + size <= NumRows
  <2>1. had \in Nat /\ had < NumRows /\ batchLimit \in Nat /\ 1 <= batchLimit
    BY <1>1 DEF IInv, TypeOK, Control
  <2> QED
    BY <2>1 DEF BatchSize, Lower
<1>3. seen[n] \in Slots /\ seen[n] <= tip /\ tip \in Slots
  BY DEF IInv, TypeOK, LedgerTypeOK
<1>4. read \in Seq(Account) /\ Len(read) = size
  <2>1. ASSUME NEW i \in 1..size PROVE read[i] \in Account
    <3>1. had + i \in Rows
      BY <1>2
    <3>2. bytes[had + i][seen[n]] \in Bytes
      BY <3>1, <1>3 DEF IInv, TypeOK, LedgerTypeOK
    <3> QED
      BY <3>2, <1>3 DEF Account
  <2> HIDE DEF size
  <2> QED
    BY <2>1, <1>2
<1>5. accounts \in Seq(Account)
  BY DEF IInv, TypeOK
<1> HIDE DEF had, size, read
<1>6. /\ accounts' \in Seq(Account) /\ Len(accounts') = had + size
      /\ \A r \in 1..had : accounts'[r] = accounts[r]
      /\ \A r \in (had + 1)..(had + size) : accounts'[r] = read[r - had]
  <2>1. accounts' = accounts \o read
    BY <1>1
  <2>2. /\ accounts' \in Seq(Account) /\ Len(accounts') = Len(accounts) + Len(read)
        /\ \A i \in 1..(Len(accounts) + Len(read)) :
             accounts'[i] = IF i <= Len(accounts) THEN accounts[i] ELSE read[i - Len(accounts)]
    BY <2>1, <1>4, <1>5, ConcatProperties
  <2> QED
    BY <2>2, <1>2, <1>4 DEF had
<1>7. \A r \in (had + 1)..(had + size) :
        accounts'[r] = [data |-> bytes[r][seen[n]], slot |-> seen[n]]
  <2> TAKE r \in (had + 1)..(had + size)
  <2>1. r - had \in 1..size /\ had + (r - had) = r
    BY <1>2
  <2>2. read[r - had] = [data |-> bytes[had + (r - had)][seen[n]], slot |-> seen[n]]
    BY <2>1 DEF read
  <2> QED
    BY <2>1, <2>2, <1>6
<1> QED
  BY <1>2, <1>6, <1>7 DEF had, size

(* One batch: the reads are appended, each at its row's place.             *)
LEMMA BatchKeepsIInv ==
  ASSUME IInv, NEW n \in Nodes, FetchBatch(n)
  PROVE  IInv'
<1> USE LedgerAssumption, ReconcileAssumption
<1> DEFINE had == Len(accounts)
           size == BatchSize
<1>1. /\ UNCHANGED <<tip, bytes, touched, seen, indexed, indexedSlot, batchLimit, row>>
      /\ UNCHANGED <<results, callFailed>>
      /\ phase = "fetch"
      /\ contextSlot' = Lower(contextSlot, seen[n])
      /\ phase' = IF had + size = NumRows THEN "judge" ELSE "fetch"
  BY DEF FetchBatch, ledgerVars, sample
<1>2. had \in Nat /\ had < NumRows /\ size \in Nat /\ 1 <= size /\ had + size <= NumRows
  BY BatchAppends
<1>3. seen[n] \in Slots /\ seen[n] <= tip /\ tip \in Slots
  BY DEF IInv, TypeOK, LedgerTypeOK
<1>6. /\ accounts' \in Seq(Account) /\ Len(accounts') = had + size
      /\ \A r \in 1..had : accounts'[r] = accounts[r]
  BY BatchAppends
<1>7. \A r \in (had + 1)..(had + size) :
        accounts'[r].data = bytes[r][seen[n]] /\ accounts'[r].slot = seen[n]
  <2> TAKE r \in (had + 1)..(had + size)
  <2>1. accounts'[r] = [data |-> bytes[r][seen[n]], slot |-> seen[n]]
    BY BatchAppends
  <2> QED
    BY <2>1
<1> HIDE DEF had, size
<1>8. contextSlot \in Slots \cup {NoSlot} /\ \A r \in 1..had : accounts[r].slot \in Slots
  BY ReadSlots DEF IInv, TypeOK, had
<1>9. contextSlot' \in Slots /\ contextSlot' <= seen[n] /\ contextSlot' <= contextSlot
  BY <1>1, <1>3, <1>8 DEF Lower, NoSlot
<1>10. TypeOK'
  BY <1>1, <1>2, <1>6, <1>9 DEF IInv, TypeOK, LedgerTypeOK
<1>11. Reads'
  <2>1. ASSUME NEW r \in 1..Len(accounts')
        PROVE  /\ accounts'[r].slot <= tip /\ contextSlot' <= accounts'[r].slot
               /\ accounts'[r].data = bytes[r][accounts'[r].slot]
    <3>1. CASE r \in 1..had
      <4>1. /\ accounts[r].slot <= tip /\ contextSlot <= accounts[r].slot
            /\ accounts[r].data = bytes[r][accounts[r].slot]
        BY <3>1 DEF IInv, Reads, had
      <4>2. contextSlot' <= accounts[r].slot
        BY <3>1, <4>1, <1>8, <1>9 DEF NoSlot
      <4> QED
        BY <3>1, <4>1, <4>2, <1>6
    <3>2. CASE r \in (had + 1)..(had + size)
      BY <3>2, <1>3, <1>7, <1>9
    <3> QED
      BY <3>1, <3>2, <1>2, <1>6
  <2>2. \E r \in 1..Len(accounts') : accounts'[r].slot = contextSlot'
    <3>1. CASE contextSlot' = seen[n]
      <4>1. had + 1 \in (had + 1)..(had + size) /\ had + 1 \in 1..Len(accounts')
        BY <1>2, <1>6
      <4> QED
        BY <4>1, <3>1, <1>7
    <3>2. CASE contextSlot' = contextSlot
      <4>1. contextSlot # NoSlot
        BY <3>2, <1>9 DEF NoSlot
      <4>2. PICK r \in 1..had : accounts[r].slot = contextSlot
        BY <4>1 DEF IInv, Reads, had
      <4> QED
        BY <4>2, <3>2, <1>2, <1>6
    <3> QED
      BY <3>1, <3>2, <1>1 DEF Lower
  <2>3. accounts' # << >>
    BY <1>2, <1>6
  <2> QED
    BY <1>1, <2>1, <2>2, <2>3 DEF Reads
<1>12. Control'
  <2>1. \A r \in Rows : ~Judged(r)
    BY <1>1, <1>2 DEF IInv, Control, had
  <2>2. row' \in Rows
    BY <1>1 DEF IInv, Control
  <2> QED
    BY <1>1, <1>2, <1>6, <2>1, <2>2 DEF IInv, Control, Judged
<1>13. ASSUME NEW r \in Rows PROVE Sound(r)'
  <2>1. ~Judged(r)
    BY <1>1, <1>2 DEF IInv, Control, had
  <2> QED
    BY <1>1, <2>1 DEF Sound, Judged
<1>14. History' /\ CapAloneNeverFails'
  BY <1>1 DEF IInv, History, CapAloneNeverFails
<1> QED
  BY <1>10, <1>11, <1>12, <1>13, <1>14 DEF IInv

(* Starting over forgets every read and keeps nothing of its slots.        *)
LEMMA StartOverKeepsIInv ==
  ASSUME IInv, NEW named \in Nat \ {0}, StartOver(named), UNCHANGED callFailed, phase = "fetch"
  PROVE  IInv'
<1> USE LedgerAssumption, ReconcileAssumption
<1>1. /\ UNCHANGED <<tip, bytes, touched, seen, indexed, indexedSlot, phase, row>>
      /\ UNCHANGED <<results, callFailed>>
      /\ named < batchLimit /\ batchLimit' = named
      /\ accounts' = << >> /\ contextSlot' = NoSlot
  BY DEF StartOver, ledgerVars, sample
<1>2. batchLimit' \in 1..MaxKeys
  BY <1>1 DEF IInv, TypeOK
<1>3. TypeOK'
  <2>1. LedgerTypeOK'
    BY <1>1 DEF IInv, TypeOK, LedgerTypeOK
  <2>2. accounts' \in Seq(Account) /\ Len(accounts') <= NumRows /\ contextSlot' \in Slots \cup {NoSlot}
    BY <1>1
  <2> QED
    BY <1>1, <1>2, <2>1, <2>2 DEF IInv, TypeOK
<1>4. Reads'
  BY <1>1 DEF Reads
<1>5. Control' /\ \A r \in Rows : results[r] = results'[r] /\ ~Judged(r)
  BY <1>1 DEF IInv, Control, Judged, TypeOK
<1>6. \A r \in Rows : Sound(r)'
  BY <1>5 DEF Sound, Judged
<1>7. History' /\ CapAloneNeverFails'
  BY <1>1 DEF IInv, History, CapAloneNeverFails
<1> QED
  BY <1>3, <1>4, <1>5, <1>6, <1>7 DEF IInv

(* A reply of the wrong length does to a check what a failed call does.    *)
LEMMA WrongLengthFails == (\E n \in Nodes : WrongLength(n)) => FetchFails
  BY DEF WrongLength, FetchFails

(* A failed call ends the check with every row unreachable.                *)
LEMMA FetchFailsKeepsIInv == IInv /\ FetchFails => IInv'
<1> SUFFICES ASSUME IInv, FetchFails PROVE IInv'
  OBVIOUS
<1>1. /\ UNCHANGED <<tip, bytes, touched, seen, indexed, indexedSlot, batchLimit, contextSlot>>
      /\ UNCHANGED <<accounts, row>>
      /\ phase' = "done" /\ results' = [r \in Rows |-> "unreachable"]
  BY DEF FetchFails, Unreachable, ledgerVars, sample, fetchVars
<1>2. callFailed' = TRUE
  BY DEF FetchFails
<1>3. callFailed' \in BOOLEAN /\ CapAloneNeverFails'
  BY <1>2, Zenon DEF CapAloneNeverFails
<1>4. TypeOK'
  <2>1. results' \in [Rows -> Results]
    BY <1>1 DEF Results, Skips
  <2>2. LedgerTypeOK'
    BY <1>1 DEF IInv, TypeOK, LedgerTypeOK
  <2> QED
    BY <1>1, <1>3, <2>1, <2>2 DEF IInv, TypeOK
<1>5. Control' /\ Reads' /\ History'
  BY <1>1 DEF IInv, Control, Judged, Reads, History
<1>6. \A r \in Rows : Sound(r)'
  BY <1>1 DEF Sound
<1> QED
  BY <1>3, <1>4, <1>5, <1>6 DEF IInv

(* The row after a row is a row, or the first past the sample.             *)
LEMMA NextRow ==
  ASSUME NEW r \in Rows
  PROVE  r + 1 \in 1..(NumRows + 1) /\ (r # NumRows => r + 1 \in Rows)
BY LedgerAssumption

(* Slots with no lag between them are one slot.                            *)
LEMMA NoLagIsSame ==
  ASSUME NEW s \in Slots, NEW t \in Slots, s - t = 0
  PROVE  s = t
BY LedgerAssumption

(* A row's result: the other rows are not disturbed.                       *)
LEMMA GiveKeepsIInv ==
  ASSUME IInv, phase = "judge", NEW result \in Results \ {"none", "unreachable"}, Give(row, result),
         result \in {"untouched since", "no lag"} =>
           /\ indexedSlot[row] <= contextSlot
           /\ accounts[row].slot = contextSlot => Corrupt(row),
         result = "pass" => indexed[row] = accounts[row].data,
         result = "written after" => \E s \in touched[row] : s > indexedSlot[row]
  PROVE  IInv'
<1> USE LedgerAssumption, ReconcileAssumption
<1>1. /\ UNCHANGED <<tip, bytes, touched, seen, indexed, indexedSlot, batchLimit, contextSlot>>
      /\ UNCHANGED <<accounts, callFailed>>
      /\ phase' = (IF row = NumRows THEN "done" ELSE "judge") /\ row' = row + 1
      /\ results' = [results EXCEPT ![row] = result]
  BY DEF Give, ledgerVars, sample, fetchVars
<1>2. row \in Rows /\ Len(accounts) = NumRows
  BY DEF IInv, Control
<1>3. results \in [Rows -> Results]
  BY DEF IInv, TypeOK
<1>4. results'[row] = result /\ \A r \in Rows : r # row => results'[r] = results[r]
  BY <1>1, <1>2, <1>3
<1>5. TypeOK'
  <2>1. results' \in [Rows -> Results] /\ row' \in 1..(NumRows + 1)
    <3>1. row' = row + 1 /\ results' = [results EXCEPT ![row] = result]
      BY <1>1
    <3>2. row' \in 1..(NumRows + 1)
      BY <3>1, <1>2, NextRow
    <3> QED
      BY <3>1, <3>2, <1>3
  <2>2. LedgerTypeOK'
    BY <1>1 DEF IInv, TypeOK, LedgerTypeOK
  <2> QED
    BY <1>1, <2>1, <2>2 DEF IInv, TypeOK
<1>6. Reads' /\ History'
  BY <1>1 DEF IInv, Reads, History
<1>7. \A r \in Rows : results[r] # "unreachable"
  BY DEF IInv, Control
<1>8. Control'
  <2>1. phase' = "judge" => row # NumRows /\ row' = row + 1
    BY <1>1
  <2>2. phase' = "judge" => row' \in Rows
    BY <1>2, <2>1, NextRow
  <2> QED
    BY <1>1, <1>2, <1>4, <1>7, <2>2 DEF Control
<1>9. ASSUME NEW r \in Rows PROVE Sound(r)'
  <2>1. CASE r = row
    BY <2>1, <1>1, <1>4 DEF Sound, Corrupt
  <2>2. CASE r # row
    BY <2>2, <1>1, <1>4 DEF IInv, Sound, Corrupt
  <2> QED
    BY <2>1, <2>2
<1>10. CapAloneNeverFails'
  BY <1>4, <1>7 DEF CapAloneNeverFails
<1> QED
  BY <1>5, <1>6, <1>8, <1>9, <1>10 DEF IInv

(* A row that is read where its indexed slot or a later one is, differs,   *)
(* and whose account nothing named in between, was wrong when written.     *)
LEMMA UntouchedIsCorrupt ==
  ASSUME IInv, phase = "judge", NEW r \in Rows, indexed[r] # accounts[r].data,
         indexedSlot[r] # NoSlot, indexedSlot[r] <= accounts[r].slot,
         \A u \in touched[r] : u <= indexedSlot[r] \/ accounts[r].slot < u
  PROVE  Corrupt(r)
<1> USE LedgerAssumption
<1>1. r \in 1..Len(accounts)
  BY DEF IInv, Control
<1>2. accounts[r].slot \in Slots /\ accounts[r].data = bytes[r][accounts[r].slot]
  BY <1>1, ReadSlots DEF IInv, Reads
<1>3. indexedSlot[r] \in Slots
  BY DEF IInv, TypeOK
<1>4. bytes[r][indexedSlot[r]] = bytes[r][accounts[r].slot]
  BY <1>2, <1>3 DEF IInv, History
<1> QED
  BY <1>2, <1>4 DEF Corrupt

(* A row read at its indexed slot that differs was wrong when written.     *)
LEMMA ReadThereIsCorrupt ==
  ASSUME IInv, phase = "judge", NEW r \in Rows, indexed[r] # accounts[r].data,
         accounts[r].slot = indexedSlot[r]
  PROVE  Corrupt(r)
BY DEF IInv, Control, Reads, Corrupt

(* Every step of the check and of the chain keeps the invariant.           *)
LEMMA NextKeepsIInv == IInv /\ [Next]_vars => IInv'
<1> SUFFICES ASSUME IInv, [Next]_vars PROVE IInv'
  OBVIOUS
<1> USE LedgerAssumption, ReconcileAssumption
<1>1. ASSUME NEW n \in Nodes, BatchTooLong(n) PROVE IInv'
  BY <1>1, StartOverKeepsIInv DEF BatchTooLong
<1>2. CASE CapMisread
  <2>1. PICK named \in 1..MaxKeys : StartOver(named)
    BY <1>2 DEF CapMisread
  <2>2. named \in Nat \ {0}
    OBVIOUS
  <2> QED
    BY <1>2, <2>1, <2>2, StartOverKeepsIInv DEF CapMisread
<1>3. ASSUME phase = "judge"
      PROVE  /\ row \in Rows /\ contextSlot \in Slots /\ accounts[row].slot \in Slots
             /\ contextSlot <= tip /\ tip \in Nat
             /\ indexedSlot[row] \in Slots \/ indexedSlot[row] = NoSlot
  <2>1. Len(accounts) = NumRows /\ row \in Rows
    BY <1>3 DEF IInv, Control
  <2>2. accounts # << >>
    BY <2>1
  <2>3. PICK r \in 1..Len(accounts) : accounts[r].slot = contextSlot
    BY <2>2 DEF IInv, Reads
  <2>4. contextSlot \in Slots /\ contextSlot <= tip /\ accounts[row].slot \in Slots
    BY <2>1, <2>3, ReadSlots DEF IInv, Reads
  <2> QED
    BY <2>1, <2>4 DEF IInv, TypeOK, LedgerTypeOK
<1>4. CASE JudgeLocally
  <2>1. phase = "judge" /\ Give(row, Local(row))
    BY <1>4 DEF JudgeLocally
  <2>2. /\ Local(row) \in {"missing", "pass", "no slot", "behind index"}
        /\ Local(row) = "pass" => indexed[row] = accounts[row].data
    BY <1>4 DEF JudgeLocally, Local, OnChain
  <2> QED
    BY <2>1, <2>2, GiveKeepsIInv DEF Results, Fails, Skips
<1>5. ASSUME phase = "judge", Local(row) = "none"
      PROVE  /\ indexed[row] # accounts[row].data /\ indexedSlot[row] \in Slots
             /\ indexedSlot[row] <= contextSlot
  <2>1. /\ indexed[row] # accounts[row].data /\ indexedSlot[row] # NoSlot
        /\ ~(contextSlot < indexedSlot[row])
    BY <1>5 DEF Local, OnChain
  <2> QED
    BY <1>3, <1>5, <2>1
<1>6. ASSUME NEW n \in Nodes, LastTouchKnown(n) PROVE IInv'
  <2>1. PICK lastTouch \in touched[row] :
          /\ IsLastTouch(n, row, lastTouch)
          /\ Give(row, IF lastTouch <= indexedSlot[row] THEN "untouched since" ELSE "written after")
    BY <1>6 DEF LastTouchKnown
  <2>2. phase = "judge" /\ Local(row) = "none" /\ contextSlot <= seen[n]
    BY <1>6 DEF LastTouchKnown
  <2>3. /\ \A u \in touched[row] : u \in Nat
        /\ seen[n] \in Nat
    BY <1>3, <2>2 DEF IInv, TypeOK, LedgerTypeOK
  <2>4. CASE lastTouch <= indexedSlot[row]
    <3>1. ASSUME NEW u \in touched[row] PROVE u <= indexedSlot[row] \/ contextSlot < u
      <4>1. u \in Nat /\ lastTouch \in Nat /\ seen[n] \in Nat /\ contextSlot \in Nat /\ indexedSlot[row] \in Nat
        BY <1>3, <1>5, <2>2, <2>3
      <4>2. (u <= seen[n] => u <= lastTouch) /\ contextSlot <= seen[n] /\ lastTouch <= indexedSlot[row]
        BY <2>1, <2>2, <2>4 DEF IsLastTouch
      <4> QED
        BY <4>1, <4>2
    <3>2. accounts[row].slot = contextSlot => Corrupt(row)
      BY <1>3, <1>5, <2>2, <3>1, UntouchedIsCorrupt DEF NoSlot
    <3> QED
      <4>1. Give(row, "untouched since")
        BY <2>1, <2>4
      <4> QED
        BY <1>5, <2>2, <3>2, <4>1, GiveKeepsIInv DEF Results, Fails
  <2>5. CASE lastTouch > indexedSlot[row]
    <3>1. ~(lastTouch <= indexedSlot[row])
      BY <1>5, <2>2, <2>3, <2>5
    <3>2. Give(row, "written after")
      BY <2>1, <3>1
    <3> QED
      BY <2>2, <2>5, <3>2, GiveKeepsIInv DEF Results, Skips
  <2> QED
    BY <1>5, <2>2, <2>3, <2>4, <2>5
<1>7. CASE LastTouchUnknown
  <2>1. phase = "judge" /\ Local(row) = "none"
    BY <1>7 DEF LastTouchUnknown
  <2>2. PICK result \in {"no lag", "beyond lag", "slot lag"} :
          Give(row, result) /\ (result = "no lag" => contextSlot - indexedSlot[row] = 0)
    BY <1>7 DEF LastTouchUnknown
  <2>3. ASSUME result = "no lag", accounts[row].slot = contextSlot PROVE Corrupt(row)
    <3>1. contextSlot \in Slots /\ indexedSlot[row] \in Slots /\ contextSlot - indexedSlot[row] = 0
      BY <1>3, <1>5, <2>1, <2>2, <2>3
    <3>2. contextSlot = indexedSlot[row]
      BY <3>1, NoLagIsSame
    <3>3. accounts[row].slot = indexedSlot[row]
      BY <2>3, <3>2, Zenon
    <3>4. row \in Rows /\ indexed[row] # accounts[row].data
      BY <1>3, <1>5, <2>1
    <3> QED
      BY <2>1, <3>3, <3>4, ReadThereIsCorrupt, Zenon
  <2> QED
    BY <1>5, <2>1, <2>2, <2>3, GiveKeepsIInv DEF Results, Fails, Skips
<1>8. CASE UNCHANGED vars
  <2>1. /\ UNCHANGED <<tip, bytes, touched, seen, indexed, indexedSlot, phase, batchLimit, contextSlot>>
        /\ UNCHANGED <<accounts, row, results, callFailed>>
    BY <1>8 DEF vars, ledgerVars, sample, fetchVars
  <2> QED
    <3>1. TypeOK'
      BY <2>1 DEF IInv, TypeOK, LedgerTypeOK
    <3>2. History' /\ Reads' /\ Control' /\ CapAloneNeverFails'
      BY <2>1 DEF IInv, History, Reads, Control, Judged, CapAloneNeverFails
    <3>3. \A r \in Rows : Sound(r)'
      BY <2>1 DEF IInv, Sound, Corrupt
    <3> QED
      BY <3>1, <3>2, <3>3 DEF IInv
<1> QED
  BY <1>1, <1>2, <1>4, <1>6, <1>7, <1>8, BatchKeepsIInv, FetchFailsKeepsIInv, WrongLengthFails,
     LedgerKeepsIInv
  DEF Next, Check

(* The invariant, for every sample, cap and pool.                          *)
LEMMA IInvHolds == Spec => []IInv
<1> QED
  BY InitIInv, NextKeepsIInv, PTL DEF Spec

(* Every result, slot and batch limit a reconcile holds is of its kind.    *)
THEOREM ReconcileTypeCorrect == Spec => []TypeOK
<1>1. IInv => TypeOK
  BY DEF IInv
<1> QED
  BY <1>1, IInvHolds, PTL

(* A Fail measured at the merged context slot names a row that was wrong   *)
(* when the index wrote it, however many nodes answered.                   *)
THEOREM FailsAtContextAreCorrupt == Spec => []FailAtContextIsCorrupt
<1>1. IInv => FailAtContextIsCorrupt
  BY DEF IInv, Sound, FailAtContextIsCorrupt
<1> QED
  BY <1>1, IInvHolds, PTL

(* Across batches and restarts each answer is compared with its own row,   *)
(* and the merged slot is that of the oldest read.                         *)
THEOREM ReadsHold == Spec => []ReadsKeepTheirPlace
<1>1. ASSUME IInv, NEW r \in Rows, results[r] = "pass"
      PROVE  indexed[r] = bytes[r][accounts[r].slot]
  <2>1. indexed[r] = accounts[r].data
    BY <1>1 DEF IInv, Sound
  <2>2. r \in 1..Len(accounts)
    BY <1>1 DEF IInv, Control, Judged
  <2> QED
    BY <1>1, <2>1, <2>2 DEF IInv, Reads
<1>2. ASSUME IInv, phase = "judge"
      PROVE  /\ \E r \in Rows : accounts[r].slot = contextSlot
             /\ \A r \in Rows : contextSlot <= accounts[r].slot
  <2>1. Len(accounts) = NumRows /\ row \in Rows
    BY <1>2 DEF IInv, Control
  <2>2. accounts # << >>
    BY <2>1, LedgerAssumption
  <2> QED
    BY <1>2, <2>1, <2>2 DEF IInv, Reads
<1>3. IInv => ReadsKeepTheirPlace
  BY <1>1, <1>2 DEF ReadsKeepTheirPlace
<1> QED
  BY <1>3, IInvHolds, PTL

(* A wrong row whose account nothing has named since is never excused.     *)
THEOREM CorruptRowsAreNotExcused == Spec => []CorruptIsNotExcused
<1>1. IInv => CorruptIsNotExcused
  <2> SUFFICES ASSUME IInv, NEW r \in Rows, Judged(r), indexedSlot[r] # NoSlot, Corrupt(r),
                      indexedSlot[r] <= accounts[r].slot,
                      \A s \in touched[r] : s <= indexedSlot[r]
               PROVE  results[r] \notin {"pass", "written after"}
    BY DEF CorruptIsNotExcused
  <2>1. r \in 1..Len(accounts) /\ indexedSlot[r] \in Slots
    BY DEF IInv, Control, TypeOK
  <2>2. accounts[r].slot \in Slots /\ accounts[r].data = bytes[r][accounts[r].slot]
    BY <2>1, ReadSlots DEF IInv, Reads
  <2>3. bytes[r][indexedSlot[r]] = accounts[r].data
    BY <2>1, <2>2 DEF IInv, History
  <2>4. indexed[r] # accounts[r].data
    BY <2>3 DEF Corrupt
  <2>5. \A s \in touched[r] : s \in Nat
    BY DEF IInv, TypeOK, LedgerTypeOK
  <2>6. ~\E s \in touched[r] : s > indexedSlot[r]
    BY <2>1, <2>5, LedgerAssumption
  <2> QED
    BY <2>4, <2>6 DEF IInv, Sound
<1> QED
  BY <1>1, IInvHolds, PTL

(* A key cap alone never costs the check: unreachable needs a failed call. *)
THEOREM CapsAloneNeverFail == Spec => []CapAloneNeverFails
<1>1. IInv => CapAloneNeverFails
  BY DEF IInv
<1> QED
  BY <1>1, IInvHolds, PTL

(* A step of a check lowers the key limit or leaves less to do.            *)
LEMMA CheckCounts ==
  ASSUME IInv, Check
  PROVE  \/ batchLimit' < batchLimit
         \/ batchLimit' = batchLimit /\ ToDo' < ToDo
<1> USE LedgerAssumption
<1>1. NumRows \in Nat /\ Len(accounts) \in Nat /\ row \in Nat
  BY DEF IInv, TypeOK
<1>2. CASE \E n \in Nodes : BatchTooLong(n)
  BY <1>2 DEF BatchTooLong, StartOver
<1>3. CASE CapMisread
  BY <1>3 DEF CapMisread, StartOver
<1>4. ASSUME NEW n \in Nodes, FetchBatch(n) PROVE batchLimit' = batchLimit /\ ToDo' < ToDo
  <2>1. PICK size \in Nat : 1 <= size /\ Len(accounts) + size <= NumRows /\ Len(accounts') = Len(accounts) + size
    BY <1>4, BatchAppends
  <2>2. UNCHANGED <<batchLimit, row>> /\ phase = "fetch" /\ phase' # "done"
    BY <1>4 DEF FetchBatch
  <2>3. row = 1
    BY <2>2 DEF IInv, Control
  <2> QED
    BY <1>1, <2>1, <2>2, <2>3 DEF ToDo
<1>5. CASE FetchFails
  <2>1. UNCHANGED <<batchLimit, accounts, row>> /\ phase = "fetch" /\ phase' = "done"
    BY <1>5 DEF FetchFails, Unreachable, fetchVars
  <2>2. row = 1 /\ Len(accounts) <= NumRows
    BY <2>1 DEF IInv, Control, TypeOK
  <2> QED
    BY <1>1, <2>1, <2>2 DEF ToDo
<1>6. CASE JudgeLocally \/ LastTouchUnknown \/ \E n \in Nodes : LastTouchKnown(n)
  <2>1. phase = "judge" /\ \E result : Give(row, result)
    BY <1>6 DEF JudgeLocally, LastTouchUnknown, LastTouchKnown
  <2>2. /\ UNCHANGED <<batchLimit, accounts>> /\ row' = row + 1
        /\ phase' = IF row = NumRows THEN "done" ELSE "judge"
    BY <2>1 DEF Give, fetchVars
  <2>3. row \in Rows /\ Len(accounts) = NumRows
    BY <2>1 DEF IInv, Control
  <2> QED
    BY <1>1, <2>1, <2>2, <2>3 DEF ToDo
<1> QED
  BY <1>2, <1>3, <1>4, <1>5, <1>6, WrongLengthFails DEF Check

(* So it is throughout: a check is bounded by the sample and the key limit.*)
THEOREM EveryCallCountsHolds == Spec => EveryCallCounts
<1>1. IInv /\ [Next]_vars =>
        [Check => \/ batchLimit' < batchLimit
                  \/ batchLimit' = batchLimit /\ ToDo' < ToDo]_vars
  BY CheckCounts
<1> QED
  BY <1>1, IInvHolds, PTL DEF Spec, EveryCallCounts
-----------------------------------------------------------------------------
(* The rows are judged in order, each once.                                *)
InOrder == phase = "judge" => \A r \in Rows : results[r] = "none" <=> row <= r

(* A fetch still under way has judged no row.                              *)
LEMMA FetchJudgesNothing ==
  ASSUME IInv, phase = "fetch"
  PROVE  Len(accounts) # NumRows /\ \A r \in Rows : results[r] = "none"
<1>1. Len(accounts) \in Nat /\ Len(accounts) < NumRows
  BY DEF IInv, Control, TypeOK
<1> QED
  BY <1>1, LedgerAssumption DEF IInv, Control, Judged

LEMMA NextKeepsInOrder == IInv /\ InOrder /\ [Next]_vars => InOrder'
<1> SUFFICES ASSUME IInv, InOrder, [Next]_vars, phase' = "judge"
             PROVE  \A r \in Rows : results'[r] = "none" <=> row' <= r
  BY DEF InOrder
<1> USE LedgerAssumption
<1>1. ASSUME phase = "fetch", UNCHANGED <<results, row>>
      PROVE  \A r \in Rows : results'[r] = "none" <=> row' <= r
  BY <1>1, FetchJudgesNothing DEF IInv, Control
<1>2. ASSUME phase = "judge", NEW result \in Results \ {"none"}, Give(row, result)
      PROVE  \A r \in Rows : results'[r] = "none" <=> row' <= r
  <2>1. row \in Rows /\ results \in [Rows -> Results]
    BY <1>2 DEF IInv, Control, TypeOK
  <2>2. results' = [results EXCEPT ![row] = result] /\ row' = row + 1
    BY <1>2 DEF Give
  <2> QED
    BY <1>2, <2>1, <2>2 DEF InOrder
<1>3. CASE \E n \in Nodes : FetchBatch(n) \/ BatchTooLong(n)
  BY <1>1, <1>3 DEF FetchBatch, BatchTooLong, StartOver
<1>4. CASE CapMisread
  BY <1>1, <1>4 DEF CapMisread, StartOver
<1>5. CASE FetchFails
  BY <1>5 DEF FetchFails, Unreachable
<1>6. CASE JudgeLocally
  BY <1>2, <1>6 DEF JudgeLocally, Local, Results, Fails, Skips
<1>7. CASE LastTouchUnknown \/ \E n \in Nodes : LastTouchKnown(n)
  BY <1>2, <1>7 DEF LastTouchUnknown, LastTouchKnown, Results, Fails, Skips
<1>8. CASE LedgerStep \/ UNCHANGED vars
  BY <1>8 DEF LedgerStep, vars, InOrder
<1> QED
  BY <1>3, <1>4, <1>5, <1>6, <1>7, <1>8, WrongLengthFails DEF Next, Check

(* What the promise calls read, in the fetch and after it.                 *)
LEMMA ReadAtAfterFetch ==
  ASSUME IInv
  PROVE  /\ Len(accounts) # NumRows => ReadAt = << >>
         /\ Len(accounts) = NumRows => /\ ReadAt = [r \in Rows |-> accounts[r].slot]
                                       /\ ReadAt # << >>
                                       /\ ReadAt \in [Rows -> 0..tip]
<1>1. ASSUME Len(accounts) = NumRows PROVE \A r \in Rows : accounts[r].slot \in 0..tip
  <2>1. \A r \in Rows : accounts[r].slot \in Slots /\ accounts[r].slot <= tip
    BY <1>1, ReadSlots DEF IInv, Reads
  <2> QED
    BY <2>1, LedgerAssumption DEF IInv, TypeOK, LedgerTypeOK
<1>2. ASSUME Len(accounts) = NumRows PROVE ReadAt # << >>
  <2>1. DOMAIN ReadAt = Rows
    BY <1>2 DEF ReadAt
  <2>2. 1 \in DOMAIN ReadAt
    BY <2>1, LedgerAssumption
  <2>3. 1 \notin DOMAIN << >>
    OBVIOUS
  <2> QED
    BY <2>2, <2>3
<1> QED
  BY <1>1, <1>2 DEF ReadAt

LEMMA InitPromise == Init => Promise!Init
<1> SUFFICES ASSUME Init PROVE Promise!Init
  OBVIOUS
<1> USE LedgerAssumption DEF Promise!Rows, Promise!Slots, Promise!Bytes, Promise!NoSlot
<1>1. ReadAt = << >>
  BY InitIInv, ReadAtAfterFetch DEF Init
<1>2. bytes \in [Rows -> [Slots -> Bytes]]
  BY InitIInv DEF IInv, TypeOK, LedgerTypeOK, Bytes
<1> QED
  BY <1>1, <1>2 DEF Init, LedgerInit, NoSlot, Bytes, Promise!Init

(* A slot that confirms names what it changes and leaves the past alone.   *)
LEMMA LedgerStepConfirms == IInv /\ LedgerStep => Promise!Confirm \/ UNCHANGED Promise!vars
<1> SUFFICES ASSUME IInv, LedgerStep PROVE Promise!Confirm \/ UNCHANGED Promise!vars
  OBVIOUS
<1> USE LedgerAssumption DEF Promise!Rows, Promise!Slots, Promise!Bytes
<1>1. UNCHANGED <<indexed, indexedSlot, accounts, results>> /\ UNCHANGED ReadAt
  BY DEF LedgerStep, sample, fetchVars, ReadAt
<1>2. /\ LedgerTypeOK'
      /\ \A r \in Rows, s \in Slots : s <= tip => bytes'[r][s] = bytes[r][s]
  BY LedgerGrows DEF LedgerStep, IInv
<1>3. /\ tip \in Nat /\ tip <= MaxSlot /\ touched \in [Rows -> SUBSET (1..tip)]
      /\ bytes \in [Rows -> [Slots -> Bytes]]
  BY DEF IInv, TypeOK, LedgerTypeOK
<1>4. ASSUME tip < MaxSlot, tip' = tip + 1,
             \A r \in Rows : /\ touched'[r] \in {touched[r], touched[r] \cup {tip'}}
                             /\ touched'[r] = touched[r] => bytes'[r] = bytes[r]
      PROVE  Promise!Confirm
  <2>1. \A r \in Rows, s \in 0..tip : bytes'[r][s] = bytes[r][s]
    BY <1>2, <1>3
  <2>2. touched' \in [Rows -> SUBSET (1..tip')] /\ bytes' \in [Rows -> [Slots -> Bytes]]
    BY <1>2 DEF LedgerTypeOK
  <2> QED
    BY <1>1, <1>4, <2>1, <2>2 DEF Promise!Confirm, Promise!sample, Bytes
<1>5. CASE ConfirmIdle
  BY <1>4, <1>5 DEF ConfirmIdle
<1>6. ASSUME NEW q \in Rows, ConfirmTouch(q) PROVE Promise!Confirm
  <2>1. tip < MaxSlot /\ tip' = tip + 1 /\ touched' = [touched EXCEPT ![q] = @ \cup {tip + 1}]
    BY <1>6 DEF ConfirmTouch
  <2>2. PICK v \in Bytes :
          bytes' = [bytes EXCEPT ![q] = [s \in Slots |-> IF s <= tip THEN @[s] ELSE v]]
    BY <1>6 DEF ConfirmTouch
  <2>3. tip + 1 \notin touched[q]
    BY <1>3
  <2>4. touched'[q] = touched[q] \cup {tip'} /\ touched'[q] # touched[q]
    BY <1>3, <2>1, <2>3
  <2>5. \A r \in Rows : r # q => touched'[r] = touched[r] /\ bytes'[r] = bytes[r]
    BY <1>3, <2>1, <2>2
  <2> QED
    BY <1>4, <2>1, <2>4, <2>5
<1>7. CASE \E n \in Nodes : CatchUp(n)
  BY <1>1, <1>7 DEF CatchUp, Promise!vars, Promise!sample
<1> QED
  BY <1>5, <1>6, <1>7 DEF LedgerStep, LedgerNext

(* The merged slot is the oldest a row was read at.                        *)
LEMMA ContextIsOldest ==
  ASSUME IInv, phase = "judge"
  PROVE  contextSlot \in Slots /\ contextSlot <= tip /\ Promise!Oldest(contextSlot)
<1>1. Len(accounts) = NumRows /\ row \in Rows
  BY DEF IInv, Control
<1>2. accounts # << >>
  BY <1>1, LedgerAssumption
<1>3. \A r \in Rows : ReadAt[r] = accounts[r].slot /\ contextSlot <= accounts[r].slot
  BY <1>1, ReadAtAfterFetch DEF IInv, Reads
<1>4. PICK r \in Rows : accounts[r].slot = contextSlot
  BY <1>1, <1>2 DEF IInv, Reads
<1>5. contextSlot \in Slots /\ contextSlot <= tip
  BY <1>1, <1>4, ReadSlots DEF IInv, Reads
<1> QED
  BY <1>3, <1>4, <1>5 DEF Promise!Oldest, Promise!Rows

(* A result the promise allows is a step of it.                            *)
LEMMA GiveJudges ==
  ASSUME IInv, InOrder, phase = "judge", NEW result, Give(row, result),
         result \in Promise!Verdicts(row, contextSlot)
  PROVE  Promise!Judge(row)
<1>1. row \in Rows /\ Len(accounts) = NumRows
  BY DEF IInv, Control
<1>2. ReadAt # << >> /\ UNCHANGED ReadAt /\ UNCHANGED <<tip, bytes, touched, indexed, indexedSlot>>
  BY <1>1, ReadAtAfterFetch DEF Give, ledgerVars, sample, fetchVars, ReadAt
<1>3. results' = [results EXCEPT ![row] = result]
  BY DEF Give
<1>4. results[row] = "none" /\ \A q \in Rows : q < row => results[q] # "none"
  BY <1>1, LedgerAssumption DEF InOrder
<1> QED
  BY <1>2, <1>3, <1>4, ContextIsOldest DEF Promise!Judge, Promise!Rows, Promise!Slots, Promise!sample

(* What bytes and slots decide, the promise decides alike.                 *)
LEMMA LocalIsPromised ==
  ASSUME IInv, phase = "judge"
  PROVE  /\ Local(row) # "none" => Local(row) \in Promise!Verdicts(row, contextSlot)
         /\ Local(row) = "none" =>
              /\ contextSlot \in Nat /\ indexedSlot[row] \in Nat /\ indexedSlot[row] <= contextSlot
              /\ Promise!Verdicts(row, contextSlot) =
                   Promise!ByTouch(row, contextSlot) \cup {Promise!ByLag(row, contextSlot)}
<1> USE LedgerAssumption
<1>1. row \in Rows /\ Len(accounts) = NumRows
  BY DEF IInv, Control
<1>2. accounts[row].data = bytes[row][ReadAt[row]]
  BY <1>1, ReadAtAfterFetch DEF IInv, Reads
<1>3. contextSlot \in Nat /\ (indexedSlot[row] \in Slots \/ indexedSlot[row] = NoSlot)
  BY <1>1, ContextIsOldest DEF IInv, TypeOK
<1> DEFINE held == OnChain(row)
<1>4. held = bytes[row][ReadAt[row]]
  BY <1>2 DEF OnChain
<1>5. CASE held = Absent
  BY <1>4, <1>5 DEF Local, Promise!Verdicts
<1>6. CASE held # Absent /\ held = indexed[row]
  BY <1>4, <1>6 DEF Local, Promise!Verdicts
<1>7. CASE held # Absent /\ held # indexed[row]
  <2>1. Local(row) = IF indexedSlot[row] = NoSlot THEN "no slot"
                     ELSE IF contextSlot < indexedSlot[row] THEN "behind index" ELSE "none"
    BY <1>7 DEF Local
  <2>2. Promise!Verdicts(row, contextSlot) =
          IF indexedSlot[row] = NoSlot THEN {"no slot"}
          ELSE IF contextSlot < indexedSlot[row] THEN {"behind index"}
          ELSE Promise!ByTouch(row, contextSlot) \cup {Promise!ByLag(row, contextSlot)}
    BY <1>4, <1>7 DEF Promise!Verdicts, Promise!NoSlot, NoSlot
  <2>3. CASE indexedSlot[row] = NoSlot
    BY <2>1, <2>2, <2>3
  <2>4. CASE indexedSlot[row] # NoSlot /\ contextSlot < indexedSlot[row]
    BY <2>1, <2>2, <2>4
  <2>5. CASE indexedSlot[row] # NoSlot /\ ~(contextSlot < indexedSlot[row])
    <3>1. contextSlot \in Nat /\ indexedSlot[row] \in Nat /\ indexedSlot[row] <= contextSlot
      BY <1>3, <2>5
    <3> QED
      BY <2>1, <2>2, <2>5, <3>1
  <2> QED
    BY <2>3, <2>4, <2>5
<1> QED
  BY <1>5, <1>6, <1>7

(* A node as far as the merged slot knows a last touch the promise allows. *)
LEMMA KnownTouchJudges ==
  ASSUME IInv, InOrder, NEW n \in Nodes, LastTouchKnown(n)
  PROVE  Promise!Judge(row)
<1>1. phase = "judge" /\ Local(row) = "none" /\ contextSlot <= seen[n]
  BY DEF LastTouchKnown
<1>2. PICK t \in touched[row] :
        /\ IsLastTouch(n, row, t)
        /\ Give(row, IF t <= indexedSlot[row] THEN "untouched since" ELSE "written after")
  BY DEF LastTouchKnown
<1>3. seen[n] \in contextSlot..tip
  BY <1>1, ContextIsOldest, LedgerAssumption DEF IInv, TypeOK, LedgerTypeOK
<1>4. t \in Promise!LastTouches(row, contextSlot)
  BY <1>2, <1>3 DEF IsLastTouch, Promise!LastTouches
<1>5. (IF t <= indexedSlot[row] THEN "untouched since" ELSE "written after")
        \in Promise!ByTouch(row, contextSlot)
  BY <1>4 DEF Promise!ByTouch
<1> QED
  BY <1>1, <1>2, <1>5, LocalIsPromised, GiveJudges

(* Without one, the lag is measured as the promise measures it.            *)
LEMMA UnknownTouchJudges ==
  ASSUME IInv, InOrder, LastTouchUnknown
  PROVE  Promise!Judge(row)
<1> USE ReconcileAssumption
<1>1. phase = "judge" /\ Local(row) = "none"
  BY DEF LastTouchUnknown
<1>2. contextSlot \in Nat /\ indexedSlot[row] \in Nat /\ indexedSlot[row] <= contextSlot
  BY <1>1, LocalIsPromised
<1>3. Give(row, IF contextSlot - indexedSlot[row] = 0 THEN "no lag"
                ELSE IF contextSlot - indexedSlot[row] > MaxSlotLag THEN "beyond lag" ELSE "slot lag")
  BY DEF LastTouchUnknown
<1>4. /\ contextSlot - indexedSlot[row] = 0 <=> contextSlot = indexedSlot[row]
      /\ contextSlot - indexedSlot[row] > MaxSlotLag <=> contextSlot > indexedSlot[row] + MaxSlotLag
      /\ contextSlot > indexedSlot[row] + MaxSlotLag => contextSlot # indexedSlot[row]
  BY <1>2
<1>5. Promise!ByLag(row, contextSlot) =
        IF contextSlot = indexedSlot[row] THEN "no lag"
        ELSE IF contextSlot > indexedSlot[row] + MaxSlotLag THEN "beyond lag" ELSE "slot lag"
  BY <1>4 DEF Promise!ByLag
<1>6. Give(row, Promise!ByLag(row, contextSlot))
  BY <1>3, <1>4, <1>5
<1> QED
  BY <1>1, <1>6, LocalIsPromised, GiveJudges

LEMMA NextPromise ==
  ASSUME IInv, IInv', InOrder, [Next]_vars
  PROVE  [Promise!Next]_(Promise!vars)
<1>1. ASSUME UNCHANGED <<tip, bytes, touched, indexed, indexedSlot, results>>, UNCHANGED ReadAt
      PROVE  UNCHANGED Promise!vars
  BY <1>1 DEF Promise!vars, Promise!sample
<1>2. ASSUME NEW named, phase = "fetch", StartOver(named) PROVE UNCHANGED Promise!vars
  <2>1. ReadAt = << >> /\ ReadAt' = << >>
    BY <1>2, FetchJudgesNothing, ReadAtAfterFetch, LedgerAssumption DEF StartOver, ReadAt
  <2> QED
    BY <1>1, <1>2, <2>1 DEF StartOver, ledgerVars, sample
<1>3. ASSUME NEW n \in Nodes, FetchBatch(n) PROVE Promise!Look \/ UNCHANGED Promise!vars
  <2>1. phase = "fetch" /\ UNCHANGED <<tip, bytes, touched, indexed, indexedSlot, results>>
    BY <1>3 DEF FetchBatch, ledgerVars, sample
  <2>2. ReadAt = << >> /\ \A r \in Rows : results[r] = "none"
    BY <2>1, FetchJudgesNothing, ReadAtAfterFetch
  <2>3. CASE Len(accounts') = NumRows
    <3>1. ASSUME NEW r \in Rows PROVE accounts'[r].slot \in 0..tip
      <4>1. accounts' \in Seq(Account) /\ r \in 1..Len(accounts') /\ tip \in Nat
        BY <2>1, <2>3 DEF IInv, TypeOK, LedgerTypeOK
      <4>2. accounts'[r] \in Account
        BY <4>1
      <4>3. accounts'[r].slot <= tip
        BY <2>1, <4>1 DEF IInv, Reads
      <4> QED
        BY <4>1, <4>2, <4>3, LedgerAssumption DEF Account
    <3>2. ReadAt' = [r \in Rows |-> accounts'[r].slot]
      BY <2>3 DEF ReadAt
    <3>3. ReadAt' \in [Rows -> 0..tip]
      BY <3>1, <3>2
    <3> QED
      BY <2>1, <2>2, <3>3 DEF Promise!Look, Promise!Rows, Promise!sample
  <2>4. CASE Len(accounts') # NumRows
    BY <1>1, <2>1, <2>2, <2>4 DEF ReadAt
  <2> QED
    BY <2>3, <2>4
<1>4. CASE FetchFails
  <2>1. ReadAt = << >> /\ \A r \in Rows : results[r] = "none"
    BY <1>4, FetchJudgesNothing, ReadAtAfterFetch DEF FetchFails
  <2>2. /\ UNCHANGED <<tip, bytes, touched, indexed, indexedSlot, accounts>>
        /\ results' = [r \in Rows |-> "unreachable"]
    BY <1>4 DEF FetchFails, Unreachable, ledgerVars, sample, fetchVars
  <2>3. Promise!GiveUp
    BY <2>1, <2>2 DEF Promise!GiveUp, Promise!Rows, Promise!sample, ReadAt
  <2> QED
    BY <2>3 DEF Promise!Next
<1>5. CASE JudgeLocally
  <2>1. Promise!Judge(row)
    BY <1>5, LocalIsPromised, GiveJudges DEF JudgeLocally
  <2> QED
    BY <1>5, <2>1 DEF Promise!Next, Promise!Rows, JudgeLocally, IInv, Control
<1>6. ASSUME Promise!Judge(row), phase = "judge" PROVE Promise!Next
  BY <1>6 DEF Promise!Next, Promise!Rows, IInv, Control
<1>7. CASE LastTouchUnknown \/ \E n \in Nodes : LastTouchKnown(n)
  BY <1>6, <1>7, KnownTouchJudges, UnknownTouchJudges DEF LastTouchUnknown, LastTouchKnown
<1>8. CASE LedgerStep
  BY <1>8, LedgerStepConfirms DEF Promise!Next
<1>9. CASE UNCHANGED vars
  BY <1>1, <1>9 DEF vars, ledgerVars, sample, fetchVars, ReadAt
<1> QED
  BY <1>2, <1>3, <1>4, <1>5, <1>7, <1>8, <1>9, WrongLengthFails
  DEF Next, Check, BatchTooLong, CapMisread, Promise!Next

(* However a sample was cut into batches, how often the fetch started over *)
(* and whichever nodes answered, the results are those of one look at each *)
(* row: no verdict mixes two tries, two rows or two slots.                 *)
THEOREM ReconcileIsOneLookARow == Spec => OneLookARow
<1>1. Init => InOrder
  BY DEF Init, InOrder
<1> QED
  BY <1>1, IInvHolds, NextKeepsInOrder, InitPromise, NextPromise, PTL
  DEF Spec, OneLookARow, Promise!Spec
-----------------------------------------------------------------------------
(* The front ends take a reconcile as a World, a set of answers: see Gate. *)
(* Its registry plays no part in that.                                     *)
Front == INSTANCE Gate WITH Programs <- {}, Specs <- {}, env <- "none"

StatusOf(result) ==
  IF result = "pass" THEN "Pass" ELSE IF result \in Fails THEN "Fail" ELSE "Skipped"

\* What the calls of a check came to for row r, in the terms of Gate.
Answered(r) ==
  [answer  |-> IF results[r] = "unreachable" THEN "no answer"
               ELSE IF OnChain(r) = Absent THEN "no account"
               ELSE IF OnChain(r) = indexed[r] THEN "same bytes" ELSE "other bytes",
   excused |-> results[r] \in Skips]

(* Every way a check can end is one of the worlds the front ends are       *)
(* checked with: one answer per row, none of them only if there is none at *)
(* all, and the status of each row is what Gate makes of that answer.      *)
EndsInAWorld ==
  phase = "done" =>
    /\ \E w \in Front!Worlds(NumRows) : w.rows = [r \in Rows |-> Answered(r)]
    /\ \A r \in Rows : StatusOf(results[r]) = Front!RowStatus(Answered(r), indexedSlot[r] # NoSlot)

\* What each result says of the bytes that were read, and of the row's slot.
Graded(r) ==
  /\ results[r] = "missing" => OnChain(r) = Absent
  /\ results[r] = "pass" => OnChain(r) # Absent /\ OnChain(r) = indexed[r]
  /\ results[r] \in (Fails \cup Skips) \ {"missing", "unreachable"} =>
       OnChain(r) # Absent /\ OnChain(r) # indexed[r]
  /\ results[r] \in Skips \ {"unreachable"} => indexedSlot[r] # NoSlot

AllEnd ==
  /\ \A r \in Rows : Graded(r)
  /\ \A q, r \in Rows : results[q] = "unreachable" => results[r] = "unreachable"
  /\ phase = "done" => \A r \in Rows : results[r] # "none"

(* A judged row keeps its grade, and the last one judged ends the check.   *)
LEMMA GiveKeepsAllEnd ==
  ASSUME IInv, InOrder, AllEnd, phase = "judge",
         NEW result \in Results \ {"none", "unreachable"}, Give(row, result),
         result = "missing" => OnChain(row) = Absent,
         result = "pass" => OnChain(row) # Absent /\ OnChain(row) = indexed[row],
         result \notin {"missing", "pass"} => OnChain(row) # Absent /\ OnChain(row) # indexed[row],
         result \in Skips => indexedSlot[row] # NoSlot
  PROVE  AllEnd'
<1> USE LedgerAssumption
<1>1. row \in Rows /\ results \in [Rows -> Results]
  BY DEF IInv, Control, TypeOK
<1>2. /\ results' = [results EXCEPT ![row] = result]
      /\ phase' = (IF row = NumRows THEN "done" ELSE "judge")
      /\ UNCHANGED <<indexed, indexedSlot, accounts>>
  BY DEF Give, sample, fetchVars
<1>3. results'[row] = result /\ \A r \in Rows : r # row => results'[r] = results[r]
  BY <1>1, <1>2
<1>4. ASSUME NEW r \in Rows PROVE Graded(r)'
  <2>1. UNCHANGED <<OnChain(r), indexed[r], indexedSlot[r]>>
    BY <1>2 DEF OnChain
  <2>2. CASE r = row
    BY <1>3, <2>1, <2>2 DEF Graded, Results, Fails, Skips
  <2>3. CASE r # row
    BY <1>3, <2>1, <2>3 DEF Graded, AllEnd
  <2> QED
    BY <2>2, <2>3
<1>5. \A r \in Rows : results'[r] # "unreachable"
  BY <1>3 DEF IInv, Control
<1>6. phase' = "done" => \A r \in Rows : results'[r] # "none"
  BY <1>1, <1>2, <1>3 DEF InOrder
<1> QED
  BY <1>4, <1>5, <1>6 DEF AllEnd

LEMMA NextKeepsAllEnd == IInv /\ InOrder /\ AllEnd /\ [Next]_vars => AllEnd'
<1> SUFFICES ASSUME IInv, InOrder, AllEnd, [Next]_vars PROVE AllEnd'
  OBVIOUS
<1>1. ASSUME \A r \in Rows : results'[r] = "none", phase' # "done" PROVE AllEnd'
  BY <1>1 DEF AllEnd, Graded, Fails, Skips
<1>2. ASSUME phase = "fetch", UNCHANGED results, phase' # "done" PROVE AllEnd'
  BY <1>1, <1>2, FetchJudgesNothing
<1>3. CASE \E n \in Nodes : FetchBatch(n) \/ BatchTooLong(n)
  BY <1>2, <1>3 DEF FetchBatch, BatchTooLong, StartOver
<1>4. CASE CapMisread
  BY <1>2, <1>4 DEF CapMisread, StartOver
<1>5. CASE FetchFails
  BY <1>5 DEF FetchFails, Unreachable, AllEnd, Graded, Fails, Skips
<1>6. CASE JudgeLocally
  <2>1. phase = "judge" /\ Local(row) # "none" /\ Give(row, Local(row))
    BY <1>6 DEF JudgeLocally
  <2>2. /\ Local(row) \in {"missing", "pass", "no slot", "behind index"}
        /\ Local(row) = "missing" => OnChain(row) = Absent
        /\ Local(row) = "pass" => OnChain(row) # Absent /\ OnChain(row) = indexed[row]
        /\ Local(row) \notin {"missing", "pass"} => OnChain(row) # Absent /\ OnChain(row) # indexed[row]
        /\ Local(row) = "behind index" => indexedSlot[row] # NoSlot
    BY <2>1 DEF Local
  <2> QED
    BY <2>1, <2>2, GiveKeepsAllEnd DEF Results, Fails, Skips
<1>7. CASE LastTouchUnknown \/ \E n \in Nodes : LastTouchKnown(n)
  <2>1. phase = "judge" /\ Local(row) = "none"
    BY <1>7 DEF LastTouchUnknown, LastTouchKnown
  <2>2. PICK result \in {"untouched since", "written after", "no lag", "beyond lag", "slot lag"} :
          Give(row, result)
    BY <1>7 DEF LastTouchUnknown, LastTouchKnown
  <2>3. OnChain(row) # Absent /\ OnChain(row) # indexed[row] /\ indexedSlot[row] # NoSlot
    BY <2>1 DEF Local
  <2> QED
    BY <2>1, <2>2, <2>3, GiveKeepsAllEnd DEF Results, Fails, Skips
<1>8. CASE LedgerStep \/ UNCHANGED vars
  <2>1. UNCHANGED <<indexed, indexedSlot, accounts, results, phase>>
    BY <1>8 DEF LedgerStep, vars, sample, fetchVars
  <2>2. \A r \in Rows : Graded(r)'
    BY <2>1 DEF AllEnd, Graded, OnChain
  <2> QED
    BY <2>1, <2>2 DEF AllEnd
<1> QED
  BY <1>3, <1>4, <1>5, <1>6, <1>7, <1>8, WrongLengthFails DEF Next, Check

(* However a check ends, the front ends are checked with that end: what is *)
(* proved of them over worlds holds of the calls that make the worlds.     *)
THEOREM ReconcileEndsInAWorld == Spec => []EndsInAWorld
<1>1. Init => InOrder /\ AllEnd
  BY DEF Init, InOrder, AllEnd, Graded, Fails, Skips
<1>2. IInv /\ AllEnd => EndsInAWorld
  <2> SUFFICES ASSUME IInv, AllEnd, phase = "done" PROVE EndsInAWorld
    BY DEF EndsInAWorld
  <2> DEFINE w == [rows |-> [r \in Rows |-> Answered(r)], found |-> "Pass"]
  <2>1. ASSUME NEW r \in Rows
        PROVE  Answered(r) \in Front!RowWorld /\ (Answered(r).answer = "no answer" <=> results[r] = "unreachable")
    BY DEF Answered, Front!RowWorld
  <2>2. w \in Front!Worlds(NumRows)
    BY <2>1 DEF Front!Worlds, Front!Statuses, AllEnd
  <2>3. ASSUME NEW r \in Rows
        PROVE  StatusOf(results[r]) = Front!RowStatus(Answered(r), indexedSlot[r] # NoSlot)
    <3>1. results[r] \in Results \ {"none"} /\ Graded(r)
      BY DEF IInv, TypeOK, AllEnd
    <3> QED
      BY <3>1 DEF StatusOf, Front!RowStatus, Answered, Graded, Results, Fails, Skips
  <2> QED
    BY <2>2, <2>3 DEF EndsInAWorld
<1> QED
  BY <1>1, <1>2, IInvHolds, NextKeepsInOrder, NextKeepsAllEnd, PTL DEF Spec
-----------------------------------------------------------------------------
(* Where the two claims that reconcile_pool and reconcile_behind refute do *)
(* hold.                                                                   *)

\* The last touch comes from a node as far as the row's own read: what
\* minContextSlot would ask for with that slot instead of the merged one.
TouchAsFar ==
  (\E n \in Nodes : LastTouchKnown(n)) =>
    \E n \in Nodes : LastTouchKnown(n) /\ accounts[row].slot <= seen[n]

(* Comparing with NoSlot: it lies above every slot.                        *)
LEMMA SlotOrNone ==
  \A s, t \in Slots \cup {NoSlot} : (t \in Slots /\ s <= t => s \in Slots) /\ (~(t < s) => s <= t)
BY LedgerAssumption DEF NoSlot

LEMMA SlotsOrdered == \A s, t, u \in Slots : s <= t /\ t <= u => s <= u
BY LedgerAssumption

(* A slot that confirms changes nothing that a result was judged by.       *)
LEMMA LedgerKeepsCorrupt ==
  ASSUME IInv, LedgerStep, NEW r \in Rows, results[r] = "untouched since"
  PROVE  Corrupt(r) => Corrupt(r)'
<1> USE LedgerAssumption
<1>1. /\ UNCHANGED <<indexed, indexedSlot>>
      /\ \A s \in Slots : s <= tip => bytes'[r][s] = bytes[r][s]
  BY LedgerGrows DEF IInv, LedgerStep, sample
<1>2. Len(accounts) = NumRows /\ indexedSlot[r] <= contextSlot
  BY DEF IInv, Control, Judged, Sound
<1>3. accounts # << >>
  BY <1>2
<1>4. PICK q \in 1..Len(accounts) : accounts[q].slot = contextSlot
  BY <1>3 DEF IInv, Reads
<1>5. contextSlot \in Slots /\ contextSlot <= tip
  BY <1>4, ReadSlots DEF IInv, Reads
<1>6. tip \in Slots /\ indexedSlot[r] \in Slots \cup {NoSlot}
  BY DEF IInv, TypeOK, LedgerTypeOK
<1>7. indexedSlot[r] \in Slots /\ indexedSlot[r] <= tip
  <2>1. indexedSlot[r] \in Slots
    BY <1>2, <1>5, <1>6, SlotOrNone, Zenon
  <2> QED
    BY <1>2, <1>5, <1>6, <2>1, SlotsOrdered, Zenon
<1> QED
  BY <1>1, <1>7 DEF Corrupt

LEMMA NextKeepsFailIsCorrupt ==
  ASSUME IInv, FailIsCorrupt, [Next]_vars, [TouchAsFar]_vars
  PROVE  FailIsCorrupt'
<1> USE LedgerAssumption
<1>1. ASSUME \A r \in Rows : results'[r] # "untouched since" PROVE FailIsCorrupt'
  BY <1>1 DEF FailIsCorrupt
<1>2. ASSUME phase = "judge", NEW result, Give(row, result), result = "untouched since" => Corrupt(row)
      PROVE  FailIsCorrupt'
  <2>1. row \in Rows /\ results \in [Rows -> Results]
    BY <1>2 DEF IInv, Control, TypeOK
  <2>2. results' = [results EXCEPT ![row] = result] /\ UNCHANGED <<bytes, indexed, indexedSlot>>
    BY <1>2 DEF Give, ledgerVars, sample
  <2> QED
    BY <1>2, <2>1, <2>2 DEF FailIsCorrupt, Corrupt
<1>3. CASE \E n \in Nodes : FetchBatch(n) \/ BatchTooLong(n)
  BY <1>1, <1>3, FetchJudgesNothing DEF FetchBatch, BatchTooLong, StartOver
<1>4. CASE CapMisread
  BY <1>1, <1>4, FetchJudgesNothing DEF CapMisread, StartOver
<1>5. CASE FetchFails
  BY <1>1, <1>5 DEF FetchFails, Unreachable
<1>6. CASE JudgeLocally
  BY <1>2, <1>6 DEF JudgeLocally, Local
<1>7. CASE LastTouchUnknown
  <2>1. PICK result \in {"no lag", "beyond lag", "slot lag"} : Give(row, result)
    BY <1>7 DEF LastTouchUnknown
  <2> QED
    BY <1>2, <1>7, <2>1 DEF LastTouchUnknown
<1>8. CASE LedgerStep
  <2>1. UNCHANGED results
    BY <1>8 DEF LedgerStep
  <2> QED
    BY <1>8, <2>1, LedgerKeepsCorrupt DEF FailIsCorrupt
<1>9. CASE UNCHANGED vars
  BY <1>9 DEF vars, ledgerVars, sample, FailIsCorrupt, Corrupt
<1>10. CASE \E n \in Nodes : LastTouchKnown(n)
  <2>1. phase = "judge" /\ Local(row) = "none" /\ row \in Rows /\ Len(accounts) = NumRows
    BY <1>10 DEF LastTouchKnown, IInv, Control
  <2>2. UNCHANGED vars \/ \E n \in Nodes : LastTouchKnown(n) /\ accounts[row].slot <= seen[n]
    BY <1>10 DEF TouchAsFar
  <2>3. ASSUME NEW n \in Nodes, LastTouchKnown(n), accounts[row].slot <= seen[n] PROVE FailIsCorrupt'
    <3>1. PICK lastTouch \in touched[row] :
            /\ IsLastTouch(n, row, lastTouch)
            /\ Give(row, IF lastTouch <= indexedSlot[row] THEN "untouched since" ELSE "written after")
      BY <2>3 DEF LastTouchKnown
    <3>2. CASE ~(lastTouch <= indexedSlot[row])
      <4>1. Give(row, "written after")
        BY <3>1, <3>2
      <4> QED
        BY <1>2, <2>1, <4>1
    <3>3. CASE lastTouch <= indexedSlot[row]
      <4>1. /\ indexed[row] # accounts[row].data /\ indexedSlot[row] # NoSlot
            /\ ~(contextSlot < indexedSlot[row])
        BY <2>1 DEF Local, OnChain
      <4>2. row \in 1..Len(accounts)
        BY <2>1
      <4>3. accounts[row].slot \in Slots /\ contextSlot <= accounts[row].slot
        BY <4>2, ReadSlots DEF IInv, Reads
      <4>4. /\ indexedSlot[row] \in Slots /\ contextSlot \in Slots \cup {NoSlot}
            /\ seen[n] \in Nat /\ \A u \in touched[row] : u \in Nat
        BY <2>1, <4>1 DEF IInv, TypeOK, LedgerTypeOK
      <4>5. indexedSlot[row] <= accounts[row].slot
        BY <4>1, <4>3, <4>4 DEF NoSlot
      <4>6. ASSUME NEW u \in touched[row] PROVE u <= indexedSlot[row] \/ accounts[row].slot < u
        <5>1. (u <= seen[n] => u <= lastTouch) /\ accounts[row].slot <= seen[n] /\ lastTouch <= indexedSlot[row]
          BY <2>3, <3>1, <3>3 DEF IsLastTouch
        <5>2. u \in Nat /\ lastTouch \in Nat /\ seen[n] \in Nat /\ accounts[row].slot \in Nat /\ indexedSlot[row] \in Nat
          BY <4>3, <4>4
        <5> QED
          BY <5>1, <5>2
      <4>7. Corrupt(row)
        BY <2>1, <4>1, <4>5, <4>6, UntouchedIsCorrupt
      <4>8. Give(row, "untouched since")
        BY <3>1, <3>3
      <4> QED
        BY <1>2, <2>1, <4>7, <4>8
    <3> QED
      BY <3>2, <3>3
  <2> QED
    BY <1>9, <2>2, <2>3
<1> QED
  BY <1>3, <1>4, <1>5, <1>6, <1>7, <1>8, <1>9, <1>10, WrongLengthFails DEF Next, Check

(* "untouched since" names a wrong row in any pool if each last touch is   *)
(* asked of a node as far as the read it is to explain; that the code asks *)
(* with the oldest read's slot is all that reconcile_pool shows.           *)
THEOREM TouchesAsFarFailCorruptRows == Spec /\ [][TouchAsFar]_vars => []FailIsCorrupt
<1>1. Init => FailIsCorrupt
  BY DEF Init, FailIsCorrupt
<1> QED
  BY <1>1, IInvHolds, NextKeepsFailIsCorrupt, PTL DEF Spec

\* A Fail over bytes is of a read from the row's slot on.
BytesFailAfterTheIndex ==
  \A r \in Rows :
    results[r] \in Fails \ {"missing"} /\ indexedSlot[r] <= tip => indexedSlot[r] <= accounts[r].slot

\* The same against the merged slot, in which it is judged.
BytesFailInOrder ==
  \A r \in Rows :
    /\ results[r] \in {"untouched since", "no lag", "beyond lag"} => indexedSlot[r] <= contextSlot
    /\ results[r] = "no slot" => indexedSlot[r] = NoSlot

LEMMA NextKeepsBytesFailInOrder ==
  ASSUME IInv, BytesFailInOrder, [Next]_vars
  PROVE  BytesFailInOrder'
<1> USE LedgerAssumption
<1>1. ASSUME \A r \in Rows : results'[r] \in {"none", "unreachable"} PROVE BytesFailInOrder'
  BY <1>1 DEF BytesFailInOrder
<1>2. ASSUME phase = "judge", NEW result, Give(row, result),
             result \in {"untouched since", "no lag", "beyond lag"} => indexedSlot[row] <= contextSlot,
             result = "no slot" => indexedSlot[row] = NoSlot
      PROVE  BytesFailInOrder'
  <2>1. row \in Rows /\ results \in [Rows -> Results]
    BY <1>2 DEF IInv, Control, TypeOK
  <2>2. results' = [results EXCEPT ![row] = result] /\ UNCHANGED <<indexedSlot, contextSlot>>
    BY <1>2 DEF Give, fetchVars, sample
  <2> QED
    BY <1>2, <2>1, <2>2 DEF BytesFailInOrder
<1>3. CASE \E n \in Nodes : FetchBatch(n) \/ BatchTooLong(n)
  BY <1>1, <1>3, FetchJudgesNothing DEF FetchBatch, BatchTooLong, StartOver
<1>4. CASE CapMisread
  BY <1>1, <1>4, FetchJudgesNothing DEF CapMisread, StartOver
<1>5. CASE FetchFails
  BY <1>1, <1>5 DEF FetchFails, Unreachable
<1>6. CASE JudgeLocally
  BY <1>2, <1>6 DEF JudgeLocally, Local
<1>7. CASE LastTouchUnknown \/ \E n \in Nodes : LastTouchKnown(n)
  <2>1. phase = "judge" /\ Local(row) = "none"
    BY <1>7 DEF LastTouchUnknown, LastTouchKnown
  <2>2. PICK result \in {"untouched since", "written after", "no lag", "beyond lag", "slot lag"} :
          Give(row, result)
    BY <1>7 DEF LastTouchUnknown, LastTouchKnown
  <2>3. ~(contextSlot < indexedSlot[row]) /\ indexedSlot[row] # NoSlot /\ row \in Rows
    BY <2>1 DEF Local, IInv, Control
  <2>4. indexedSlot[row] \in Slots \cup {NoSlot} /\ contextSlot \in Slots \cup {NoSlot}
    BY <2>3 DEF IInv, TypeOK
  <2>5. indexedSlot[row] <= contextSlot
    BY <2>3, <2>4, SlotOrNone, Zenon
  <2> QED
    BY <1>2, <2>1, <2>2, <2>5
<1>8. CASE LedgerStep \/ UNCHANGED vars
  BY <1>8 DEF LedgerStep, vars, sample, fetchVars, BytesFailInOrder
<1> QED
  BY <1>3, <1>4, <1>5, <1>6, <1>7, <1>8, WrongLengthFails DEF Next, Check

(* A chain read older than the indexed slot never fails a row over its     *)
(* bytes, right or wrong: only an account found missing can be failed that *)
(* way, which is what reconcile_behind shows.                              *)
THEOREM OnlyMissingFailsEarly ==
  Spec => [](BytesFailAfterTheIndex /\ ((\A r \in Rows : results[r] # "missing") => OlderReadNeverFails))
<1>1. Init => BytesFailInOrder
  BY DEF Init, BytesFailInOrder
<1>2. IInv /\ BytesFailInOrder => BytesFailAfterTheIndex
  <2> SUFFICES ASSUME IInv, BytesFailInOrder, NEW r \in Rows,
                      results[r] \in Fails \ {"missing"}, indexedSlot[r] <= tip
               PROVE  indexedSlot[r] <= accounts[r].slot
    BY DEF BytesFailAfterTheIndex
  <2> USE LedgerAssumption
  <2>1. r \in 1..Len(accounts)
    BY DEF IInv, Control, Judged, Fails
  <2>2. accounts[r].slot \in Slots /\ contextSlot <= accounts[r].slot
    BY <2>1, ReadSlots DEF IInv, Reads
  <2>3. tip \in Slots /\ indexedSlot[r] \in Slots \cup {NoSlot} /\ contextSlot \in Slots \cup {NoSlot}
    BY DEF IInv, TypeOK, LedgerTypeOK
  <2>4. results[r] # "no slot"
    <3>1. indexedSlot[r] # NoSlot
      BY <2>3 DEF NoSlot
    <3> QED
      BY <3>1 DEF BytesFailInOrder
  <2>5. indexedSlot[r] <= contextSlot
    BY <2>4 DEF BytesFailInOrder, Fails
  <2> QED
    BY <2>2, <2>3, <2>5 DEF NoSlot
<1>3. BytesFailAfterTheIndex /\ (\A r \in Rows : results[r] # "missing") => OlderReadNeverFails
  BY DEF BytesFailAfterTheIndex, OlderReadNeverFails
<1> QED
  BY <1>1, <1>2, <1>3, IInvHolds, NextKeepsBytesFailInOrder, PTL DEF Spec
=============================================================================
