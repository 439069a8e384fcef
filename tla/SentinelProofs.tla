--------------------------- MODULE SentinelProofs ---------------------------
(***************************************************************************)
(* karat sentinel for any program, sample size, batch and key caps: the    *)
(* sample is as asked, and the exit code is worth what its comment says.   *)
(***************************************************************************)
EXTENDS Sentinel, FiniteSetTheorems, SequenceTheorems, TLAPS

(* The sample's arithmetic. ----------------------------------------------- *)

LEMMA DivFits ==
  ASSUME NEW m \in Nat, NEW s \in Nat \ {0}, s <= m
  PROVE  m \div s \in Nat \ {0} /\ s * (m \div s) <= m
<1>1. m \div s \in Nat /\ s * (m \div s) <= m /\ m < s * (m \div s) + s
  OBVIOUS
<1> QED
  BY <1>1

(* A stride of k leaves s keys of m when s strides fit.                    *)
LEMMA DivSteps ==
  ASSUME NEW m \in Nat, NEW s \in Nat \ {0}, NEW k \in Nat \ {0}, s * k <= m
  PROVE  (m + k - 1) \div k \in Nat /\ s <= (m + k - 1) \div k
<1> DEFINE q == (m + k - 1) \div k
<1>1. q \in Nat /\ m + k - 1 < k * q + k
  OBVIOUS
<1>2. s * k < (q + 1) * k
  BY <1>1
<1>3. ~ q < s
  <2> SUFFICES ASSUME q + 1 <= s PROVE FALSE
    BY <1>1
  <2>1. (q + 1) * k <= s * k
    BY <1>1
  <2> QED
    BY <1>1, <1>2, <2>1
<1> QED
  BY <1>1, <1>3

LEMMA StepsInside ==
  ASSUME NEW m \in Nat, NEW s \in Nat \ {0}, NEW k \in Nat \ {0}, s * k <= m,
         NEW i \in 1..s, NEW j \in 1..s
  PROVE  /\ (i - 1) * k + 1 \in 1..m
         /\ (i - 1) * k + 1 = (j - 1) * k + 1 => i = j
<1>1. (i - 1) * k \in Int /\ 0 <= (i - 1) * k /\ (i - 1) * k <= (s - 1) * k
  OBVIOUS
<1>2. (s - 1) * k = s * k - k /\ s * k \in Nat
  OBVIOUS
<1>3. (i - 1) * k = (j - 1) * k => i = j
  OBVIOUS
<1> QED
  BY <1>1, <1>2, <1>3

(* step_by and take leave as many keys as asked for or as there are, each  *)
(* of the listing and none twice.                                          *)
LEMMA ChosenIsAsAsked ==
  ASSUME NEW m \in Nat, NEW S, NEW keys \in Bijection(1..m, S), sampleSize \in Nat
  PROVE  /\ Chosen(keys, m) \in Seq(S)
         /\ Len(Chosen(keys, m)) = Lower(sampleSize, m)
         /\ \A i, j \in DOMAIN Chosen(keys, m) :
               Chosen(keys, m)[i] = Chosen(keys, m)[j] => i = j
<1> DEFINE size == Lower(sampleSize, m)
           k == Stride(m)
<1>0. keys \in [1..m -> S] /\ \A a, b \in 1..m : keys[a] = keys[b] => a = b
  BY DEF Bijection, Injection, IsInjective
<1>1. k \in Nat \ {0} /\ size \in Nat /\ size * k <= m
  <2>1. CASE sampleSize = 0 \/ m <= sampleSize
    BY <2>1 DEF Stride, Lower
  <2>2. CASE sampleSize # 0 /\ sampleSize < m
    BY <2>2, DivFits DEF Stride, Lower
  <2> QED
    BY <2>1, <2>2
<1>2. Lower(sampleSize, Stepped(m)) = size
  <2>1. CASE sampleSize = 0 \/ m <= sampleSize
    <3>1. (m + 1 - 1) \div 1 = m
      OBVIOUS
    <3> QED
      BY <2>1, <3>1 DEF Stepped, Stride, Lower
  <2>2. CASE sampleSize # 0 /\ sampleSize < m
    <3>1. size = sampleSize
      BY <2>2 DEF Lower
    <3>2. Stepped(m) \in Nat /\ sampleSize <= Stepped(m)
      BY <1>1, <2>2, <3>1, DivSteps DEF Stepped
    <3> QED
      BY <3>1, <3>2 DEF Lower
  <2> QED
    BY <2>1, <2>2
<1> HIDE DEF size, k
<1>3. \A i, j \in 1..size : /\ (i - 1) * k + 1 \in 1..m
                            /\ (i - 1) * k + 1 = (j - 1) * k + 1 => i = j
  <2> TAKE i, j \in 1..size
  <2>1. size \in Nat \ {0}
    BY <1>1
  <2> QED
    BY <1>1, <2>1, StepsInside
<1>4. Chosen(keys, m) = [i \in 1..size |-> keys[(i - 1) * k + 1]]
  BY <1>2 DEF Chosen, k
<1>5. Chosen(keys, m) \in [1..size -> S]
  BY <1>0, <1>3, <1>4
<1>6. Chosen(keys, m) \in Seq(S) /\ Len(Chosen(keys, m)) = size /\ DOMAIN Chosen(keys, m) = 1..size
  BY <1>1, <1>5
<1>7. ASSUME NEW i \in 1..size, NEW j \in 1..size, Chosen(keys, m)[i] = Chosen(keys, m)[j]
      PROVE  i = j
  BY <1>0, <1>3, <1>4, <1>7
<1> QED
  BY <1>6, <1>7 DEF size
(* Between two keys that are taken lie fewer than a stride, and past the   *)
(* last stride fewer keys than were asked for: the sample is strided       *)
(* across the listing.  But with fewer than two keys for each one asked    *)
(* for the stride is 1, and the sample is what the comment on              *)
(* sample_accounts says it is not, the first of the listing.               *)
THEOREM SampleReach ==
  ASSUME NEW m \in Nat, NEW S, NEW keys \in Bijection(1..m, S),
         sampleSize \in Nat \ {0}, sampleSize < m
  PROVE  /\ m - sampleSize * Stride(m) < sampleSize
         /\ \A p \in 1..(sampleSize * Stride(m)) :
               \E i \in 1..sampleSize : /\ Chosen(keys, m)[i] = keys[(i - 1) * Stride(m) + 1]
                                       /\ (i - 1) * Stride(m) < p /\ p <= i * Stride(m)
         /\ m < 2 * sampleSize => Chosen(keys, m) = [i \in 1..sampleSize |-> keys[i]]
<1> DEFINE s == sampleSize
           k == Stride(m)
<1>1. s \in Nat \ {0} /\ s < m /\ k = m \div s
  BY DEF Stride
<1>2. k \in Nat \ {0} /\ s * k <= m /\ m < s * k + s
  <2>1. m \div s \in Nat /\ s * (m \div s) <= m /\ m < s * (m \div s) + s
    BY <1>1
  <2> QED
    BY <1>1, <2>1, DivFits
<1>3. Chosen(keys, m) = [i \in 1..s |-> keys[(i - 1) * k + 1]]
  <2>1. Stepped(m) \in Nat /\ s <= Stepped(m)
    BY <1>1, <1>2, DivSteps DEF Stepped
  <2>2. Lower(sampleSize, Stepped(m)) = s
    BY <2>1 DEF Lower
  <2> QED
    BY <2>2 DEF Chosen
<1>4. ASSUME NEW p \in 1..(s * k)
      PROVE  \E i \in 1..s : (i - 1) * k < p /\ p <= i * k
  <2> DEFINE q == (p - 1) \div k
  <2>1. q \in Nat /\ k * q <= p - 1 /\ p - 1 < k * q + k
    BY <1>2, <1>4
  <2> HIDE DEF q, s, k
  <2>2. ~ s <= q
    <3> SUFFICES ASSUME s <= q PROVE FALSE
      OBVIOUS
    <3>1. s * k <= k * q
      BY <1>1, <1>2, <2>1
    <3> QED
      BY <1>1, <1>2, <1>4, <2>1, <3>1
  <2>3. q + 1 \in 1..s /\ (q + 1) * k = k * q + k /\ ((q + 1) - 1) * k = k * q
    BY <1>1, <1>2, <2>1, <2>2
  <2>4. ((q + 1) - 1) * k < p /\ p <= (q + 1) * k
    BY <1>2, <1>4, <2>1, <2>3
  <2> QED
    BY <2>3, <2>4
<1>5. ASSUME m < 2 * s PROVE k = 1
  <2>1. s * k < 2 * s
    BY <1>1, <1>2, <1>5
  <2>2. ~ 2 <= k
    <3> SUFFICES ASSUME 2 <= k PROVE FALSE
      OBVIOUS
    <3>1. s * 2 <= s * k
      BY <1>1, <1>2
    <3> QED
      BY <1>1, <1>2, <2>1, <3>1
  <2> QED
    BY <1>2, <2>2
<1>6. ASSUME k = 1 PROVE Chosen(keys, m) = [i \in 1..s |-> keys[i]]
  <2>1. \A i \in 1..s : (i - 1) * 1 + 1 = i
    BY <1>1
  <2> QED
    BY <1>3, <1>6, <2>1
<1>7. m - s * k < s
  BY <1>1, <1>2
<1>8. \A i \in 1..s : Chosen(keys, m)[i] = keys[(i - 1) * k + 1]
  BY <1>3
<1> HIDE DEF s, k
<1>9. \A p \in 1..(s * k) :
        \E i \in 1..s : Chosen(keys, m)[i] = keys[(i - 1) * k + 1] /\ (i - 1) * k < p /\ p <= i * k
  BY <1>4, <1>8
<1> QED
  BY <1>5, <1>6, <1>7, <1>9 DEF s, k
-----------------------------------------------------------------------------
(* The inductive invariant.                                                *)

\* Account r held content of C at some confirmed slot.
Held(r, C) == \E s \in 0..tip : bytes[r][s] \in C

\* What is read of the batch in hand was held by the account of its place.
PartIsHeld == \A i \in DOMAIN part : Held(chosen[looked + i], {part[i]})

\* The counts differ by accounts that failed, and agree when none did.
CountsAreHeld ==
  IF fetched = passed THEN \A i \in 1..looked : Held(chosen[i], Passing \cup {Absent})
                      ELSE \E i \in 1..looked : Held(chosen[i], Values \ Passing)

\* The deploy slot, once read, is of a deploy no earlier than the final ones.
DeployIsLast == deploySlot \in deploys /\ \A d \in deploys : d <= final => d <= deploySlot

Control ==
  /\ stage = "end" <=> exit # "none"
  /\ stage \in {"program", "program data", "list"} => chosen = << >> /\ part = << >>
  /\ stage \in {"list", "fetch"} => DeployIsLast /\ sampleSize # NoSample
  /\ stage = "fetch" => Len(part) < InHand
  /\ stage = "program data" => upgradeable
  /\ exit = "flagged" => (DeployedAfter(deploySlot) /\ deploySlot \in deploys) \/ fetched # passed
  /\ exit = "clean" /\ upgradeable =>
       /\ ~DeployedAfter(deploySlot) /\ DeployIsLast
       /\ fetched = passed
       /\ sampleSize # NoSample => looked = Len(chosen)

SInv ==
  /\ TypeOK
  /\ \A n \in Nodes : final <= rooted[n]
  /\ ~upgradeable => deploys = {0}
  /\ Control /\ PartIsHeld /\ CountsAreHeld
  /\ SampleIsAsAsked

USE DEF Rows, Slots

(* Slots and nodes' progress are numbers in their order.                   *)
LEMMA SInvNumbers ==
  ASSUME SInv
  PROVE  /\ tip \in Nat /\ MaxSlot \in Nat /\ tip <= MaxSlot
         /\ final \in Nat /\ final <= tip
         /\ \A d \in deploys : d \in Nat /\ d <= tip
         /\ \A n \in Nodes : /\ seen[n] \in Nat /\ seen[n] <= tip
                             /\ rooted[n] \in Nat /\ rooted[n] <= seen[n] /\ final <= rooted[n]
         /\ Len(chosen) \in Nat /\ Len(part) \in Nat
         /\ DOMAIN chosen = 1..Len(chosen) /\ DOMAIN part = 1..Len(part)
         /\ \A i \in 1..Len(chosen) : chosen[i] \in Rows
         /\ looked \in Nat /\ looked + Len(part) <= Len(chosen)
         /\ fetched \in Nat /\ fetched <= looked /\ passed \in Nat /\ passed <= fetched
         /\ NumRows \in Nat
<1> USE LedgerAssumption
<1>1. /\ tip \in Slots /\ seen \in [Nodes -> 0..tip] /\ final \in 0..tip
      /\ deploys \in SUBSET (0..tip) /\ rooted \in [Nodes -> Slots]
      /\ \A n \in Nodes : rooted[n] <= seen[n] /\ final <= rooted[n]
  BY DEF SInv, TypeOK, LedgerTypeOK, ProgramTypeOK
<1>2. /\ chosen \in Seq(1..NumRows) /\ part \in Seq(Bytes) /\ looked \in 0..Len(chosen)
      /\ looked + Len(part) <= Len(chosen) /\ fetched \in 0..looked /\ passed \in 0..fetched
  BY DEF SInv, TypeOK
<1>3. /\ Len(chosen) \in Nat /\ DOMAIN chosen = 1..Len(chosen)
      /\ Len(part) \in Nat /\ DOMAIN part = 1..Len(part)
      /\ \A i \in 1..Len(chosen) : chosen[i] \in Rows
  BY <1>2
<1> QED
  BY <1>1, <1>2, <1>3

LEMMA InitSInv == Init => SInv
<1> SUFFICES ASSUME Init PROVE SInv
  OBVIOUS
<1>1. /\ tip = 0 /\ seen = [n \in Nodes |-> 0] /\ rooted = [n \in Nodes |-> 0]
      /\ MaxSlot \in Nat /\ MaxSample \in Nat /\ MaxKeys \in Nat \ {0} /\ MaxBatch \in Nat \ {0}
  BY LedgerAssumption, SentinelAssumption DEF Init, LedgerInit, ProgramInit
<1>2. LedgerTypeOK /\ ProgramTypeOK
  BY <1>1 DEF Init, LedgerInit, ProgramInit, LedgerTypeOK, ProgramTypeOK, Bytes
<1>3. chosen \in Seq(1..NumRows) /\ part \in Seq(Bytes) /\ Len(chosen) = 0 /\ Len(part) = 0
  BY DEF Init
<1>4. TypeOK
  BY <1>1, <1>2, <1>3 DEF Init, TypeOK, NoSlot, NoSample
<1>5. Control
  BY DEF Init, Control
<1>6. PartIsHeld /\ CountsAreHeld
  BY <1>3 DEF Init, PartIsHeld, CountsAreHeld
<1> QED
  BY <1>1, <1>4, <1>5, <1>6 DEF Init, ProgramInit, SInv, SampleIsAsAsked

(* The chain only adds to what was held, and what was final stays first.   *)
LEMMA ChainGrows ==
  ASSUME SInv, ChainMoves
  PROVE  /\ LedgerTypeOK' /\ ProgramTypeOK'
         /\ tip <= tip' /\ \A r \in Rows, s \in 0..tip : bytes'[r][s] = bytes[r][s]
         /\ UNCHANGED upgradeable
         /\ deploys' = deploys \/ (upgradeable /\ tip' = tip + 1 /\ deploys' = deploys \cup {tip + 1})
         /\ \A n \in Nodes : rooted[n] <= rooted'[n] /\ rooted'[n] \in Nat
<1> USE LedgerAssumption DEF LedgerTypeOK, ProgramTypeOK
<1>0. LedgerTypeOK /\ ProgramTypeOK
  BY DEF SInv, TypeOK
<1>1. ASSUME LedgerNext
      PROVE  /\ LedgerTypeOK' /\ tip <= tip' /\ (tip' = tip \/ tip' = tip + 1)
             /\ \A r \in Rows, s \in 0..tip : bytes'[r][s] = bytes[r][s]
             /\ \A n \in Nodes : seen[n] <= seen'[n]
  <2>1. CASE ConfirmIdle
    BY <1>0, <2>1 DEF ConfirmIdle
  <2>2. ASSUME NEW r \in Rows, ConfirmTouch(r)
        PROVE  /\ LedgerTypeOK' /\ tip' = tip + 1 /\ seen' = seen
               /\ \A q \in Rows, s \in 0..tip : bytes'[q][s] = bytes[q][s]
    <3>1. PICK v \in Bytes :
            bytes' = [bytes EXCEPT ![r] = [s \in Slots |-> IF s <= tip THEN @[s] ELSE v]]
      BY <2>2 DEF ConfirmTouch
    <3>2. /\ tip' = tip + 1 /\ tip' \in Slots /\ seen' = seen
          /\ touched' = [touched EXCEPT ![r] = @ \cup {tip + 1}]
      BY <1>0, <2>2 DEF ConfirmTouch
    <3>3. bytes' \in [Rows -> [Slots -> Bytes]]
      BY <1>0, <3>1
    <3>4. touched' \in [Rows -> SUBSET (1..tip')] /\ seen' \in [Nodes -> 0..tip']
      BY <1>0, <3>2
    <3>5. \A q \in Rows, s \in 0..tip : bytes'[q][s] = bytes[q][s]
      BY <1>0, <3>1
    <3> QED
      BY <3>2, <3>3, <3>4, <3>5
  <2>3. ASSUME NEW n \in Nodes, CatchUp(n)
        PROVE  /\ LedgerTypeOK' /\ UNCHANGED <<tip, bytes>>
               /\ \A p \in Nodes : seen[p] <= seen'[p]
    <3>1. PICK s \in (seen[n] + 1)..tip : seen' = [seen EXCEPT ![n] = s]
      BY <2>3 DEF CatchUp
    <3>2. UNCHANGED <<tip, bytes, touched>>
      BY <2>3 DEF CatchUp
    <3> QED
      BY <1>0, <3>1, <3>2
  <2>4. CASE \E r \in Rows : ConfirmTouch(r)
    BY <1>0, <2>2, <2>4
  <2>5. CASE \E n \in Nodes : CatchUp(n)
    BY <1>0, <2>3, <2>5
  <2> QED
    BY <1>1, <2>1, <2>4, <2>5 DEF LedgerNext
<1>2. CASE LedgerNext /\ UNCHANGED programVars
  <2>1. \A n \in Nodes : rooted[n] \in Nat /\ rooted[n] <= seen[n] /\ seen[n] \in Nat /\ seen'[n] \in Nat
    BY <1>0, <1>1, <1>2
  <2>2. deploys' = deploys /\ rooted' = rooted /\ upgradeable' = upgradeable
    BY <1>2 DEF programVars
  <2>3. \A n \in Nodes : rooted[n] <= seen'[n]
    BY <1>1, <1>2, <2>1
  <2>4. deploys \in SUBSET (0..tip')
    BY <1>0, <1>1, <1>2
  <2> QED
    BY <1>0, <1>1, <1>2, <2>1, <2>2, <2>3, <2>4
<1>3. CASE Redeploy
  <2>1. LedgerNext /\ tip' = tip + 1 /\ UNCHANGED <<bytes, touched, seen, upgradeable, rooted>>
    BY <1>3 DEF Redeploy, LedgerNext, ConfirmIdle
  <2>2. upgradeable /\ deploys' = deploys \cup {tip + 1}
    BY <1>3 DEF Redeploy
  <2> QED
    BY <1>0, <1>1, <2>1, <2>2
<1>4. ASSUME NEW n \in Nodes, Root(n)
      PROVE  /\ rooted' \in [Nodes -> Slots] /\ UNCHANGED <<ledgerVars, upgradeable, deploys>>
             /\ \A p \in Nodes : rooted[p] <= rooted'[p] /\ rooted'[p] <= seen[p]
  <2>1. PICK s \in (rooted[n] + 1)..seen[n] : rooted' = [rooted EXCEPT ![n] = s]
    BY <1>4 DEF Root
  <2>2. UNCHANGED <<ledgerVars, upgradeable, deploys>> /\ s \in Slots
    BY <1>0, <1>4, <2>1 DEF Root
  <2>3. ASSUME NEW p \in Nodes PROVE rooted[p] <= rooted'[p] /\ rooted'[p] <= seen[p]
    <3>1. /\ rooted[p] \in Nat /\ seen[p] \in Nat /\ rooted[p] <= seen[p]
          /\ rooted'[p] = IF p = n THEN s ELSE rooted[p]
      BY <1>0, <2>1
    <3> QED
      BY <2>1, <3>1
  <2>4. rooted' \in [Nodes -> Slots]
    BY <1>0, <2>1, <2>2
  <2> QED
    BY <2>2, <2>3, <2>4
<1>5. CASE \E n \in Nodes : Root(n)
  <2>1. /\ UNCHANGED <<tip, bytes, touched, seen, upgradeable, deploys>>
        /\ rooted' \in [Nodes -> Slots]
        /\ \A p \in Nodes : rooted[p] <= rooted'[p] /\ rooted'[p] <= seen'[p]
    BY <1>4, <1>5 DEF ledgerVars
  <2>2. LedgerTypeOK' /\ ProgramTypeOK'
    BY <1>0, <2>1
  <2>3. tip <= tip' /\ \A n \in Nodes : rooted'[n] \in Nat
    BY <1>0, <2>1
  <2> QED
    BY <2>1, <2>2, <2>3
<1> QED
  BY <1>2, <1>3, <1>5 DEF ChainMoves, ProgramNext

LEMMA HeldStays ==
  ASSUME SInv, ChainMoves, NEW r \in Rows, NEW C, Held(r, C)
  PROVE  Held(r, C)'
<1>1. PICK s \in 0..tip : bytes[r][s] \in C
  BY DEF Held
<1>2. tip \in Nat /\ tip' \in Nat
  BY ChainGrows, SInvNumbers, LedgerAssumption DEF LedgerTypeOK
<1>3. s \in 0..tip' /\ bytes'[r][s] \in C
  BY <1>1, <1>2, ChainGrows
<1> QED
  BY <1>3 DEF Held

(* The counts and the batch in hand rest on what was held, and the deploys *)
(* that were final at the start are the same.                              *)
LEMMA ChainKeepsSInv == ASSUME SInv, ChainMoves PROVE SInv'
<1>1. /\ UNCHANGED <<since, sampleSize, stage, deploySlot, matched, chosen, looked, part>>
      /\ UNCHANGED <<batchLimit, fetched, passed, exit>>
      /\ stage # "program" => final' = final
      /\ stage = "program" => \A n \in Nodes : final' <= rooted'[n]
      /\ \E n \in Nodes : final' = rooted'[n] \/ final' = final
  BY DEF ChainMoves, argVars, sampleVars
<1>2. /\ tip' \in Nat /\ tip <= tip' /\ deploys' \in SUBSET (0..tip')
      /\ \A n \in Nodes : rooted'[n] \in Nat /\ seen'[n] \in 0..tip' /\ rooted'[n] <= seen'[n]
  BY ChainGrows, LedgerAssumption DEF LedgerTypeOK, ProgramTypeOK
<1>3. final' \in 0..tip' /\ \A n \in Nodes : final' <= rooted'[n]
  <2>1. CASE final' = final /\ stage # "program"
    <3>1. \A n \in Nodes : /\ final <= rooted[n] /\ rooted[n] <= rooted'[n]
                           /\ rooted[n] \in Nat /\ rooted'[n] \in Nat
      BY ChainGrows, SInvNumbers
    <3>2. final \in Nat /\ final <= tip /\ tip \in Nat
      BY SInvNumbers
    <3> QED
      BY <1>2, <2>1, <3>1, <3>2
  <2>2. CASE stage = "program"
    <3>1. PICK n \in Nodes : final' = rooted'[n] \/ final' = final
      BY <1>1
    <3> QED
      BY <1>1, <1>2, <2>2, <3>1, SInvNumbers
  <2> QED
    BY <1>1, <2>1, <2>2
<1>4. deploys \subseteq deploys' /\ \A d \in deploys' : d <= tip => d \in deploys
  BY ChainGrows, SInvNumbers
<1>5. TypeOK'
  <2>1. LedgerTypeOK' /\ ProgramTypeOK'
    BY ChainGrows
  <2>2. deploySlot \in deploys' \cup {NoSlot}
    BY <1>4 DEF SInv, TypeOK
  <2> QED
    BY <1>1, <1>3, <2>1, <2>2 DEF SInv, TypeOK, NoSlot, NoSample
<1>6. ~upgradeable' => deploys' = {0}
  BY ChainGrows DEF SInv
<1>7. \A i \in 1..Len(chosen) : chosen[i] \in Rows
  BY SInvNumbers
<1>8. PartIsHeld'
  <2> SUFFICES ASSUME NEW i \in DOMAIN part PROVE Held(chosen[looked + i], {part[i]})'
    BY <1>1 DEF PartIsHeld, Held
  <2>1. looked + i \in 1..Len(chosen) /\ Held(chosen[looked + i], {part[i]})
    <3>1. /\ DOMAIN part = 1..Len(part) /\ Len(part) \in Nat /\ Len(chosen) \in Nat
          /\ looked \in Nat /\ looked + Len(part) <= Len(chosen)
      BY SInvNumbers
    <3>2. looked + i \in 1..Len(chosen)
      BY <3>1
    <3>3. Held(chosen[looked + i], {part[i]})
      BY DEF SInv, PartIsHeld
    <3> QED
      BY <3>2, <3>3
  <2> QED
    BY <1>1, <1>7, <2>1, HeldStays DEF Held
<1>9. CountsAreHeld'
  <2>1. \A i \in 1..looked : chosen[i] \in Rows
    BY <1>7, SInvNumbers
  <2>2. CASE fetched = passed
    BY <1>1, <2>1, <2>2, HeldStays DEF SInv, CountsAreHeld, Held
  <2>3. CASE fetched # passed
    BY <1>1, <2>1, <2>3, HeldStays DEF SInv, CountsAreHeld, Held
  <2> QED
    BY <2>2, <2>3
<1>10. DeployIsLast /\ stage # "program" => DeployIsLast'
  <2>1. final \in Nat /\ final <= tip /\ tip \in Nat /\ \A d \in deploys' : d \in Nat
    BY <1>2, SInvNumbers
  <2> QED
    BY <1>1, <1>4, <2>1 DEF DeployIsLast
<1>11. Control'
  <2>1. stage = "program" => exit = "none"
    BY DEF SInv, Control
  <2>2. upgradeable' = upgradeable
    BY ChainGrows
  <2>3. /\ stage \in {"list", "fetch"} => DeployIsLast'
        /\ exit = "clean" /\ upgradeable => DeployIsLast'
    BY <1>10, <2>1 DEF SInv, Control
  <2>4. InHand' = InHand /\ \A d : DeployedAfter(d)' = DeployedAfter(d)
    BY <1>1 DEF InHand, DeployedAfter
  <2> QED
    BY <1>1, <1>4, <2>2, <2>3, <2>4 DEF SInv, Control, NoSample, DeployedAfter
<1> QED
  BY <1>1, <1>3, <1>5, <1>6, <1>8, <1>9, <1>11 DEF SInv, SampleIsAsAsked
-----------------------------------------------------------------------------
(* The steps of the command.                                               *)

(* While the chain stands still nothing changes in what it held.           *)
LEMMA StandsStill ==
  ASSUME SInv, UNCHANGED chainVars, UNCHANGED final
  PROVE  /\ LedgerTypeOK' /\ ProgramTypeOK'
         /\ \A n \in Nodes : final' <= rooted'[n]
         /\ ~upgradeable' => deploys' = {0}
         /\ UNCHANGED <<deploys, upgradeable, tip, bytes>>
BY DEF SInv, TypeOK, LedgerTypeOK, ProgramTypeOK, chainVars, ledgerVars, programVars

LEMMA ReadProgramKeepsSInv == ASSUME SInv, ReadProgram PROVE SInv'
<1>1. /\ UNCHANGED <<since, sampleSize, deploySlot, matched, chosen, looked, part>>
      /\ UNCHANGED <<batchLimit, fetched, passed, final>> /\ UNCHANGED chainVars
      /\ stage = "program"
      /\ \/ upgradeable /\ stage' = "program data" /\ exit' = exit
         \/ ~upgradeable /\ stage' = "end" /\ exit' = "clean"
  BY DEF ReadProgram, argVars, sampleVars
<1>2. TypeOK'
  BY <1>1, StandsStill DEF SInv, TypeOK, NoSlot, NoSample
<1>3. Control'
  <2>1. chosen = << >> /\ part = << >> /\ exit = "none"
    BY <1>1 DEF SInv, Control
  <2>2. upgradeable' = upgradeable /\ chosen' = << >> /\ part' = << >>
    BY <1>1, <2>1, StandsStill
  <2>3. CASE upgradeable /\ stage' = "program data" /\ exit' = "none"
    BY <2>2, <2>3 DEF Control
  <2>4. CASE ~upgradeable /\ stage' = "end" /\ exit' = "clean"
    BY <2>2, <2>4 DEF Control
  <2> QED
    BY <1>1, <2>1, <2>3, <2>4
<1> QED
  BY <1>1, <1>2, <1>3, StandsStill DEF SInv, PartIsHeld, CountsAreHeld, Held, SampleIsAsAsked

\* Nothing counted yet, so the exit code goes by the deploy alone.
LEMMA ReadProgramDataKeepsSInv ==
  ASSUME SInv, NEW n \in Nodes, ReadProgramData(n)
  PROVE  SInv'
<1>1. PICK d \in deploys : IsLastDeploy(n, d) /\ deploySlot' = d
  BY DEF ReadProgramData
<1>2. /\ UNCHANGED <<since, sampleSize, matched, chosen, looked, part>>
      /\ UNCHANGED <<batchLimit, fetched, passed, final>> /\ UNCHANGED chainVars
      /\ stage = "program data"
      /\ \/ sampleSize = NoSample /\ stage' = "end" /\ exit' = Exit(deploySlot', 0, 0)
         \/ sampleSize # NoSample /\ stage' = "list" /\ exit' = exit
  BY DEF ReadProgramData, argVars, sampleVars
<1>3. upgradeable /\ chosen = << >> /\ part = << >> /\ looked = 0 /\ fetched = 0 /\ passed = 0
  <2>1. upgradeable /\ chosen = << >> /\ part = << >>
    BY <1>2 DEF SInv, Control
  <2>2. Len(chosen) = 0
    BY <2>1
  <2> QED
    BY <2>1, <2>2, SInvNumbers
<1>4. DeployIsLast'
  <2> SUFFICES ASSUME NEW e \in deploys, e <= final PROVE e <= d
    BY <1>1, <1>2, StandsStill DEF DeployIsLast
  <2>1. e \in Nat /\ final \in Nat /\ rooted[n] \in Nat /\ final <= rooted[n]
    BY SInvNumbers
  <2> QED
    BY <1>1, <2>1 DEF IsLastDeploy
<1>5. exit' \in {"none", "clean", "flagged"} /\ (stage' = "end" <=> exit' # "none")
  BY <1>2 DEF Exit, SInv, Control
<1>6. TypeOK'
  BY <1>1, <1>2, <1>5, StandsStill DEF SInv, TypeOK, NoSlot, NoSample
<1>7. /\ exit' = "flagged" => DeployedAfter(deploySlot') /\ deploySlot' \in deploys
      /\ exit' = "clean" => ~DeployedAfter(deploySlot') /\ sampleSize = NoSample
  <2>1. exit = "none"
    BY <1>2 DEF SInv, Control
  <2>2. Exit(deploySlot', 0, 0) = IF DeployedAfter(deploySlot') THEN "flagged" ELSE "clean"
    BY DEF Exit
  <2> QED
    BY <1>1, <1>2, <2>1, <2>2
<1>8. Control'
  BY <1>2, <1>3, <1>4, <1>5, <1>7, StandsStill DEF Control, DeployedAfter, NoSlot, NoSample
<1> QED
  BY <1>2, <1>3, <1>6, <1>8, StandsStill DEF SInv, PartIsHeld, CountsAreHeld, Held, SampleIsAsAsked

\* The sample is as asked, and nothing of it is looked at yet.
LEMMA ListAccountsKeepsSInv ==
  ASSUME SInv, NEW n \in Nodes, ListAccounts(n)
  PROVE  SInv'
<1>1. PICK m \in 0..NumRows : \E keys \in Bijection(1..m, Listed(n)) :
        matched' = m /\ chosen' = Chosen(keys, m)
  BY DEF ListAccounts
<1>2. PICK keys \in Bijection(1..m, Listed(n)) : matched' = m /\ chosen' = Chosen(keys, m)
  BY <1>1
<1>3. /\ UNCHANGED <<since, sampleSize, deploySlot, looked, part>>
      /\ UNCHANGED <<batchLimit, fetched, passed, final>> /\ UNCHANGED chainVars
      /\ stage = "list"
      /\ \/ chosen' = << >> /\ stage' = "end" /\ exit' = Exit(deploySlot, 0, 0)
         \/ chosen' # << >> /\ stage' = "fetch" /\ exit' = exit
  BY DEF ListAccounts, argVars
<1>4. chosen = << >> /\ part = << >> /\ looked = 0 /\ fetched = 0 /\ passed = 0 /\ exit = "none"
  <2>1. chosen = << >> /\ part = << >> /\ exit = "none"
    BY <1>3 DEF SInv, Control, TypeOK
  <2>2. Len(chosen) = 0
    BY <2>1
  <2> QED
    BY <2>1, <2>2, SInvNumbers
<1>5. sampleSize \in Nat /\ DeployIsLast /\ sampleSize # NoSample
  BY <1>3, SentinelAssumption DEF SInv, Control, TypeOK, NoSample
<1>6. /\ chosen' \in Seq(Rows) /\ Len(chosen') = Lower(sampleSize, m)
      /\ \A i, j \in DOMAIN chosen' : chosen'[i] = chosen'[j] => i = j
  <2>1. m \in Nat /\ Listed(n) \subseteq Rows
    BY <1>1, SInvNumbers DEF Listed
  <2>2. /\ chosen' \in Seq(Listed(n)) /\ Len(chosen') = Lower(sampleSize, m)
        /\ \A i, j \in DOMAIN chosen' : chosen'[i] = chosen'[j] => i = j
    BY <1>2, <1>5, <2>1, ChosenIsAsAsked
  <2> QED
    BY <2>1, <2>2, SeqMonotonic
<1>7. Len(chosen') \in Nat /\ (chosen' # << >> => Len(chosen') > 0)
  BY <1>6
<1>8. TypeOK'
  <2>1. looked' \in 0..Len(chosen') /\ looked' + Len(part') <= Len(chosen')
    BY <1>3, <1>4, <1>7
  <2>2. exit' \in {"none", "clean", "flagged"} /\ m \in Nat
    BY <1>1, <1>3, <1>4, SInvNumbers DEF Exit
  <2> QED
    BY <1>2, <1>3, <1>4, <1>6, <2>1, <2>2, StandsStill DEF SInv, TypeOK, NoSlot, NoSample
<1>9. Control'
  <2>1. stage' = "fetch" => Len(part') < InHand'
    BY <1>3, <1>4, <1>7, SentinelAssumption DEF InHand, Lower
  <2>2. /\ exit' = "flagged" => DeployedAfter(deploySlot) /\ deploySlot \in deploys
        /\ exit' = "clean" => ~DeployedAfter(deploySlot) /\ Len(chosen') = 0
        /\ stage' = "end" <=> exit' # "none"
    BY <1>3, <1>4, <1>5 DEF Exit, DeployIsLast
  <2>3. DeployIsLast'
    BY <1>3, <1>5, StandsStill DEF DeployIsLast
  <2> QED
    BY <1>3, <1>4, <1>5, <2>1, <2>2, <2>3, StandsStill DEF Control, DeployedAfter, NoSlot, NoSample
<1>10. PartIsHeld' /\ CountsAreHeld'
  BY <1>3, <1>4 DEF PartIsHeld, CountsAreHeld
<1>11. SampleIsAsAsked'
  BY <1>2, <1>3, <1>6 DEF SampleIsAsAsked, Lower
<1> QED
  BY <1>3, <1>8, <1>9, <1>10, <1>11, StandsStill DEF SInv

\* The next call of a batch never reaches beyond it.
LEMMA CallFits ==
  ASSUME SInv, stage = "fetch"
  PROVE  /\ CallSize \in Nat \ {0} /\ InHand \in Nat
         /\ Len(part) + CallSize <= InHand
         /\ InHand <= MaxBatch /\ looked + InHand <= Len(chosen)
<1>1. MaxBatch \in Nat \ {0} /\ batchLimit \in Nat \ {0}
  BY SentinelAssumption DEF SInv, TypeOK
<1>2. Len(part) < InHand
  BY DEF SInv, Control
<1>3. /\ Len(chosen) \in Nat /\ Len(part) \in Nat /\ looked \in Nat
      /\ looked + Len(part) <= Len(chosen)
  BY SInvNumbers
<1>4. InHand \in Nat /\ InHand <= MaxBatch /\ looked + InHand <= Len(chosen)
  BY <1>1, <1>3 DEF InHand, Lower
<1> QED
  BY <1>1, <1>2, <1>3, <1>4 DEF CallSize, Lower

\* What has been read of the batch in hand, with the answer of one more call.
WithCall(n) ==
  part \o [i \in 1..CallSize |-> bytes[chosen[looked + Len(part) + i]][seen[n]]]

LEMMA CallReads ==
  ASSUME SInv, stage = "fetch", NEW n \in Nodes
  PROVE  /\ WithCall(n) \in Seq(Bytes) /\ Len(WithCall(n)) = Len(part) + CallSize
         /\ \A i \in 1..Len(WithCall(n)) : Held(chosen[looked + i], {WithCall(n)[i]})
<1> DEFINE read == [i \in 1..CallSize |-> bytes[chosen[looked + Len(part) + i]][seen[n]]]
<1>0. /\ CallSize \in Nat \ {0} /\ Len(part) \in Nat /\ looked \in Nat /\ Len(chosen) \in Nat
      /\ looked + Len(part) + CallSize <= Len(chosen)
  BY CallFits, SInvNumbers
<1>1. ASSUME NEW i \in 1..CallSize
      PROVE  /\ chosen[looked + Len(part) + i] \in Rows
             /\ read[i] = bytes[chosen[looked + Len(part) + i]][seen[n]]
             /\ read[i] \in Bytes
  <2>1. looked + Len(part) + i \in 1..Len(chosen)
    BY <1>0
  <2>2. chosen[looked + Len(part) + i] \in Rows /\ seen[n] \in Slots
    BY <2>1, SInvNumbers
  <2>3. bytes \in [Rows -> [Slots -> Bytes]]
    BY DEF SInv, TypeOK, LedgerTypeOK
  <2> QED
    BY <2>2, <2>3
<1>2. read \in [1..CallSize -> Bytes]
  BY <1>1
<1>3. read \in Seq(Bytes) /\ Len(read) = CallSize
  <2>1. \A f \in [1..CallSize -> Bytes] : f \in Seq(Bytes) /\ Len(f) = CallSize
    BY <1>0
  <2> QED
    BY <1>2, <2>1
<1>4. part \in Seq(Bytes) /\ WithCall(n) = part \o read
  BY DEF SInv, TypeOK, WithCall
<1> HIDE DEF read
<1>5. /\ WithCall(n) \in Seq(Bytes) /\ Len(WithCall(n)) = Len(part) + CallSize
      /\ \A i \in 1..Len(WithCall(n)) :
            WithCall(n)[i] = IF i <= Len(part) THEN part[i] ELSE read[i - Len(part)]
  <2>1. /\ part \o read \in Seq(Bytes) /\ Len(part \o read) = Len(part) + Len(read)
        /\ \A i \in 1..(Len(part) + Len(read)) :
              (part \o read)[i] = IF i <= Len(part) THEN part[i] ELSE read[i - Len(part)]
    BY <1>3, <1>4, ConcatProperties
  <2>2. /\ WithCall(n) \in Seq(Bytes) /\ Len(WithCall(n)) = Len(part) + CallSize
    BY <1>3, <1>4, <2>1
  <2>3. \A i \in 1..Len(WithCall(n)) :
            WithCall(n)[i] = IF i <= Len(part) THEN part[i] ELSE read[i - Len(part)]
    BY <1>3, <1>4, <2>1, <2>2
  <2> QED
    BY <2>2, <2>3
<1>6. ASSUME NEW i \in 1..Len(WithCall(n)) PROVE Held(chosen[looked + i], {WithCall(n)[i]})
  <2>1. CASE i <= Len(part)
    <3>1. i \in DOMAIN part
      BY <1>0, <1>6, <2>1, SInvNumbers
    <3> QED
      BY <1>5, <2>1, <3>1 DEF SInv, PartIsHeld
  <2>2. CASE Len(part) < i
    <3> DEFINE j == i - Len(part)
    <3>1. j \in 1..CallSize /\ looked + Len(part) + j = looked + i
      BY <1>0, <1>5, <2>2
    <3>2. WithCall(n)[i] = bytes[chosen[looked + i]][seen[n]]
      <4>1. WithCall(n)[i] = read[j]
        BY <1>0, <1>5, <2>2, <3>1
      <4> QED
        BY <1>1, <3>1, <4>1
    <3>3. seen[n] \in 0..tip
      BY SInvNumbers
    <3> QED
      BY <3>2, <3>3 DEF Held
  <2> QED
    BY <1>0, <2>1, <2>2
<1> QED
  BY <1>5, <1>6

\* The accounts of a batch, and those that pass, as sets of positions.
LEMMA BatchCounts ==
  ASSUME NEW data \in Seq(Bytes)
  PROVE  LET good == {i \in Present(data) : data[i] \in Passing}
         IN  /\ Cardinality(Present(data)) \in 0..Len(data)
             /\ Cardinality(good) \in 0..Cardinality(Present(data))
             /\ IF Cardinality(good) = Cardinality(Present(data))
                  THEN \A i \in 1..Len(data) : data[i] \in Passing \cup {Absent}
                  ELSE \E i \in 1..Len(data) : data[i] \in Values \ Passing
<1> DEFINE here == Present(data)
           good == {i \in here : data[i] \in Passing}
<1>1. Len(data) \in Nat /\ DOMAIN data = 1..Len(data) /\ \A i \in 1..Len(data) : data[i] \in Bytes
  OBVIOUS
<1>2. IsFiniteSet(1..Len(data)) /\ Cardinality(1..Len(data)) = Len(data)
  <2>1. /\ IsFiniteSet(1..Len(data))
        /\ Cardinality(1..Len(data)) = IF 1 > Len(data) THEN 0 ELSE Len(data) - 1 + 1
    BY <1>1, FS_Interval
  <2> QED
    BY <1>1, <2>1
<1>3. here \subseteq 1..Len(data) /\ good \subseteq here
  BY <1>1 DEF Present
<1>4. IsFiniteSet(here) /\ Cardinality(here) <= Len(data)
  BY <1>2, <1>3, FS_Subset
<1>5. /\ IsFiniteSet(good) /\ Cardinality(good) <= Cardinality(here)
      /\ Cardinality(here) = Cardinality(good) => here = good
  BY <1>3, <1>4, FS_Subset
<1>6. Cardinality(here) \in Nat /\ Cardinality(good) \in Nat
  BY <1>4, <1>5, FS_CardinalityType
<1>7. good = here => \A i \in 1..Len(data) : data[i] \in Passing \cup {Absent}
  BY <1>1 DEF Present
<1>8. good # here => \E i \in 1..Len(data) : data[i] \in Values \ Passing
  BY <1>1, <1>3 DEF Present, Bytes
<1> HIDE DEF here, good
<1>9. /\ Cardinality(here) \in 0..Len(data) /\ Cardinality(good) \in 0..Cardinality(here)
      /\ IF Cardinality(good) = Cardinality(here)
           THEN \A i \in 1..Len(data) : data[i] \in Passing \cup {Absent}
           ELSE \E i \in 1..Len(data) : data[i] \in Values \ Passing
  BY <1>1, <1>4, <1>5, <1>6, <1>7, <1>8
<1> QED
  BY <1>9 DEF here, good

\* A call within a batch adds to what is in hand; the last one of a batch puts
\* it into the counts, which then differ only if one of its accounts failed.
LEMMA FetchCallKeepsSInv ==
  ASSUME SInv, NEW n \in Nodes, FetchCall(n)
  PROVE  SInv'
<1> DEFINE data == WithCall(n)
<1>1. /\ UNCHANGED <<since, sampleSize, deploySlot, matched, chosen>>
      /\ UNCHANGED <<batchLimit, final>> /\ UNCHANGED chainVars
      /\ stage = "fetch"
      /\ \/ /\ Len(part) + CallSize < InHand
            /\ part' = data /\ UNCHANGED <<looked, fetched, passed>>
         \/ Len(part) + CallSize >= InHand /\ Tally(data)
      /\ \/ looked' = Len(chosen) /\ stage' = "end" /\ exit' = Exit(deploySlot, fetched', passed')
         \/ looked' # Len(chosen) /\ UNCHANGED <<stage, exit>>
  <2>1. CallSize \in Nat /\ Len(part) \in Nat /\ InHand \in Nat
    BY CallFits, SInvNumbers DEF FetchCall
  <2> QED
    BY <2>1 DEF FetchCall, WithCall, argVars
<1>2. /\ data \in Seq(Bytes) /\ Len(data) = Len(part) + CallSize
      /\ \A i \in 1..Len(data) : Held(chosen[looked + i], {data[i]})
  BY <1>1, CallReads
<1> HIDE DEF data
<1>3. /\ CallSize \in Nat \ {0} /\ InHand \in Nat /\ Len(part) + CallSize <= InHand
      /\ InHand <= MaxBatch /\ looked + InHand <= Len(chosen) /\ MaxBatch \in Nat \ {0}
      /\ looked \in Nat /\ fetched \in Nat /\ passed \in Nat /\ passed <= fetched /\ fetched <= looked
      /\ Len(part) \in Nat /\ Len(chosen) \in Nat
  BY <1>1, CallFits, SInvNumbers, SentinelAssumption
<1>4. \A r, C : Held(r, C)' = Held(r, C)
  BY <1>1, StandsStill DEF Held
<1>5. exit = "none" /\ DeployIsLast /\ sampleSize # NoSample
  BY <1>1 DEF SInv, Control
<1>6. DeployIsLast'
  BY <1>1, <1>5, StandsStill DEF DeployIsLast
<1>7. CASE Len(part) + CallSize < InHand /\ part' = data /\ UNCHANGED <<looked, fetched, passed>>
  <2>1. stage' = "fetch" /\ exit' = "none"
    BY <1>1, <1>3, <1>5, <1>7
  <2>2. Len(part') < InHand' /\ InHand' = InHand
    BY <1>1, <1>2, <1>7 DEF InHand
  <2>3. TypeOK'
    <3>1. Len(part') < MaxBatch /\ looked' + Len(part') <= Len(chosen)
      BY <1>2, <1>3, <1>7
    <3> QED
      BY <1>1, <1>2, <1>7, <2>1, <3>1, StandsStill DEF SInv, TypeOK, NoSlot, NoSample
  <2>4. Control'
    BY <1>1, <1>5, <1>6, <2>1, <2>2 DEF Control, NoSample
  <2>5. PartIsHeld'
    <3>1. DOMAIN data = 1..Len(data)
      BY <1>2
    <3> QED
      BY <1>1, <1>2, <1>4, <1>7, <3>1 DEF PartIsHeld
  <2>6. CountsAreHeld'
    BY <1>1, <1>4, <1>7 DEF SInv, CountsAreHeld
  <2> QED
    BY <1>1, <2>1, <2>3, <2>4, <2>5, <2>6, StandsStill DEF SInv, SampleIsAsAsked
<1>8. CASE Len(part) + CallSize >= InHand /\ Tally(data)
  <2> DEFINE all == Cardinality(Present(data))
             good == Cardinality({i \in Present(data) : data[i] \in Passing})
  <2>1. /\ fetched' = fetched + all /\ passed' = passed + good
        /\ looked' = looked + Len(data) /\ part' = << >>
    BY <1>8 DEF Tally
  <2>2. /\ all \in 0..Len(data) /\ good \in 0..all
        /\ IF good = all THEN \A i \in 1..Len(data) : data[i] \in Passing \cup {Absent}
                         ELSE \E i \in 1..Len(data) : data[i] \in Values \ Passing
    BY <1>2, BatchCounts
  <2> HIDE DEF all, good
  <2>3. /\ Len(data) = InHand /\ looked' \in 0..Len(chosen) /\ Len(part') = 0
        /\ fetched' \in 0..looked' /\ passed' \in 0..fetched'
        /\ fetched' = passed' <=> fetched = passed /\ all = good
    BY <1>2, <1>3, <1>8, <2>1, <2>2
  <2>4. \A i \in 1..looked' : i \in 1..looked \/ (i - looked \in 1..Len(data) /\ looked + (i - looked) = i)
    BY <1>2, <1>3, <2>1, <2>3
  <2>5. CountsAreHeld'
    <3>1. CASE fetched' = passed'
      <4> SUFFICES ASSUME NEW i \in 1..looked' PROVE Held(chosen[i], Passing \cup {Absent})
        BY <1>1, <1>4, <3>1 DEF CountsAreHeld
      <4>1. CASE i \in 1..looked
        BY <2>3, <3>1, <4>1 DEF SInv, CountsAreHeld
      <4>2. CASE i - looked \in 1..Len(data) /\ looked + (i - looked) = i
        <5>1. Held(chosen[i], {data[i - looked]}) /\ data[i - looked] \in Passing \cup {Absent}
          BY <1>2, <2>2, <2>3, <3>1, <4>2
        <5> QED
          BY <5>1 DEF Held
      <4> QED
        BY <2>4, <4>1, <4>2
    <3>2. CASE fetched' # passed'
      <4> SUFFICES \E i \in 1..looked' : Held(chosen[i], Values \ Passing)
        BY <1>1, <1>4, <3>2 DEF CountsAreHeld
      <4>1. CASE fetched # passed
        <5>1. PICK i \in 1..looked : Held(chosen[i], Values \ Passing)
          BY <4>1 DEF SInv, CountsAreHeld
        <5>2. i \in 1..looked'
          BY <1>2, <1>3, <2>1
        <5> QED
          BY <5>1, <5>2
      <4>2. CASE fetched = passed
        <5>1. PICK i \in 1..Len(data) : data[i] \in Values \ Passing
          BY <2>2, <2>3, <3>2, <4>2
        <5>2. looked + i \in 1..looked'
          BY <1>2, <1>3, <2>1
        <5>3. Held(chosen[looked + i], Values \ Passing)
          BY <1>2, <5>1 DEF Held
        <5> QED
          BY <5>2, <5>3
      <4> QED
        BY <4>1, <4>2
    <3> QED
      BY <3>1, <3>2
  <2>6. /\ stage' = "end" <=> exit' # "none"
        /\ exit' = "flagged" => DeployedAfter(deploySlot) \/ fetched' # passed'
        /\ exit' = "clean" => ~DeployedAfter(deploySlot) /\ fetched' = passed' /\ looked' = Len(chosen)
        /\ exit' \in {"none", "clean", "flagged"} /\ stage' \in {"fetch", "end"}
        /\ stage' = "fetch" => looked' < Len(chosen)
    <3>1. ASSUME looked' = Len(chosen), exit' = Exit(deploySlot, fetched', passed')
          PROVE  /\ exit' \in {"clean", "flagged"}
                 /\ exit' = "flagged" => DeployedAfter(deploySlot) \/ fetched' # passed'
                 /\ exit' = "clean" => ~DeployedAfter(deploySlot) /\ fetched' = passed'
      BY <2>3, <3>1 DEF Exit
    <3> QED
      BY <1>1, <1>3, <1>5, <2>3, <3>1
  <2>7. TypeOK'
    <3>1. part' \in Seq(Bytes) /\ Len(part') < MaxBatch /\ looked' + Len(part') <= Len(chosen)
      BY <1>3, <2>1, <2>3
    <3>2. looked' \in 0..Len(chosen') /\ looked' + Len(part') <= Len(chosen')
      BY <1>1, <2>3, <3>1
    <3> QED
      BY <1>1, <2>3, <2>6, <3>1, <3>2, StandsStill DEF SInv, TypeOK, NoSlot, NoSample
  <2>8. Control'
    <3>1. stage' = "fetch" => Len(part') < InHand'
      BY <1>1, <1>3, <2>3, <2>6 DEF InHand, Lower
    <3>2. DeployedAfter(deploySlot)' = DeployedAfter(deploySlot) /\ deploySlot \in deploys'
      BY <1>1, <1>5, StandsStill DEF DeployedAfter, DeployIsLast
    <3> QED
      BY <1>1, <1>5, <1>6, <2>6, <3>1, <3>2 DEF Control, DeployedAfter, NoSample, NoSlot
  <2>9. PartIsHeld'
    BY <2>1 DEF PartIsHeld
  <2> QED
    BY <1>1, <2>5, <2>6, <2>7, <2>8, <2>9, StandsStill DEF SInv, SampleIsAsAsked
<1> QED
  BY <1>1, <1>7, <1>8

LEMMA TooManyKeysKeepsSInv ==
  ASSUME SInv, NEW n \in Nodes, TooManyKeys(n)
  PROVE  SInv'
<1>1. /\ UNCHANGED <<since, sampleSize, stage, deploySlot, matched, chosen, looked>>
      /\ UNCHANGED <<fetched, passed, exit, final>> /\ UNCHANGED chainVars
      /\ stage = "fetch" /\ KeyCap[n] < CallSize /\ batchLimit' = KeyCap[n] /\ part' = << >>
  BY DEF TooManyKeys, argVars
<1>2. batchLimit' \in 1..MaxKeys
  <2>1. KeyCap[n] \in Nat \ {0} /\ CallSize \in Nat /\ MaxKeys \in Nat /\ batchLimit \in 1..MaxKeys
    BY <1>1, CallFits, SentinelAssumption DEF SInv, TypeOK
  <2>2. CallSize <= batchLimit
    BY <1>1, <2>1, CallFits, SInvNumbers DEF CallSize, Lower
  <2> QED
    BY <1>1, <2>1, <2>2
<1>3. Len(part') = 0 /\ Len(part) < InHand /\ Len(part) \in Nat /\ InHand' = InHand /\ InHand \in Nat
  BY <1>1, CallFits, SInvNumbers DEF SInv, Control, InHand
<1>4. TypeOK'
  <2>1. Len(part') < MaxBatch /\ looked + Len(part') <= Len(chosen)
    BY <1>3, SInvNumbers, SentinelAssumption
  <2> QED
    BY <1>1, <1>2, <2>1, StandsStill DEF SInv, TypeOK, NoSlot, NoSample
<1>5. Control'
  <2>1. exit = "none" /\ DeployIsLast /\ sampleSize # NoSample
    BY <1>1 DEF SInv, Control
  <2>2. DeployIsLast' /\ Len(part') < InHand'
    BY <1>1, <1>3, <2>1, StandsStill DEF DeployIsLast
  <2> QED
    BY <1>1, <2>1, <2>2 DEF Control, NoSample
<1> QED
  BY <1>1, <1>4, <1>5, StandsStill DEF SInv, PartIsHeld, CountsAreHeld, Held, SampleIsAsAsked

LEMMA ReadFailsKeepsSInv == ASSUME SInv, ReadFails PROVE SInv'
<1>1. /\ UNCHANGED <<since, sampleSize, deploySlot, matched, chosen, looked, part>>
      /\ UNCHANGED <<batchLimit, fetched, passed, final>> /\ UNCHANGED chainVars
      /\ stage' = "end" /\ exit' = "error"
  BY DEF ReadFails, argVars, sampleVars
<1>2. TypeOK'
  BY <1>1, StandsStill DEF SInv, TypeOK, NoSlot, NoSample
<1>3. Control'
  BY <1>1 DEF Control
<1> QED
  BY <1>1, <1>2, <1>3, StandsStill DEF SInv, PartIsHeld, CountsAreHeld, Held, SampleIsAsAsked

LEMMA SInvHolds == Spec => []SInv
<1>1. SInv /\ [Next]_vars => SInv'
  <2> SUFFICES ASSUME SInv, [Next]_vars PROVE SInv'
    OBVIOUS
  <2>1. CASE UNCHANGED vars
    <3>1. /\ UNCHANGED <<since, sampleSize, stage, deploySlot, matched, chosen, looked, part>>
          /\ UNCHANGED <<batchLimit, fetched, passed, exit, final>> /\ UNCHANGED chainVars
      BY <2>1 DEF vars, argVars, sampleVars
    <3>2. TypeOK'
      BY <3>1, StandsStill DEF SInv, TypeOK, NoSlot, NoSample
    <3>3. Control'
      <4>1. InHand' = InHand /\ DeployIsLast' = DeployIsLast /\ upgradeable' = upgradeable
        BY <3>1, StandsStill DEF InHand, DeployIsLast
      <4>2. DeployedAfter(deploySlot)' = DeployedAfter(deploySlot) /\ deploys' = deploys
        BY <3>1, StandsStill DEF DeployedAfter
      <4> QED
        BY <3>1, <4>1, <4>2 DEF SInv, Control, NoSample
    <3> QED
      BY <3>1, <3>2, <3>3, StandsStill DEF SInv, PartIsHeld, CountsAreHeld, Held, SampleIsAsAsked
  <2>2. CASE Progress
    BY <2>2, ReadProgramKeepsSInv, ReadProgramDataKeepsSInv, ListAccountsKeepsSInv,
       FetchCallKeepsSInv, TooManyKeysKeepsSInv DEF Progress
  <2> QED
    BY <2>1, <2>2, ChainKeepsSInv, ReadFailsKeepsSInv DEF Next
<1> QED
  BY <1>1, InitSInv, PTL DEF Spec
-----------------------------------------------------------------------------
(* Everything the command holds is of its kind, in every step of it.       *)
THEOREM SentinelTypeCorrect == Spec => []TypeOK
<1>1. SInv => TypeOK
  BY DEF SInv
<1> QED
  BY <1>1, SInvHolds, PTL

(* Whatever is listed and asked for, the stride leaves a sample of the     *)
(* size asked for, or all there is, with no account twice.                 *)
THEOREM SampleSizeHolds == Spec => []SampleIsAsAsked
<1>1. SInv => SampleIsAsAsked
  BY DEF SInv
<1> QED
  BY <1>1, SInvHolds, PTL

(* Exit code 0 with --since overlooks no deploy that was final everywhere  *)
(* when the command began.                                                 *)
THEOREM SinceIsHonest == Spec => []SinceSeesFinalDeploys
<1>1. SInv => SinceSeesFinalDeploys
  <2> SUFFICES ASSUME SInv, exit = "clean", since # NoSlot, NEW d \in deploys, d <= final
               PROVE  d <= since
    BY DEF SinceSeesFinalDeploys
  <2>1. since \in Nat
    <3>1. since \in 0..MaxSlot /\ MaxSlot \in Nat
      BY SInvNumbers DEF SInv, TypeOK
    <3> QED
      BY <3>1
  <2>2. CASE ~upgradeable
    BY <2>1, <2>2 DEF SInv
  <2>3. CASE upgradeable
    <3>1. ~(deploySlot > since) /\ deploySlot \in deploys /\ d <= deploySlot
      BY <2>3 DEF SInv, Control, DeployedAfter, DeployIsLast
    <3>2. deploySlot \in Nat /\ d \in Nat
      BY <3>1, SInvNumbers
    <3> QED
      BY <2>1, <3>1, <3>2
  <2> QED
    BY <2>2, <2>3
<1> QED
  BY <1>1, SInvHolds, PTL

(* Exit code 0 hides no sampled account that failed the whole time, and 1  *)
(* without an error has a deploy or a failing account to show, whatever    *)
(* batches the sample was fetched in and however often they started over.  *)
THEOREM SampleVerdictsHold == Spec => [](CleanHidesNoFailure /\ FlaggedIsEarned)
<1>1. SInv => CleanHidesNoFailure
  <2> SUFFICES ASSUME SInv, Sampled, exit = "clean", NEW r \in Range(chosen)
               PROVE  \E s \in 0..tip : bytes[r][s] \in Passing \cup {Absent}
    BY DEF CleanHidesNoFailure
  <2>1. fetched = passed /\ looked = Len(chosen)
    BY DEF SInv, Control, Sampled
  <2>2. PICK i \in 1..Len(chosen) : r = chosen[i]
    BY SInvNumbers DEF Range
  <2> QED
    BY <2>1, <2>2 DEF SInv, CountsAreHeld, Held
<1>2. SInv => FlaggedIsEarned
  <2> SUFFICES ASSUME SInv, exit = "flagged", fetched # passed
               PROVE  \E r \in Range(chosen) : \E s \in 0..tip : bytes[r][s] \in Values \ Passing
    BY DEF FlaggedIsEarned, SInv, Control, DeployedAfter
  <2>1. PICK i \in 1..looked : Held(chosen[i], Values \ Passing)
    BY DEF SInv, CountsAreHeld
  <2>2. i \in DOMAIN chosen
    BY SInvNumbers
  <2> QED
    BY <2>1, <2>2 DEF Held, Range
<1> QED
  BY <1>1, <1>2, SInvHolds, PTL
-----------------------------------------------------------------------------
(* The counts as a set of accounts.                                        *)

\* The accounts counted as fetched: they were there when looked at, and of the
\* others looked at each was gone.
OneLook ==
  /\ \A i, j \in DOMAIN chosen : chosen[i] = chosen[j] => i = j
  /\ \E here \in SUBSET Rows :
       /\ Cardinality(here) = fetched
       /\ \A r \in here : Held(r, Values) /\ \E i \in 1..looked : r = chosen[i]
       /\ \A i \in 1..looked : chosen[i] \in here \/ Held(chosen[i], {Absent})
  /\ Sampled => looked = Len(chosen)

LEMMA RowsAreFinite == ASSUME NEW S \in SUBSET Rows PROVE IsFiniteSet(S) /\ Cardinality(S) \in Nat
<1>1. IsFiniteSet(1..NumRows)
  BY LedgerAssumption, FS_Interval DEF LedgerAssumption
<1> QED
  BY <1>1, FS_Subset, FS_CardinalityType

LEMMA OneLookStands ==
  ASSUME SInv, OneLook, UNCHANGED <<chosen, looked, fetched>>,
         \A r \in Rows : \A C : Held(r, C) => Held(r, C)',
         Sampled' => looked = Len(chosen)
  PROVE  OneLook'
<1>1. PICK here \in SUBSET Rows :
         /\ Cardinality(here) = fetched
         /\ \A r \in here : Held(r, Values) /\ \E i \in 1..looked : r = chosen[i]
         /\ \A i \in 1..looked : chosen[i] \in here \/ Held(chosen[i], {Absent})
  BY DEF OneLook
<1>2. \A i \in 1..looked : chosen[i] \in Rows
  BY SInvNumbers
<1>3. /\ \A r \in here : Held(r, Values)' /\ \E i \in 1..looked' : r = chosen'[i]
      /\ \A i \in 1..looked' : chosen'[i] \in here \/ Held(chosen[i], {Absent})'
  BY <1>1, <1>2 DEF Held
<1> QED
  BY <1>1, <1>3 DEF OneLook

LEMMA FetchCallKeepsOneLook ==
  ASSUME SInv, OneLook, NEW n \in Nodes, FetchCall(n)
  PROVE  OneLook'
<1> DEFINE data == WithCall(n)
<1>1. /\ UNCHANGED <<chosen, sampleSize>> /\ UNCHANGED chainVars /\ UNCHANGED final /\ stage = "fetch"
      /\ \/ /\ Len(part) + CallSize < InHand
            /\ UNCHANGED <<looked, fetched>>
         \/ Len(part) + CallSize >= InHand /\ Tally(data)
      /\ looked' = Len(chosen) \/ stage' = "fetch"
  <2>1. CallSize \in Nat /\ Len(part) \in Nat /\ InHand \in Nat
    BY CallFits, SInvNumbers DEF FetchCall
  <2> QED
    BY <2>1 DEF FetchCall, WithCall, argVars
<1>2. /\ data \in Seq(Bytes) /\ Len(data) = Len(part) + CallSize
      /\ \A i \in 1..Len(data) : Held(chosen[looked + i], {data[i]})
  BY <1>1, CallReads
<1>3. /\ CallSize \in Nat /\ InHand \in Nat /\ Len(part) + CallSize <= InHand
      /\ looked + InHand <= Len(chosen) /\ looked \in Nat /\ fetched \in Nat /\ Len(part) \in Nat
      /\ Len(chosen) \in Nat /\ DOMAIN chosen = 1..Len(chosen)
      /\ \A i \in 1..Len(chosen) : chosen[i] \in Rows
  BY <1>1, CallFits, SInvNumbers
<1> HIDE DEF data
<1>4. \A r, C : Held(r, C)' <=> Held(r, C)
  BY <1>1, StandsStill DEF Held
<1>5. Sampled' => looked' = Len(chosen)
  BY <1>1 DEF Sampled
<1>6. CASE UNCHANGED <<looked, fetched>>
  BY <1>1, <1>4, <1>5, <1>6, OneLookStands
<1>7. CASE Len(part) + CallSize >= InHand /\ Tally(data)
  <2> DEFINE new == {chosen[looked + i] : i \in Present(data)}
             place == [i \in Present(data) |-> chosen[looked + i]]
  <2>1. PICK here \in SUBSET Rows :
           /\ Cardinality(here) = fetched
           /\ \A r \in here : Held(r, Values) /\ \E i \in 1..looked : r = chosen[i]
           /\ \A i \in 1..looked : chosen[i] \in here \/ Held(chosen[i], {Absent})
    BY DEF OneLook
  <2>2. /\ Len(data) \in Nat /\ DOMAIN data = 1..Len(data) /\ \A i \in 1..Len(data) : data[i] \in Bytes
        /\ looked + Len(data) <= Len(chosen)
        /\ looked' = looked + Len(data) /\ fetched' = fetched + Cardinality(Present(data))
    BY <1>2, <1>3, <1>7 DEF Tally
  <2>3. Present(data) \subseteq 1..Len(data) /\ IsFiniteSet(Present(data))
    <3>1. Present(data) \subseteq 1..Len(data)
      BY <2>2 DEF Present
    <3>2. IsFiniteSet(1..Len(data))
      BY <2>2, FS_Interval
    <3> QED
      BY <3>1, <3>2, FS_Subset
  <2>4. \A i \in 1..Len(data) : looked + i \in DOMAIN chosen /\ looked + i > looked
    BY <1>3, <2>2
  <2>5. \A i, j \in DOMAIN chosen : chosen[i] = chosen[j] => i = j
    BY DEF OneLook
  <2>6. Cardinality(new) = Cardinality(Present(data))
    <3>1. \A i, j \in Present(data) : chosen[looked + i] = chosen[looked + j] => i = j
      <4> TAKE i, j \in Present(data)
      <4>1. i \in 1..Len(data) /\ j \in 1..Len(data) /\ (looked + i = looked + j => i = j)
        BY <1>3, <2>3
      <4> QED
        BY <2>4, <2>5, <4>1
    <3>2. place \in Bijection(Present(data), new)
      BY <3>1 DEF Bijection, Injection, Surjection, IsInjective
    <3> HIDE DEF place, new
    <3> QED
      BY <2>3, <3>2, FS_Bijection DEF ExistsBijection
  <2>7. new \subseteq Rows
    BY <1>3, <2>3, <2>4
  <2>8. here \cap new = {}
    <3> SUFFICES ASSUME NEW r \in here, NEW i \in Present(data), r = chosen[looked + i] PROVE FALSE
      OBVIOUS
    <3>1. PICK j \in 1..looked : r = chosen[j]
      BY <2>1
    <3>2. looked + i \in DOMAIN chosen /\ looked + i > looked /\ j \in DOMAIN chosen /\ j # looked + i
      BY <1>3, <2>3, <2>4
    <3> QED
      BY <2>5, <3>1, <3>2
  <2>9. Cardinality(here \cup new) = fetched'
    <3> HIDE DEF new
    <3>1. IsFiniteSet(here) /\ IsFiniteSet(new) /\ Cardinality(here) \in Nat /\ Cardinality(new) \in Nat
      BY <2>7, RowsAreFinite
    <3>2. Cardinality(here \cup new) = Cardinality(here) + Cardinality(new) - Cardinality(here \cap new)
      BY <3>1, FS_Union
    <3>3. Cardinality(here \cap new) = 0
      BY <2>8, FS_EmptySet
    <3> QED
      BY <2>1, <2>2, <2>6, <3>1, <3>2, <3>3
  <2>10. \A r \in here \cup new : Held(r, Values) /\ \E i \in 1..looked' : r = chosen[i]
    <3>1. ASSUME NEW r \in here PROVE Held(r, Values) /\ \E i \in 1..looked' : r = chosen[i]
      <4>1. PICK i \in 1..looked : r = chosen[i]
        BY <2>1
      <4>2. i \in 1..looked'
        BY <1>3, <2>2
      <4> QED
        BY <2>1, <4>1, <4>2
    <3>2. ASSUME NEW i \in Present(data)
          PROVE  Held(chosen[looked + i], Values) /\ \E j \in 1..looked' : chosen[looked + i] = chosen[j]
      <4>1. i \in 1..Len(data) /\ data[i] \in Values
        BY <2>2, <2>3 DEF Present, Bytes
      <4>2. Held(chosen[looked + i], {data[i]})
        BY <1>2, <4>1
      <4>3. looked + i \in 1..looked'
        BY <1>3, <2>2, <4>1
      <4> QED
        BY <4>1, <4>2, <4>3 DEF Held
    <3> QED
      BY <3>1, <3>2
  <2>11. \A i \in 1..looked' : chosen[i] \in here \cup new \/ Held(chosen[i], {Absent})
    <3> SUFFICES ASSUME NEW i \in 1..looked', i \notin 1..looked
                 PROVE  chosen[i] \in new \/ Held(chosen[i], {Absent})
      BY <2>1
    <3>1. i - looked \in 1..Len(data) /\ looked + (i - looked) = i
      BY <1>3, <2>2
    <3>2. CASE i - looked \in Present(data)
      BY <3>1, <3>2
    <3>3. CASE i - looked \notin Present(data)
      <4>1. data[i - looked] = Absent
        BY <2>2, <3>1, <3>3 DEF Present
      <4> QED
        BY <1>2, <3>1, <4>1
    <3> QED
      BY <3>2, <3>3
  <2> HIDE DEF new, place
  <2>12. here \cup new \in SUBSET Rows
    BY <2>7
  <2>13. /\ \A r \in here \cup new : Held(r, Values)' /\ \E i \in 1..looked' : r = chosen'[i]
         /\ \A i \in 1..looked' : chosen'[i] \in here \cup new \/ Held(chosen[i], {Absent})'
    BY <1>1, <1>4, <2>10, <2>11 DEF Held
  <2> QED
    BY <1>1, <1>5, <2>5, <2>9, <2>12, <2>13 DEF OneLook
<1> QED
  BY <1>1, <1>6, <1>7

LEMMA NextKeepsOneLook == SInv /\ OneLook /\ [Next]_vars => OneLook'
<1> SUFFICES ASSUME SInv, OneLook, [Next]_vars PROVE OneLook'
  OBVIOUS
<1>0. Sampled => looked = Len(chosen)
  BY DEF OneLook
<1>1. CASE ChainMoves
  <2>1. UNCHANGED <<chosen, looked, fetched>> /\ (Sampled' <=> Sampled)
    BY <1>1, ChainGrows DEF ChainMoves, argVars, sampleVars, Sampled, NoSample
  <2> QED
    BY <1>0, <1>1, <2>1, HeldStays, OneLookStands
<1>2. ASSUME UNCHANGED <<chosen, looked, fetched>>, UNCHANGED chainVars, UNCHANGED final,
             Sampled' => looked = Len(chosen)
      PROVE  OneLook'
  <2>1. \A r \in Rows : \A C : Held(r, C) => Held(r, C)'
    BY <1>2, StandsStill DEF Held
  <2> QED
    BY <1>2, <2>1, OneLookStands
<1>3. CASE ReadProgram
  <2>1. Sampled' => FALSE
    BY <1>3, StandsStill DEF ReadProgram, Sampled
  <2> QED
    BY <1>2, <1>3, <2>1 DEF ReadProgram, sampleVars
<1>4. ASSUME NEW n \in Nodes, ReadProgramData(n) PROVE OneLook'
  <2>1. Sampled' => FALSE
    BY <1>4 DEF ReadProgramData, argVars, Sampled, NoSample
  <2> QED
    BY <1>2, <1>4, <2>1 DEF ReadProgramData, sampleVars
<1>5. ASSUME NEW n \in Nodes, ListAccounts(n) PROVE OneLook'
  <2>1. PICK m \in 0..NumRows : \E keys \in Bijection(1..m, Listed(n)) :
          matched' = m /\ chosen' = Chosen(keys, m)
    BY <1>5 DEF ListAccounts
  <2>2. PICK keys \in Bijection(1..m, Listed(n)) : matched' = m /\ chosen' = Chosen(keys, m)
    BY <2>1
  <2>3. /\ UNCHANGED <<looked, fetched>> /\ stage = "list"
        /\ \/ chosen' = << >> /\ stage' = "end"
           \/ stage' = "fetch"
    BY <1>5 DEF ListAccounts
  <2>4. looked = 0 /\ fetched = 0
    <3>1. Len(chosen) = 0
      BY <2>3 DEF SInv, Control
    <3> QED
      BY <3>1, SInvNumbers
  <2>5. \A i, j \in DOMAIN chosen' : chosen'[i] = chosen'[j] => i = j
    <3>1. sampleSize \in Nat /\ m \in Nat
      BY <2>3, SInvNumbers, SentinelAssumption DEF SInv, TypeOK, NoSample
    <3> QED
      BY <2>2, <3>1, ChosenIsAsAsked
  <2>6. Sampled' => looked' = Len(chosen')
    BY <2>3, <2>4 DEF Sampled
  <2>7. /\ {} \in SUBSET Rows /\ Cardinality({}) = fetched'
        /\ \A i \in 1..looked' : FALSE
    BY <2>3, <2>4, FS_EmptySet
  <2> QED
    BY <2>5, <2>6, <2>7 DEF OneLook
<1>6. ASSUME NEW n \in Nodes, TooManyKeys(n) PROVE OneLook'
  <2>1. Sampled' => FALSE
    BY <1>6 DEF TooManyKeys, Sampled
  <2> QED
    BY <1>2, <1>6, <2>1 DEF TooManyKeys
<1>7. CASE ReadFails
  <2>1. Sampled' => FALSE
    BY <1>7 DEF ReadFails, Sampled
  <2> QED
    BY <1>2, <1>7, <2>1 DEF ReadFails, sampleVars
<1>8. CASE UNCHANGED vars
  <2>1. Sampled' <=> Sampled
    BY <1>8 DEF vars, chainVars, programVars, argVars, Sampled, NoSample
  <2> QED
    BY <1>0, <1>2, <1>8, <2>1 DEF vars, sampleVars
<1> QED
  BY <1>1, <1>3, <1>4, <1>5, <1>6, <1>7, <1>8, FetchCallKeepsOneLook DEF Next, Progress

LEMMA InitOneLook == Init => OneLook
<1> SUFFICES ASSUME Init PROVE OneLook
  OBVIOUS
<1>1. looked = 0 /\ fetched = 0 /\ chosen = << >> /\ ~Sampled
  BY DEF Init, Sampled
<1>2. {} \in SUBSET Rows /\ Cardinality({}) = 0
  BY FS_EmptySet
<1> QED
  BY <1>1, <1>2 DEF OneLook

(* The counts are of one look at each account of the sample, however the   *)
(* sample was cut into batches and however often a batch started over.     *)
THEOREM SampleIsCountedOnce == Spec => []CountsAreOneLook
<1>1. SInv /\ OneLook => CountsAreOneLook
  <2> SUFFICES ASSUME SInv, OneLook, Sampled PROVE CountsAreOneLook
    BY DEF CountsAreOneLook
  <2> DEFINE always == {r \in Range(chosen) : \A s \in 0..tip : bytes[r][s] # Absent}
             ever == {r \in Range(chosen) : \E s \in 0..tip : bytes[r][s] # Absent}
  <2>1. PICK here \in SUBSET Rows :
           /\ Cardinality(here) = fetched
           /\ \A r \in here : Held(r, Values) /\ \E i \in 1..looked : r = chosen[i]
           /\ \A i \in 1..looked : chosen[i] \in here \/ Held(chosen[i], {Absent})
    BY DEF OneLook
  <2>2. looked = Len(chosen) /\ DOMAIN chosen = 1..looked /\ \A i \in 1..looked : chosen[i] \in Rows
    BY SInvNumbers DEF OneLook
  <2>3. Range(chosen) = {chosen[i] : i \in 1..looked} /\ Range(chosen) \subseteq Rows
    BY <2>2 DEF Range
  <2>4. always \subseteq here
    BY <2>1, <2>3 DEF Held
  <2>5. here \subseteq ever
    BY <2>1, <2>3, LedgerAssumption DEF Held, LedgerAssumption
  <2>6. ever \in SUBSET Rows
    BY <2>3
  <2> HIDE DEF always, ever
  <2>7. /\ Cardinality(always) <= Cardinality(here) /\ Cardinality(here) <= Cardinality(ever)
    BY <2>4, <2>5, <2>6, RowsAreFinite, FS_Subset
  <2> QED
    BY <2>1, <2>7 DEF CountsAreOneLook, always, ever
<1> QED
  BY <1>1, SInvHolds, InitOneLook, NextKeepsOneLook, PTL DEF Spec

(* What the command has left: its stage, then the key limit of the batch   *)
(* in hand, then the keys not yet read.                                    *)
Rank == CASE stage = "program" -> 4 [] stage = "program data" -> 3 [] stage = "list" -> 2
          [] stage = "fetch" -> 1 [] stage = "end" -> 0

KeysLeft == (Len(chosen) - looked) - Len(part)

GetsOn ==
  Progress \/ ReadFails =>
    \/ Rank' < Rank
    \/ Rank' = Rank /\ batchLimit' < batchLimit
    \/ Rank' = Rank /\ batchLimit' = batchLimit /\ KeysLeft' < KeysLeft /\ KeysLeft' >= 0

(* Every answer and every failure brings the command nearer its end, so no *)
(* pool of nodes, however it cuts batches short, keeps it going for ever   *)
(* once its calls are answered.                                            *)
THEOREM SentinelGetsOn == Spec => [][GetsOn]_vars
<1>1. ASSUME SInv, NEW n \in Nodes, FetchCall(n) PROVE GetsOn
  <2> DEFINE data == WithCall(n)
  <2>1. /\ stage = "fetch" /\ UNCHANGED <<chosen, batchLimit>>
        /\ \/ part' = data /\ looked' = looked
           \/ part' = << >> /\ looked' = looked + Len(data)
        /\ stage' \in {"fetch", "end"}
    BY <1>1 DEF FetchCall, Tally, WithCall
  <2>2. /\ CallSize \in Nat \ {0} /\ Len(data) = Len(part) + CallSize
        /\ looked + Len(data) <= Len(chosen)
        /\ Len(chosen) \in Nat /\ looked \in Nat /\ Len(part) \in Nat
    BY <1>1, <2>1, CallFits, CallReads, SInvNumbers
  <2>3. KeysLeft' < KeysLeft /\ KeysLeft' >= 0
    <3>1. CASE part' = data /\ looked' = looked
      BY <2>1, <2>2, <3>1 DEF KeysLeft
    <3>2. CASE part' = << >> /\ looked' = looked + Len(data)
      <4>1. Len(part') = 0
        BY <3>2
      <4> QED
        BY <2>1, <2>2, <3>2, <4>1 DEF KeysLeft
    <3> QED
      BY <2>1, <3>1, <3>2
  <2>4. Rank = 1 /\ Rank' \in {0, 1}
    BY <2>1 DEF Rank
  <2> QED
    BY <2>1, <2>3, <2>4 DEF GetsOn
<1>2. ASSUME SInv, NEW n \in Nodes, TooManyKeys(n) PROVE GetsOn
  <2>1. stage = "fetch" /\ stage' = stage /\ batchLimit' = KeyCap[n] /\ KeyCap[n] < CallSize
    BY <1>2 DEF TooManyKeys
  <2>2. CallSize \in Nat /\ CallSize <= batchLimit /\ batchLimit \in Nat /\ KeyCap[n] \in Nat
    <3>1. batchLimit \in Nat /\ InHand \in Nat /\ Len(part) \in Nat /\ CallSize \in Nat /\ KeyCap[n] \in Nat
      BY <1>2, <2>1, CallFits, SInvNumbers, SentinelAssumption DEF SInv, TypeOK
    <3> QED
      BY <3>1 DEF CallSize, Lower
  <2>3. Rank' = Rank
    BY <2>1 DEF Rank
  <2> QED
    BY <2>1, <2>2, <2>3 DEF GetsOn
<1>3. ASSUME ReadProgram \/ \E n \in Nodes : ReadProgramData(n) \/ ListAccounts(n) PROVE GetsOn
  <2>1. \/ stage = "program" /\ stage' \in {"program data", "end"}
        \/ stage = "program data" /\ stage' \in {"list", "end"}
        \/ stage = "list" /\ stage' \in {"fetch", "end"}
    BY <1>3 DEF ReadProgram, ReadProgramData, ListAccounts
  <2>2. CASE stage = "program" /\ stage' \in {"program data", "end"}
    <3>1. Rank = 4 /\ Rank' \in {0, 3}
      BY <2>2 DEF Rank
    <3> QED
      BY <3>1 DEF GetsOn
  <2>3. CASE stage = "program data" /\ stage' \in {"list", "end"}
    <3>1. Rank = 3 /\ Rank' \in {0, 2}
      BY <2>3 DEF Rank
    <3> QED
      BY <3>1 DEF GetsOn
  <2>4. CASE stage = "list" /\ stage' \in {"fetch", "end"}
    <3>1. Rank = 2 /\ Rank' \in {0, 1}
      BY <2>4 DEF Rank
    <3> QED
      BY <3>1 DEF GetsOn
  <2> QED
    BY <2>1, <2>2, <2>3, <2>4
<1>4. ASSUME SInv, ReadFails PROVE GetsOn
  <2>1. stage \in {"program", "program data", "list", "fetch"} /\ stage' = "end"
    BY <1>4 DEF ReadFails, SInv, TypeOK
  <2>2. Rank \in {1, 2, 3, 4} /\ Rank' = 0
    BY <2>1 DEF Rank
  <2> QED
    BY <2>2 DEF GetsOn
<1>5. SInv /\ [Next]_vars => [GetsOn]_vars
  BY <1>1, <1>2, <1>3, <1>4 DEF GetsOn, Progress
<1> QED
  BY <1>5, SInvHolds, PTL DEF Spec
=============================================================================
