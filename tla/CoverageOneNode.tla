--------------------------- MODULE CoverageOneNode ---------------------------
(***************************************************************************)
(* Coverage when getBlocks is answered by nodes as far as the one that     *)
(* answered getSlot, or all by one node: its verdicts are then true of the *)
(* chain for good, and the check is one look at it.                        *)
(***************************************************************************)
EXTENDS CoverageProofs

USE DEF Heights

\* Each window of blocks is one that a node as far as the slot getSlot
\* answered would give: what minContextSlot would ask for.
AsFar ==
  Tipped /\ (\E n \in Nodes : GetBlocksWindow(n)) =>
    \E n \in Nodes : GetBlocksWindow(n) /\ finalized <= root[n]

\* Who says that a slot is final also has the blocks up to it, so what has
\* been asked for is held in full.
BlocksHeld ==
  /\ phase = "blocks" /\ Tipped =>
       \A slot \in produced : start <= slot /\ slot < at => slot \in blocks
  /\ phase = "judge" /\ Tipped =>
       \A slot \in produced : start <= slot /\ slot <= checkedEnd => slot \in blocks

\* A verdict speaks of slots the finalized slot had already passed.
VerdictIsFinal ==
  /\ outcome = "Pass" /\ kind = "completeness" /\ Tipped => end <= finalized
  /\ outcome = "Fail" /\ kind = "orphans" /\ Tipped => \A slot \in finding : slot <= finalized
  /\ outcome = "NotFinalized" => Tipped

Verdicts == PassIsComplete /\ OrphanIsReal /\ SkipHidesNothing

OneInv == BlocksHeld /\ VerdictIsFinal /\ Verdicts

(* The initial states satisfy what one node adds.                          *)
LEMMA InitOneInv == Init => OneInv
BY DEF Init, OneInv, BlocksHeld, VerdictIsFinal, Verdicts, PassIsComplete,
       OrphanIsReal, SkipHidesNothing, Asking, Tipped

(* The chain cannot take a verdict back: new blocks are above the slot     *)
(* that was final when it was given.                                       *)
LEMMA ChainKeepsOneInv ==
  ASSUME PoolInv, OneInv, ChainStep
  PROVE  OneInv'
<1> USE MaxU64Assumption, SlotsAreU64, MaxSlotAssumption
<1>0. TypeOK /\ Numeric
  BY Numbers DEF PoolInv
<1>1. /\ UNCHANGED <<kind, start, end, indexed, phase, finalized, checkedEnd, at, blocks>>
      /\ UNCHANGED <<outcome, finding, floor>>
  BY <1>0, ChainGrows
<1>2. /\ produced \subseteq produced'
      /\ \A slot \in produced' \ produced : tip < slot
      /\ \A slot \in produced' : slot \in Nat
      /\ \A n \in Nodes : root'[n] \in Nat /\ root[n] <= root'[n]
  BY <1>0, ChainGrows
<1>3. Tipped => \A slot \in produced' : slot <= finalized => slot \in produced
  BY <1>0, <1>2 DEF PoolInv, Walk, Numeric
<1>4. ASSUME Asking, Tipped PROVE checkedEnd <= finalized
  BY <1>4, <1>0 DEF PoolInv, Walk, Numeric, Lower
<1>5. phase = "blocks" /\ Tipped =>
        \A slot \in produced' : start <= slot /\ slot < at => slot \in blocks
  <2> SUFFICES ASSUME phase = "blocks", Tipped, NEW slot \in produced', start <= slot, slot < at
               PROVE  slot \in blocks
    OBVIOUS
  <2>1. at <= checkedEnd
    <3>1. slot \in Nat /\ at \in Nat /\ start \in Nat /\ checkedEnd \in Nat /\ start < at
      BY <1>0, <1>2 DEF Numeric
    <3>2. (checkedEnd < start => at = start) /\ (start <= checkedEnd => at <= checkedEnd)
      BY DEF PoolInv, Walk
    <3> QED
      BY <3>1, <3>2
  <2>2. slot \in produced
    BY <1>0, <1>2, <1>3, <1>4, <2>1 DEF Asking, Numeric
  <2> QED
    BY <2>2 DEF OneInv, BlocksHeld
<1>6. phase = "judge" /\ Tipped =>
        \A slot \in produced' : start <= slot /\ slot <= checkedEnd => slot \in blocks
  <2> SUFFICES ASSUME phase = "judge", Tipped, NEW slot \in produced', start <= slot, slot <= checkedEnd
               PROVE  slot \in blocks
    OBVIOUS
  <2>1. slot \in produced
    BY <1>0, <1>2, <1>3, <1>4 DEF Asking, Numeric
  <2> QED
    BY <2>1 DEF OneInv, BlocksHeld
<1>7. BlocksHeld'
  BY <1>1, <1>5, <1>6 DEF BlocksHeld, Asking, Tipped
<1>8. VerdictIsFinal'
  BY <1>1 DEF OneInv, VerdictIsFinal, Tipped
<1>9. PassIsComplete'
  <2>1. \A slot \in Window : slot \in Nat /\ slot <= end /\ end \in Nat /\ finalized \in Nat
    BY <1>0 DEF Window, Numeric
  <2>2. outcome = "Pass" /\ kind = "completeness" /\ Tipped =>
          \A slot \in produced' \cap Window : slot \in produced
    BY <1>3, <2>1 DEF OneInv, VerdictIsFinal
  <2> QED
    BY <1>1, <1>2, <2>2 DEF OneInv, Verdicts, PassIsComplete, Window, Tipped
<1>10. OrphanIsReal'
  <2>1. outcome = "Fail" /\ kind = "orphans" /\ Tipped =>
          \A slot \in finding : slot \in produced' => slot \in produced
    BY <1>3 DEF OneInv, VerdictIsFinal
  <2> QED
    BY <1>1, <2>1 DEF OneInv, Verdicts, OrphanIsReal, Window, Tipped
<1>11. SkipHidesNothing'
  <2>1. outcome = "NotFinalized" => Tipped
    BY DEF OneInv, VerdictIsFinal
  <2> QED
    BY <1>1, <1>2, <1>3, <2>1 DEF OneInv, Verdicts, SkipHidesNothing, Window, Tipped
<1> QED
  BY <1>7, <1>8, <1>9, <1>10, <1>11 DEF OneInv, Verdicts

(* One getBlocks call: the node has every block up to the finalized slot.  *)
LEMMA WindowKeepsOneInv ==
  ASSUME PoolInv, OneInv, NEW n \in Nodes, GetBlocksWindow(n), Tipped => finalized <= root[n]
  PROVE  OneInv'
<1> USE MaxU64Assumption, SlotsAreU64, MaxSlotAssumption, MaxRangeAssumption
<1> DEFINE we == WindowEnd(at, checkedEnd, MaxRange)
<1>1. /\ UNCHANGED <<tip, produced, root, kind, start, end, indexed, finalized, checkedEnd>>
      /\ UNCHANGED <<outcome, finding, floor>>
      /\ phase = "blocks" /\ start <= checkedEnd
      /\ blocks' = blocks \cup BlocksAt(n, at, we)
      /\ \/ we = checkedEnd /\ phase' = "judge" /\ at' = at
         \/ we # checkedEnd /\ phase' = phase /\ at' = we + 1
  BY DEF GetBlocksWindow, chainVars, request
<1>2. Numeric
  BY Numbers DEF PoolInv
<1>3. at <= checkedEnd
  BY <1>1 DEF PoolInv, Walk
<1>4. we \in Heights /\ we <= checkedEnd
  BY <1>2, <1>3 DEF WindowEnd, SaturatingAdd, Lower, Numeric
<1> HIDE DEF we
<1>5. ASSUME Tipped, NEW slot \in produced, start <= slot, slot <= we PROVE slot \in blocks'
  <2>1. CASE slot < at
    BY <2>1, <1>1, <1>5 DEF OneInv, BlocksHeld
  <2>2. CASE at <= slot
    <3>1. checkedEnd <= finalized
      BY <1>1, <1>2, <1>5 DEF PoolInv, Walk, Asking, Numeric, Lower
    <3>2. finalized <= root[n]
      BY <1>5
    <3>3. finalized \in Nat /\ root[n] \in Nat /\ slot \in Nat /\ checkedEnd \in Nat
      BY <1>2 DEF Numeric
    <3>4. slot <= root[n]
      BY <1>4, <1>5, <3>1, <3>2, <3>3
    <3> QED
      BY <3>4, <2>2, <1>1, <1>5 DEF BlocksAt
  <2> QED
    BY <2>1, <2>2, <1>2 DEF Numeric
<1>6. phase' = "blocks" /\ Tipped =>
        \A slot \in produced : start <= slot /\ slot < at' => slot \in blocks'
  BY <1>1, <1>2, <1>4, <1>5 DEF Numeric
<1>7. phase' = "judge" /\ Tipped =>
        \A slot \in produced : start <= slot /\ slot <= checkedEnd => slot \in blocks'
  BY <1>1, <1>5
<1>8. BlocksHeld'
  BY <1>1, <1>6, <1>7 DEF OneInv, BlocksHeld, Asking, Tipped
<1>9. VerdictIsFinal' /\ Verdicts'
  BY <1>1 DEF OneInv, VerdictIsFinal, Verdicts, PassIsComplete, OrphanIsReal,
              SkipHidesNothing, Window, Tipped
<1> QED
  BY <1>8, <1>9 DEF OneInv

(* What a judge finds when one node answered: the blocks of the window up  *)
(* to checkedEnd, all of them.                                             *)
LEMMA JudgeSeesAll ==
  ASSUME PoolInv, OneInv, phase = "judge", Tipped
  PROVE  /\ \A slot : slot \in blocks <=> slot \in produced /\ start <= slot /\ slot <= checkedEnd
         /\ \A slot \in Window : slot <= checkedEnd <=> slot <= finalized
         /\ checkedEnd < end <=> finalized < end
         /\ start <= finalized /\ start <= end /\ start <= checkedEnd
<1> USE MaxU64Assumption
<1>1. Numeric
  BY Numbers DEF PoolInv
<1>2. start <= finalized /\ checkedEnd = Lower(end, finalized) /\ start <= checkedEnd /\ checkedEnd <= end
  BY DEF PoolInv, Walk, Asking
<1>3. \A slot : slot \in blocks <=> slot \in produced /\ start <= slot /\ slot <= checkedEnd
  BY <1>1 DEF PoolInv, Walk, OneInv, BlocksHeld, Numeric
<1>4. \A slot \in Window : slot <= checkedEnd <=> slot <= finalized
  BY <1>1, <1>2 DEF Numeric, Window, Lower
<1>5. (checkedEnd < end <=> finalized < end) /\ start <= end
  BY <1>1, <1>2 DEF Numeric, Lower
<1> QED
  BY <1>2, <1>3, <1>4, <1>5

(* A completeness verdict from one node's answers.                         *)
LEMMA CompletenessKeepsOneInv ==
  ASSUME PoolInv, OneInv, JudgeCompleteness
  PROVE  OneInv'
<1> USE MaxU64Assumption
<1>1. /\ UNCHANGED <<tip, produced, root, kind, start, end, indexed, finalized, checkedEnd>>
      /\ phase = "judge" /\ phase' = "done" /\ kind = "completeness"
      /\ \/ outcome' = "Fail" /\ finding' = blocks \ indexed
         \/ outcome' = "NotFinalized" /\ blocks \ indexed = {} /\ Tipped /\ checkedEnd < end
         \/ outcome' = "Pass" /\ blocks \ indexed = {} /\ ~(Tipped /\ checkedEnd < end)
  BY DEF JudgeCompleteness, EndWith, chainVars, request, Tipped
<1>2. Numeric
  BY Numbers DEF PoolInv
<1>3. Tipped => /\ \A slot \in produced \cap Window : slot <= finalized => slot \in blocks
                /\ checkedEnd < end <=> finalized < end
  BY <1>1, JudgeSeesAll DEF Window
<1>4. BlocksHeld'
  BY <1>1 DEF BlocksHeld, Asking
<1>5. VerdictIsFinal'
  BY <1>1, <1>2, <1>3 DEF VerdictIsFinal, Tipped, Numeric
<1>6. PassIsComplete'
  BY <1>1, <1>2, <1>3 DEF PassIsComplete, Tipped, Window, Numeric
<1>7. SkipHidesNothing'
  BY <1>1, <1>3 DEF SkipHidesNothing, Tipped, Window
<1>8. OrphanIsReal'
  BY <1>1 DEF OrphanIsReal
<1> QED
  BY <1>4, <1>5, <1>6, <1>7, <1>8 DEF OneInv, Verdicts

(* An orphans verdict from one node's answers.                             *)
LEMMA OrphansKeepOneInv ==
  ASSUME PoolInv, OneInv, JudgeOrphans
  PROVE  OneInv'
<1> USE MaxU64Assumption
<1> DEFINE orphans == {slot \in indexed \cap Window : slot <= checkedEnd /\ slot \notin blocks}
           tail == {slot \in indexed \cap Window : slot > checkedEnd}
<1>1. /\ UNCHANGED <<tip, produced, root, kind, start, end, indexed, finalized, checkedEnd>>
      /\ phase = "judge" /\ phase' = "done" /\ kind = "orphans" /\ finding' = orphans
      /\ \/ outcome' = "Fail" /\ orphans # {}
         \/ outcome' = "NotFinalized" /\ orphans = {} /\ Tipped /\ tail # {}
         \/ outcome' = "Pass" /\ orphans = {} /\ ~(Tipped /\ tail # {})
  BY DEF JudgeOrphans, EndWith, chainVars, request, Tipped
<1>2. Numeric
  BY Numbers DEF PoolInv
<1>3. Tipped => /\ \A slot : slot \in blocks <=> slot \in produced /\ start <= slot /\ slot <= checkedEnd
                /\ \A slot \in Window : slot <= checkedEnd <=> slot <= finalized
  BY <1>1, JudgeSeesAll
<1>4. BlocksHeld'
  BY <1>1 DEF BlocksHeld, Asking
<1>5. VerdictIsFinal'
  BY <1>1, <1>3 DEF VerdictIsFinal, Tipped
<1>6. Tipped => \A slot \in orphans : slot \in (indexed \cap Window) \ produced
  BY <1>3 DEF Window
<1>7. OrphanIsReal'
  BY <1>1, <1>6 DEF OrphanIsReal, Tipped, Window
<1>8. orphans = {} /\ Tipped => \A slot \in indexed \cap Window : slot <= finalized => slot \in produced
  BY <1>3
<1>9. SkipHidesNothing'
  <2> SUFFICES ASSUME outcome' = "NotFinalized" PROVE SkipHidesNothing'
    BY DEF SkipHidesNothing
  <2>1. Tipped /\ orphans = {} /\ tail # {}
    BY <1>1
  <2>2. PICK slot \in indexed \cap Window : slot > checkedEnd
    BY <2>1
  <2>3. checkedEnd < end
    BY <2>2, <1>2 DEF Window, Numeric
  <2>4. finalized < end
    BY <2>1, <2>3, <1>1, JudgeSeesAll
  <2> QED
    BY <1>1, <1>8, <2>1, <2>4 DEF SkipHidesNothing, Window
<1>10. PassIsComplete'
  BY <1>1 DEF PassIsComplete
<1> QED
  BY <1>4, <1>5, <1>7, <1>9, <1>10 DEF OneInv, Verdicts

(* Every step keeps it, when no node behind answers.                       *)
LEMMA NextKeepsOneInv ==
  ASSUME PoolInv, OneInv, [Next]_vars, [AsFar]_vars
  PROVE  OneInv'
<1> USE MaxU64Assumption, SlotsAreU64, MaxSlotAssumption
<1>0. Numeric
  BY Numbers DEF PoolInv
<1>1. ASSUME NEW n \in Nodes, NothingFinal(n) PROVE OneInv'
  <2>1. /\ UNCHANGED <<tip, produced, root, kind, start, end, indexed>>
        /\ phase' = "done" /\ outcome' = "NotFinalized" /\ finalized' = root[n] /\ root[n] < start
    BY <1>1 DEF NothingFinal, Begin, chainVars, request
  <2>2. root[n] \in Heights /\ root[n] # Unknown
    BY <1>0 DEF Numeric, Unknown
  <2>3. \A slot \in Window : ~(slot <= root[n])
    BY <2>1, <1>0 DEF Window, Numeric
  <2>4. BlocksHeld' /\ VerdictIsFinal'
    BY <2>1, <2>2 DEF BlocksHeld, VerdictIsFinal, Asking, Tipped
  <2>5. SkipHidesNothing'
    BY <2>1, <2>3 DEF SkipHidesNothing, Window
  <2> QED
    BY <2>1, <2>4, <2>5 DEF OneInv, Verdicts, PassIsComplete, OrphanIsReal
<1>2. ASSUME NEW n \in Nodes, Upto(n) PROVE OneInv'
  <2>1. /\ UNCHANGED <<tip, produced, root, kind, start, end, indexed, at, blocks, outcome>>
        /\ phase = "reach" /\ phase' = "blocks" /\ finalized' = root[n]
    BY <1>2 DEF Upto, Begin, chainVars, request
  <2>2. outcome = "none" /\ at = start
    BY <2>1 DEF PoolInv, Control
  <2>3. \A slot \in produced : ~(start <= slot /\ slot < start)
    BY <1>0 DEF Numeric
  <2>4. BlocksHeld'
    BY <2>1, <2>2, <2>3 DEF BlocksHeld
  <2> QED
    BY <2>1, <2>2, <2>4 DEF OneInv, VerdictIsFinal, Verdicts, PassIsComplete, OrphanIsReal,
                            SkipHidesNothing
<1>3. ASSUME AsFar, \E n \in Nodes : GetBlocksWindow(n) PROVE OneInv'
  <2>1. PICK n \in Nodes : GetBlocksWindow(n) /\ (Tipped => finalized <= root[n])
    BY <1>3 DEF AsFar
  <2> QED
    BY <2>1, WindowKeepsOneInv
<1>4. ASSUME phase = "reach" \/ kind = "gaps", phase' # "done", finalized' = finalized, kind' = kind,
             outcome = "none", outcome' = "none"
      PROVE  OneInv'
  <2>1. finalized' = Unknown
    BY <1>4 DEF PoolInv, Control
  <2> QED
    BY <1>4, <2>1 DEF OneInv, BlocksHeld, VerdictIsFinal, Verdicts, PassIsComplete,
                      OrphanIsReal, SkipHidesNothing, Tipped
<1>5. ASSUME NEW slots, EndWith("Unreachable", slots) \/ EndWith("List", slots) PROVE OneInv'
  BY <1>5 DEF EndWith, OneInv, BlocksHeld, VerdictIsFinal, Verdicts, PassIsComplete,
              OrphanIsReal, SkipHidesNothing, Asking
<1>6. CASE UptoUnknown
  BY <1>4, <1>6 DEF UptoUnknown, Begin, request, PoolInv, Control
<1>7. CASE BeginGaps
  BY <1>4, <1>7 DEF BeginGaps, Begin, request, PoolInv, Control
<1>8. CASE GetSlotFails \/ BackwardGaps \/ GetBlocksFails \/ ReturnGaps
  BY <1>5, <1>8 DEF GetSlotFails, BackwardGaps, GetBlocksFails, ReturnGaps
<1>9. CASE UNCHANGED vars
  <2>1. /\ UNCHANGED <<tip, produced, root, kind, start, end, indexed, finalized, checkedEnd>>
        /\ UNCHANGED <<phase, at, blocks, floor, finding, outcome>>
    BY <1>9 DEF vars, chainVars, checkVars, request
  <2> QED
    BY <2>1 DEF OneInv, BlocksHeld, VerdictIsFinal, Verdicts, PassIsComplete,
                OrphanIsReal, SkipHidesNothing, Asking, Tipped, Window
<1> QED
  BY <1>1, <1>2, <1>3, <1>6, <1>7, <1>8, <1>9, ChainKeepsOneInv, CompletenessKeepsOneInv, OrphansKeepOneInv
  DEF Next, CheckNext

(* The whole invariant, when no node behind answers.                       *)
LEMMA OneInvHolds == Spec /\ [][AsFar]_vars => [](PoolInv /\ OneInv)
<1>1. Init => PoolInv /\ OneInv
  BY InitPoolInv, InitOneInv
<1>2. PoolInv /\ OneInv /\ [Next]_vars /\ [AsFar]_vars => (PoolInv /\ OneInv)'
  BY NextKeepsPoolInv, NextKeepsOneInv
<1> QED
  BY <1>1, <1>2, PTL DEF Spec

(* If getBlocks is never answered by a node behind the slot that getSlot   *)
(* answered, verdicts hold for good: a Pass is complete, a Fail names real *)
(* orphans and a skip never stands in for a Fail.  No node need be the     *)
(* same as another; what coverage_pool needs to go wrong is all there is.  *)
THEOREM FarEnoughVerdictsHold ==
  Spec /\ [][AsFar]_vars => [](PassIsComplete /\ OrphanIsReal /\ SkipHidesNothing)
<1>1. PoolInv /\ OneInv => PassIsComplete /\ OrphanIsReal /\ SkipHidesNothing
  BY DEF OneInv, Verdicts
<1> QED
  BY <1>1, OneInvHolds, PTL

(* A check's first step, the one that ends it and the chain's own steps    *)
(* are steps of the promise; the calls between them do not show there.     *)
LEMMA InitPromise == Init => Promise!Init
BY MaxU64Assumption DEF Init, ChainInit, Promise!Init, Promise!Heights, Tipped

(* The completeness verdict is the promise's, made at the finalized slot.  *)
LEMMA CompletenessDecides ==
  ASSUME PoolInv, OneInv, JudgeCompleteness, Tipped
  PROVE  Promise!Decide(finalized)
<1> USE MaxU64Assumption
<1>1. /\ UNCHANGED <<tip, produced, kind, start, end, indexed, finalized>>
      /\ phase = "judge" /\ kind = "completeness" /\ finding' = blocks \ indexed
      /\ outcome' = IF blocks \ indexed # {} THEN "Fail" ELSE IF checkedEnd < end THEN "NotFinalized" ELSE "Pass"
  BY DEF JudgeCompleteness, EndWith, chainVars, request, Tipped
<1>2. Numeric /\ outcome = "none"
  BY <1>1, Numbers DEF PoolInv, Control
<1>3. /\ \A slot : slot \in blocks <=> slot \in produced /\ start <= slot /\ slot <= checkedEnd
      /\ \A slot \in Window : slot <= checkedEnd <=> slot <= finalized
      /\ checkedEnd < end <=> finalized < end
      /\ start <= finalized /\ start <= end /\ start <= checkedEnd
  BY <1>1, JudgeSeesAll
<1>4. checkedEnd <= end
  BY DEF PoolInv, Walk
<1>5. ASSUME NEW slot
      PROVE  slot \in blocks <=> slot \in produced /\ slot \in Promise!FinalWindow(finalized)
  <2>1. slot \in produced => slot \in Heights
    BY <1>2 DEF Numeric
  <2>2. slot \in produced /\ start <= slot /\ slot <= checkedEnd => slot \in Window /\ slot <= end
    BY <2>1, <1>2, <1>4 DEF Numeric, Window
  <2>3. slot \in Window /\ slot <= finalized => slot <= checkedEnd
    BY <1>3
  <2> QED
    BY <2>1, <2>2, <2>3, <1>3 DEF Promise!FinalWindow, Promise!Heights, Window
<1>6. Promise!Findings(finalized) = blocks \ indexed
  BY <1>1, <1>5 DEF Promise!Findings
<1>7. Promise!TailOpen(finalized) <=> checkedEnd < end
  BY <1>1, <1>3 DEF Promise!TailOpen
<1>8. ~(finalized < start)
  BY <1>2, <1>3 DEF Numeric
<1> QED
  BY <1>1, <1>2, <1>3, <1>6, <1>7, <1>8 DEF Promise!Decide, Promise!request, Tipped

(* So is the orphans verdict.                                              *)
LEMMA OrphansDecide ==
  ASSUME PoolInv, OneInv, JudgeOrphans, Tipped
  PROVE  Promise!Decide(finalized)
<1> USE MaxU64Assumption
<1> DEFINE orphans == {slot \in indexed \cap Window : slot <= checkedEnd /\ slot \notin blocks}
           tail == {slot \in indexed \cap Window : slot > checkedEnd}
<1>1. /\ UNCHANGED <<tip, produced, kind, start, end, indexed, finalized>>
      /\ phase = "judge" /\ kind = "orphans" /\ finding' = orphans
      /\ outcome' = IF orphans # {} THEN "Fail" ELSE IF tail # {} THEN "NotFinalized" ELSE "Pass"
  BY DEF JudgeOrphans, EndWith, chainVars, request, Tipped
<1>2. Numeric /\ outcome = "none"
  BY <1>1, Numbers DEF PoolInv, Control
<1>3. /\ \A slot : slot \in blocks <=> slot \in produced /\ start <= slot /\ slot <= checkedEnd
      /\ \A slot \in Window : slot <= checkedEnd <=> slot <= finalized
      /\ checkedEnd < end <=> finalized < end
      /\ start <= finalized /\ start <= end /\ start <= checkedEnd
  BY <1>1, JudgeSeesAll
<1>4. \A slot : slot \in Promise!FinalWindow(finalized) <=> slot \in Window /\ slot <= checkedEnd
  BY <1>3 DEF Promise!FinalWindow, Promise!Heights, Window
<1>5. Promise!Findings(finalized) = orphans
  <2>1. \A slot : slot \in orphans <=> slot \in (indexed \cap Promise!FinalWindow(finalized)) \ produced
    BY <1>3, <1>4 DEF Window
  <2>2. orphans = (indexed \cap Promise!FinalWindow(finalized)) \ produced
    BY <2>1
  <2> QED
    BY <2>2, <1>1 DEF Promise!Findings
<1>6. Promise!TailOpen(finalized) <=> tail # {}
  <2>1. ASSUME tail # {} PROVE Promise!TailOpen(finalized)
    <3>1. PICK slot \in indexed \cap Window : slot > checkedEnd
      BY <2>1
    <3>2. slot \in Nat /\ checkedEnd \in Nat /\ finalized \in Nat /\ end \in Nat
      BY <1>2 DEF Numeric, Window
    <3>3. start <= slot /\ slot <= end /\ ~(slot <= finalized)
      BY <3>1, <3>2, <1>3 DEF Window
    <3> QED
      BY <3>1, <3>2, <3>3 DEF Promise!TailOpen
  <2>2. ASSUME Promise!TailOpen(finalized) PROVE tail # {}
    <3>1. PICK slot \in indexed : start <= slot /\ slot <= end /\ finalized < slot
      BY <2>2, <1>1 DEF Promise!TailOpen
    <3>2. slot \in Heights
      BY DEF PoolInv, TypeOK
    <3>3. slot \in Window /\ slot > checkedEnd
      BY <3>1, <3>2, <1>2, <1>3 DEF Window, Numeric
    <3> QED
      BY <3>3
  <2> QED
    BY <2>1, <2>2
<1>7. ~(finalized < start)
  BY <1>2, <1>3 DEF Numeric
<1> QED
  BY <1>1, <1>2, <1>3, <1>5, <1>6, <1>7 DEF Promise!Decide, Promise!request, Tipped

(* Each step of a check or the chain is a step of the promise or shows     *)
(* nothing there.                                                          *)
LEMMA NextPromise ==
  ASSUME PoolInv, OneInv, [Next]_vars
  PROVE  [Promise!Next]_(Promise!vars)
<1> USE MaxU64Assumption
<1>0. Numeric
  BY Numbers DEF PoolInv
<1> DEFINE Shown == <<tip, produced, kind, start, end, indexed,
                      IF Tipped THEN outcome ELSE "none", IF Tipped THEN finding ELSE {}>>
<1>1. ASSUME UNCHANGED Shown PROVE UNCHANGED Promise!vars
  BY <1>1 DEF Promise!vars, Promise!request
<1>2. ASSUME NEW n \in Nodes, NothingFinal(n) PROVE Promise!Next
  <2>1. /\ UNCHANGED <<tip, produced, kind, start, end, indexed, finding>>
        /\ phase = "reach" /\ outcome' = "NotFinalized" /\ finalized' = root[n] /\ root[n] < start
    BY <1>2 DEF NothingFinal, Begin, chainVars, request
  <2>2. root[n] \in 0..tip /\ root[n] # Unknown
    BY <1>0 DEF Numeric, Unknown
  <2>3. ~Tipped /\ outcome = "none" /\ finding = {} /\ Tipped'
    BY <2>1, <2>2 DEF PoolInv, Control, Tipped
  <2>4. Promise!Decide(root[n])
    BY <2>1, <2>3 DEF Promise!Decide, Promise!request
  <2> QED
    BY <2>2, <2>4 DEF Promise!Next
<1>3. ASSUME NEW n \in Nodes, Upto(n) \/ GetBlocksWindow(n) PROVE UNCHANGED Shown
  <2>1. UNCHANGED <<tip, produced, kind, start, end, indexed, outcome, finding>>
    BY <1>3 DEF Upto, Begin, GetBlocksWindow, chainVars, request
  <2>2. outcome = "none" /\ finding = {}
    BY <1>3 DEF PoolInv, Control, Upto, Begin, GetBlocksWindow
  <2> QED
    BY <2>1, <2>2
<1>4. CASE UptoUnknown \/ GetSlotFails \/ BeginGaps \/ BackwardGaps
  <2>1. UNCHANGED <<tip, produced, kind, start, end, indexed, finalized>> /\ phase = "reach"
    BY <1>4 DEF UptoUnknown, GetSlotFails, BeginGaps, BackwardGaps, Begin, EndWith, chainVars, request
  <2>2. ~Tipped /\ ~Tipped'
    BY <2>1 DEF PoolInv, Control, Tipped
  <2> QED
    BY <1>1, <2>1, <2>2
<1>5. ASSUME NEW verdict, NEW slots, EndWith(verdict, slots), ~Tipped PROVE UNCHANGED Shown
  BY <1>5 DEF EndWith, chainVars, request, Tipped
<1>6. CASE ReturnGaps
  <2>1. ~Tipped /\ EndWith("List", blocks)
    BY <1>6 DEF ReturnGaps, PoolInv, Control, Tipped
  <2> QED
    BY <1>1, <1>5, <2>1
<1>7. CASE GetBlocksFails
  <2>1. EndWith("Unreachable", {}) /\ outcome = "none" /\ finding = {}
    BY <1>7 DEF GetBlocksFails, PoolInv, Control
  <2>2. CASE Tipped
    <3>1. Promise!GiveUp
      BY <2>1, <2>2 DEF EndWith, chainVars, request, Promise!GiveUp, Promise!request, Tipped
    <3> QED
      BY <3>1 DEF Promise!Next
  <2> QED
    BY <1>1, <1>5, <2>1, <2>2
<1>8. CASE JudgeCompleteness
  <2>1. CASE Tipped
    <3>1. Promise!Decide(finalized) /\ finalized \in 0..tip
      BY <1>8, <2>1, <1>0, CompletenessDecides DEF PoolInv, Walk, Numeric
    <3> QED
      BY <3>1 DEF Promise!Next
  <2>2. PICK verdict, slots : EndWith(verdict, slots)
    BY <1>8 DEF JudgeCompleteness
  <2> QED
    BY <1>1, <1>5, <2>1, <2>2
<1>9. CASE JudgeOrphans
  <2>1. CASE Tipped
    <3>1. Promise!Decide(finalized) /\ finalized \in 0..tip
      BY <1>9, <2>1, <1>0, OrphansDecide DEF PoolInv, Walk, Numeric
    <3> QED
      BY <3>1 DEF Promise!Next
  <2>2. PICK verdict, slots : EndWith(verdict, slots)
    BY <1>9 DEF JudgeOrphans
  <2> QED
    BY <1>1, <1>5, <2>1, <2>2
<1>10. CASE ChainStep
  <2>1. CASE Finalize
    <3>1. Promise!Grow
      BY <1>10, <2>1 DEF ChainStep, checkVars, request, Finalize, Promise!Grow, Promise!request, Tipped
    <3> QED
      BY <3>1 DEF Promise!Next
  <2>2. CASE \E n \in Nodes : CatchUp(n)
    BY <1>1, <1>10, <2>2 DEF ChainStep, checkVars, request, CatchUp, Tipped
  <2> QED
    BY <1>10, <2>1, <2>2 DEF ChainStep, ChainNext
<1>11. CASE UNCHANGED vars
  BY <1>1, <1>11 DEF vars, chainVars, checkVars, request, Tipped
<1> QED
  BY <1>1, <1>2, <1>3, <1>4, <1>6, <1>7, <1>8, <1>9, <1>10, <1>11 DEF Next, CheckNext

(* Then the calls of a check add up to one look at the chain: the check    *)
(* implements CoveragePromise.                                             *)
THEOREM FarEnoughIsOneLook == Spec /\ [][AsFar]_vars => OneLook
<1>1. PoolInv /\ OneInv /\ [Next]_vars => [Promise!Next]_(Promise!vars)
  BY NextPromise
<1> QED
  BY <1>1, InitPromise, OneInvHolds, PTL DEF Spec, OneLook, Promise!Spec

\* What one node has called final is final for whoever answers next.
Known == Asking /\ Tipped => \A n \in Nodes : finalized <= root[n]

(* A node never forgets what it finalized, so one node is always as far as *)
(* it was.                                                                 *)
LEMMA OneNodeIsFarEnough == ASSUME OneNode PROVE Spec => [][AsFar]_vars
<1>1. Init => Known
  BY DEF Init, Known, Asking
<1>2. PoolInv /\ Known /\ [Next]_vars => Known'
  <2> SUFFICES ASSUME PoolInv, Known, [Next]_vars PROVE Known'
    OBVIOUS
  <2>0. Numeric
    BY Numbers DEF PoolInv
  <2>1. ASSUME NEW n \in Nodes, Upto(n) PROVE Known'
    BY <2>0, <2>1 DEF Upto, Begin, chainVars, OneNode, Known, Numeric
  <2>2. ASSUME NEW n \in Nodes, GetBlocksWindow(n) PROVE Known'
    BY <2>2 DEF GetBlocksWindow, chainVars, Known, Asking, Tipped
  <2>3. ASSUME phase' = "done" PROVE Known'
    BY <2>3 DEF Known, Asking
  <2>4. CASE UptoUnknown \/ BeginGaps
    BY <2>4 DEF UptoUnknown, BeginGaps, Begin, PoolInv, Control, Known, Tipped
  <2>5. CASE ChainStep
    <3>1. UNCHANGED <<phase, finalized>> /\ \A n \in Nodes : root'[n] \in Nat /\ root[n] <= root'[n]
      BY <2>5, ChainGrows DEF PoolInv
    <3> QED
      BY <3>1, <2>0 DEF Known, Asking, Tipped, Numeric
  <2>6. CASE UNCHANGED vars
    BY <2>6 DEF vars, chainVars, checkVars, Known, Asking, Tipped
  <2>7. CASE \/ \E n \in Nodes : NothingFinal(n)
             \/ GetSlotFails \/ BackwardGaps \/ GetBlocksFails
             \/ JudgeCompleteness \/ JudgeOrphans \/ ReturnGaps
    BY <2>3, <2>7 DEF NothingFinal, GetSlotFails, BackwardGaps, GetBlocksFails, JudgeCompleteness,
                      JudgeOrphans, ReturnGaps, EndWith
  <2> QED
    BY <2>1, <2>2, <2>4, <2>5, <2>6, <2>7 DEF Next, CheckNext
<1>3. Known => AsFar
  BY DEF Known, AsFar, Asking, GetBlocksWindow
<1> QED
  BY <1>1, <1>2, <1>3, PoolInvHolds, PTL DEF Spec

(* One node answering every call: its verdicts hold for good.              *)
THEOREM OneNodeVerdictsHold ==
  ASSUME OneNode
  PROVE  Spec => [](PassIsComplete /\ OrphanIsReal /\ SkipHidesNothing)
BY OneNodeIsFarEnough, FarEnoughVerdictsHold, PTL

(* One node answering every call: they are as good as one look.            *)
THEOREM OneNodeIsOneLook ==
  ASSUME OneNode
  PROVE  Spec => OneLook
BY OneNodeIsFarEnough, FarEnoughIsOneLook, PTL
=============================================================================
