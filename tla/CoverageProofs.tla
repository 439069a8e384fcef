--------------------------- MODULE CoverageProofs ---------------------------
(***************************************************************************)
(* Coverage for every chain, window, index and number of nodes: what a     *)
(* verdict is worth whoever answers the calls, and what it is worth when   *)
(* one node answers them all.                                              *)
(***************************************************************************)
EXTENDS Coverage, TLAPS

Asking == phase \in {"blocks", "judge"}

\* Control: an outcome is given once, at the end, from what the calls left.
Control ==
  /\ outcome = "none" <=> phase # "done"
  /\ outcome = "none" => finding = {}
  /\ phase = "reach" => /\ finalized = Unknown /\ blocks = {}
                        /\ at = start /\ checkedEnd = end
  /\ kind = "gaps" => finalized = Unknown
  /\ finalized = Unknown => checkedEnd = end

\* Where the window walk stands.
Walk ==
  /\ checkedEnd <= end
  /\ \A slot \in blocks : start <= slot /\ slot <= checkedEnd
  /\ phase = "blocks" =>
       /\ start <= at
       /\ checkedEnd < start => at = start
       /\ start <= checkedEnd => at <= checkedEnd
  /\ phase = "judge" => start <= checkedEnd
  /\ Tipped => finalized <= tip
  /\ Asking /\ Tipped => start <= finalized /\ checkedEnd = Lower(end, finalized)

\* What has been asked for and was final everywhere at the start is held.
FloorHeld ==
  /\ floor <= tip
  /\ phase = "reach" => floor = 0
  /\ Tipped => floor <= finalized
  /\ Asking => \A n \in Nodes : floor <= root[n]
  /\ phase = "blocks" => \A slot \in produced : start <= slot /\ slot < at /\ slot <= floor => slot \in blocks
  /\ phase = "judge" => \A slot \in produced : start <= slot /\ slot <= checkedEnd /\ slot <= floor => slot \in blocks

PoolVerdicts == MissingIsReal /\ PassHasNoOrphan /\ SettledIsExact

PoolInv == TypeOK /\ Control /\ Walk /\ FloorHeld /\ PoolVerdicts

\* A verdict and the slots it names are right as far as the floor.
Exact(verdict, slots) ==
  /\ kind = "completeness" => slots \cap Settled = (produced \cap Settled) \ indexed
  /\ kind = "orphans" => slots \cap Settled = (indexed \cap Settled) \ produced
  /\ kind = "gaps" => slots \cap Settled = produced \cap Settled /\ slots \subseteq produced \cap Window
  /\ kind # "gaps" => (verdict = "Fail" <=> slots # {})

USE DEF Heights

\* The numbers in a state: slots of blocks and nodes' roots are naturals no
\* higher than the tip, which is a slot of the type.
Numeric ==
  /\ tip \in Nat /\ tip <= MaxSlot /\ tip \in Heights
  /\ \A slot \in produced : slot \in Nat /\ 1 <= slot /\ slot <= tip /\ slot \in Heights
  /\ \A n \in Nodes : root[n] \in Nat /\ root[n] <= tip /\ root[n] \in Heights
  /\ start \in Nat /\ end \in Nat /\ checkedEnd \in Nat /\ at \in Nat /\ floor \in Nat
  /\ start \in Heights /\ end \in Heights /\ checkedEnd \in Heights /\ at \in Heights
  /\ finalized \in Nat /\ (Tipped => finalized \in Heights)
  /\ \A slot \in blocks : slot \in produced

(* What typing says of the numbers, spelled out for the arithmetic below.  *)
LEMMA Numbers == TypeOK => Numeric
<1> SUFFICES ASSUME TypeOK PROVE Numeric
  OBVIOUS
<1> USE MaxU64Assumption, SlotsAreU64, MaxSlotAssumption DEF TypeOK, ChainTypeOK
<1>1. tip \in Nat /\ tip <= MaxSlot /\ tip \in Heights
  OBVIOUS
<1>2. \A slot \in produced : slot \in Nat /\ 1 <= slot /\ slot <= tip /\ slot \in Heights
  BY <1>1
<1>3. \A n \in Nodes : root[n] \in produced \/ root[n] = 0
  OBVIOUS
<1>4. ASSUME NEW n \in Nodes PROVE root[n] \in Nat /\ root[n] <= tip /\ root[n] \in Heights
  <2>1. CASE root[n] = 0
    BY <2>1, <1>1
  <2>2. CASE root[n] \in produced
    BY <2>2, <1>2
  <2> QED
    BY <2>1, <2>2, <1>3
<1>5. /\ start \in Nat /\ end \in Nat /\ checkedEnd \in Nat /\ at \in Nat /\ floor \in Nat
      /\ start \in Heights /\ end \in Heights /\ checkedEnd \in Heights /\ at \in Heights
      /\ \A slot \in blocks : slot \in produced
  OBVIOUS
<1>6. finalized \in Nat /\ (Tipped => finalized \in Heights)
  BY DEF Tipped, Unknown
<1> QED
  BY <1>1, <1>2, <1>4, <1>5, <1>6 DEF Numeric

(* The initial states satisfy the invariant that needs no assumption on    *)
(* the nodes.                                                              *)
LEMMA InitPoolInv == Init => PoolInv
<1> SUFFICES ASSUME Init PROVE PoolInv
  OBVIOUS
<1> USE MaxU64Assumption, SlotsAreU64, MaxSlotAssumption DEF Init, ChainInit
<1>1. TypeOK
  BY DEF TypeOK, ChainTypeOK, Outcomes, Unknown
<1>2. Control
  BY DEF Control
<1>3. Walk
  BY DEF Walk, Asking, Tipped
<1>4. FloorHeld
  BY DEF FloorHeld, Asking, Tipped
<1>5. PoolVerdicts
  BY DEF PoolVerdicts, MissingIsReal, PassHasNoOrphan, SettledIsExact
<1> QED
  BY <1>1, <1>2, <1>3, <1>4, <1>5 DEF PoolInv

(* The chain only grows, above its tip, and a node only catches up.        *)
LEMMA ChainGrows ==
  ASSUME TypeOK, ChainStep
  PROVE  /\ UNCHANGED <<kind, start, end, indexed, phase, finalized, checkedEnd, at, blocks>>
         /\ UNCHANGED <<outcome, finding, floor>>
         /\ tip' \in 0..MaxSlot /\ tip <= tip'
         /\ produced' \in SUBSET (1..tip') /\ produced \subseteq produced'
         /\ \A slot \in produced' \ produced : tip < slot
         /\ root' \in [Nodes -> produced' \cup {0}]
         /\ \A n \in Nodes : root'[n] \in Nat /\ root[n] <= root'[n]
<1> USE MaxU64Assumption, SlotsAreU64, MaxSlotAssumption
<1>0. Numeric
  BY Numbers
<1>1. /\ UNCHANGED <<kind, start, end, indexed, phase, finalized, checkedEnd, at, blocks>>
      /\ UNCHANGED <<outcome, finding, floor>>
  BY DEF ChainStep, checkVars, request
<1>2. CASE Finalize
  <2>1. PICK slot \in (tip + 1)..MaxSlot :
          tip' = slot /\ produced' = produced \cup {slot} /\ root' = root
    BY <1>2 DEF Finalize
  <2>2. tip' \in 0..MaxSlot /\ tip <= tip' /\ \A s \in produced' : s \in 1..tip'
    BY <2>1, <1>0 DEF Numeric
  <2>3. root' \in [Nodes -> produced' \cup {0}]
    BY <2>1 DEF TypeOK, ChainTypeOK
  <2> QED
    BY <1>1, <2>1, <2>2, <2>3, <1>0 DEF Numeric
<1>3. CASE \E n \in Nodes : CatchUp(n)
  <2>1. PICK n \in Nodes, slot \in produced :
          slot > root[n] /\ root' = [root EXCEPT ![n] = slot] /\ UNCHANGED <<tip, produced>>
    BY <1>3 DEF CatchUp
  <2>2. \A m \in Nodes : root'[m] = IF m = n THEN slot ELSE root[m]
    BY <2>1 DEF TypeOK, ChainTypeOK
  <2>3. root' \in [Nodes -> produced' \cup {0}]
    BY <2>1 DEF TypeOK, ChainTypeOK
  <2> QED
    BY <1>1, <2>1, <2>2, <2>3, <1>0 DEF Numeric, TypeOK, ChainTypeOK
<1> QED
  BY <1>2, <1>3 DEF ChainStep, ChainNext

(* A block that finalizes is above everything a check has asked for, and a *)
(* node that catches up only has more to answer with.                      *)
LEMMA ChainKeepsPoolInv == PoolInv /\ ChainStep => PoolInv'
<1> SUFFICES ASSUME PoolInv, ChainStep PROVE PoolInv'
  OBVIOUS
<1> USE MaxU64Assumption, SlotsAreU64, MaxSlotAssumption
<1>0. TypeOK /\ Numeric
  BY Numbers DEF PoolInv
<1>1. /\ UNCHANGED <<kind, start, end, indexed, phase, finalized, checkedEnd, at, blocks>>
      /\ UNCHANGED <<outcome, finding, floor>>
  BY <1>0, ChainGrows
<1>2. /\ tip' \in 0..MaxSlot /\ tip <= tip'
      /\ produced' \in SUBSET (1..tip') /\ produced \subseteq produced'
      /\ \A slot \in produced' \ produced : tip < slot
      /\ root' \in [Nodes -> produced' \cup {0}]
      /\ \A n \in Nodes : root'[n] \in Nat /\ root[n] <= root'[n]
  BY <1>0, ChainGrows
<1>3. TypeOK'
  BY <1>1, <1>2 DEF PoolInv, TypeOK, ChainTypeOK
<1>4. Control'
  BY <1>1 DEF PoolInv, Control
<1>5. Walk'
  BY <1>1, <1>2 DEF PoolInv, Walk, Asking, Tipped, TypeOK, ChainTypeOK, Unknown
<1>6. \A slot \in produced' : slot <= floor => slot \in produced
  BY <1>0, <1>2 DEF PoolInv, FloorHeld, Numeric
<1>7. FloorHeld'
  <2>1. floor <= tip'
    BY <1>0, <1>2 DEF PoolInv, FloorHeld, Numeric
  <2>2. ASSUME Asking, NEW n \in Nodes PROVE floor <= root'[n]
    <3>1. root'[n] \in Nat /\ root[n] <= root'[n] /\ floor <= root[n]
      BY <1>0, <1>2, <2>2 DEF PoolInv, FloorHeld, Numeric
    <3> QED
      BY <3>1, <1>0 DEF Numeric
  <2> QED
    BY <1>1, <1>6, <2>1, <2>2 DEF PoolInv, FloorHeld, Asking, Tipped
<1>8. MissingIsReal' /\ PassHasNoOrphan'
  BY <1>1, <1>2 DEF PoolInv, PoolVerdicts, MissingIsReal, PassHasNoOrphan, Window, Tipped
<1>9. SettledIsExact'
  <2>1. Settled' = Settled /\ Window' = Window
    BY <1>1 DEF Settled, Window
  <2>2. \A slot \in Settled : slot \in produced' <=> slot \in produced
    BY <1>2, <1>6 DEF Settled
  <2>3. SettledIsExact
    BY DEF PoolInv, PoolVerdicts
  <2>4. produced' \cap Settled = produced \cap Settled /\ (indexed \cap Settled) \ produced' = (indexed \cap Settled) \ produced
    BY <2>2
  <2> QED
    BY <1>1, <1>2, <2>1, <2>3, <2>4 DEF SettledIsExact
<1> QED
  BY <1>3, <1>4, <1>5, <1>7, <1>8, <1>9 DEF PoolInv, PoolVerdicts

(* One getBlocks call: the walk moves on by the window it asked for.       *)
LEMMA WindowKeepsPoolInv ==
  ASSUME PoolInv, NEW n \in Nodes, GetBlocksWindow(n)
  PROVE  PoolInv'
<1> USE MaxU64Assumption, SlotsAreU64, MaxSlotAssumption, MaxRangeAssumption
<1> DEFINE we == WindowEnd(at, checkedEnd, MaxRange)
<1>1. /\ UNCHANGED <<tip, produced, root, kind, start, end, indexed, finalized, checkedEnd>>
      /\ UNCHANGED <<outcome, finding, floor>>
      /\ phase = "blocks" /\ start <= checkedEnd
      /\ blocks' = blocks \cup BlocksAt(n, at, we)
      /\ \/ we = checkedEnd /\ phase' = "judge" /\ at' = at
         \/ we # checkedEnd /\ phase' = phase /\ at' = we + 1
  BY DEF GetBlocksWindow, chainVars, request
<1>2. Numeric
  BY Numbers DEF PoolInv
<1>2a. /\ at \in Heights /\ checkedEnd \in Heights /\ start \in Heights /\ end \in Heights
       /\ floor \in Heights
  BY <1>2 DEF PoolInv, TypeOK
<1>2b. /\ start <= at /\ at <= checkedEnd /\ checkedEnd <= end
       /\ floor <= root[n] /\ floor <= tip
  BY <1>1 DEF PoolInv, Walk, FloorHeld, Asking
<1>3. we \in Heights /\ at <= we /\ we <= checkedEnd
  BY <1>2a, <1>2b DEF WindowEnd, SaturatingAdd, Lower
<1> HIDE DEF we
<1>4. blocks' \subseteq produced /\ blocks \subseteq blocks'
  BY <1>1 DEF PoolInv, TypeOK, BlocksAt
<1>5. \A slot \in blocks' : start <= slot /\ slot <= checkedEnd
  BY <1>1, <1>2, <1>2a, <1>2b, <1>3 DEF PoolInv, Walk, BlocksAt, Numeric
<1>6. \A slot \in produced : start <= slot /\ slot <= we /\ slot <= floor => slot \in blocks'
  <2> TAKE slot \in produced
  <2> HAVE start <= slot /\ slot <= we /\ slot <= floor
  <2>1. CASE slot < at
    BY <2>1, <1>1 DEF PoolInv, FloorHeld
  <2>2. CASE at <= slot
    BY <2>2, <1>1, <1>2, <1>2a, <1>2b, <1>3 DEF BlocksAt, Numeric
  <2> QED
    BY <2>1, <2>2, <1>2 DEF Numeric
<1>7. TypeOK'
  <2>1. at' \in Heights
    BY <1>1, <1>2a, <1>3
  <2> QED
    BY <2>1, <1>1, <1>4 DEF PoolInv, TypeOK, ChainTypeOK
<1>8. Control'
  BY <1>1 DEF PoolInv, Control
<1>9. Walk'
  BY <1>1, <1>2a, <1>2b, <1>3, <1>5 DEF PoolInv, Walk, Asking, Tipped
<1>10. FloorHeld'
  <2>1. phase' = "blocks" => \A slot \in produced : slot < at' => slot <= we
    BY <1>1, <1>2, <1>2a, <1>3 DEF Numeric
  <2>2. phase' = "judge" => we = checkedEnd
    BY <1>1
  <2>3. phase' = "blocks" =>
          \A slot \in produced : start <= slot /\ slot < at' /\ slot <= floor => slot \in blocks'
    BY <1>6, <2>1
  <2>4. phase' = "judge" =>
          \A slot \in produced : start <= slot /\ slot <= checkedEnd /\ slot <= floor => slot \in blocks'
    BY <1>6, <2>2
  <2>5. Asking /\ phase # "reach" /\ phase' # "reach"
    BY <1>1 DEF Asking
  <2> QED
    BY <1>1, <2>3, <2>4, <2>5 DEF PoolInv, FloorHeld, Tipped
<1>11. PoolVerdicts'
  BY <1>1 DEF PoolInv, Control, PoolVerdicts, MissingIsReal, PassHasNoOrphan, SettledIsExact
<1> QED
  BY <1>7, <1>8, <1>9, <1>10, <1>11 DEF PoolInv

(* The steps that end a check: only the outcome and what it names change.  *)
LEMMA EndKeepsPoolInv ==
  ASSUME PoolInv, NEW verdict \in Outcomes \ {"none"}, NEW slots \in SUBSET Heights,
         EndWith(verdict, slots), phase # "done",
         verdict = "Fail" /\ kind = "completeness" =>
           slots # {} /\ slots \subseteq (produced \cap Window) \ indexed,
         verdict = "Pass" /\ kind = "orphans" /\ Tipped => indexed \cap Window \subseteq produced,
         verdict # "Unreachable" => Exact(verdict, slots)
  PROVE  PoolInv'
<1>1. /\ UNCHANGED <<tip, produced, root, kind, start, end, indexed, finalized, checkedEnd>>
      /\ UNCHANGED <<at, blocks, floor>>
      /\ phase' = "done" /\ outcome' = verdict /\ finding' = slots
  BY DEF EndWith, chainVars, request
<1>2. TypeOK'
  BY <1>1 DEF PoolInv, TypeOK, ChainTypeOK
<1>3. Control'
  BY <1>1 DEF PoolInv, Control
<1>4. Walk'
  BY <1>1 DEF PoolInv, Walk, Asking, Tipped
<1>5. FloorHeld'
  BY <1>1 DEF PoolInv, FloorHeld, Asking, Tipped
<1>6. PoolVerdicts'
  BY <1>1 DEF PoolVerdicts, MissingIsReal, PassHasNoOrphan, SettledIsExact, Exact, Settled, Window, Tipped
<1> QED
  BY <1>2, <1>3, <1>4, <1>5, <1>6 DEF PoolInv

(* A check that begins notes what every node has finalized.                *)
LEMMA BeginTakesFloor ==
  ASSUME PoolInv, Begin
  PROVE  /\ UNCHANGED <<tip, produced, root, kind, start, end, indexed, at, blocks, finding>>
         /\ phase = "reach" /\ finding = {} /\ outcome = "none"
         /\ floor' \in Heights /\ floor' <= tip
         /\ \A n \in Nodes : floor' <= root[n]
         /\ \A slot \in produced : ~(start <= slot /\ slot < start)
BY Numbers DEF Begin, chainVars, request, PoolInv, Control, Numeric

(* As far as the floor, the slots read are the blocks there are.           *)
LEMMA SettledIsRead ==
  ASSUME PoolInv, phase = "judge"
  PROVE  \A slot \in Settled : slot <= checkedEnd /\ (slot \in blocks <=> slot \in produced)
<1>1. Numeric /\ checkedEnd \in Nat /\ floor \in Nat /\ end \in Nat
  BY Numbers DEF PoolInv, Numeric
<1>2. ASSUME NEW slot \in Settled PROVE start <= slot /\ slot <= end /\ slot <= floor /\ slot \in Nat
  BY DEF Settled, Window
<1>3. ASSUME NEW slot \in Settled PROVE slot <= checkedEnd
  <2>1. CASE ~Tipped
    BY <1>2, <2>1 DEF PoolInv, Control, Tipped
  <2>2. CASE Tipped
    <3>1. checkedEnd = Lower(end, finalized)
      BY <2>2 DEF PoolInv, Walk, Asking
    <3>2. floor <= finalized /\ finalized \in Nat
      BY <1>1, <2>2 DEF PoolInv, FloorHeld, Numeric
    <3> QED
      BY <1>1, <1>2, <3>1, <3>2 DEF Lower
  <2> QED
    BY <2>1, <2>2
<1>4. \A slot \in produced : start <= slot /\ slot <= checkedEnd /\ slot <= floor => slot \in blocks
  BY DEF PoolInv, FloorHeld
<1>5. blocks \subseteq produced
  BY DEF PoolInv, TypeOK
<1> QED
  BY <1>2, <1>3, <1>4, <1>5

(* Every step of the check and of the chain keeps the pool invariant.      *)
LEMMA NextKeepsPoolInv == PoolInv /\ [Next]_vars => PoolInv'
<1> SUFFICES ASSUME PoolInv, [Next]_vars PROVE PoolInv'
  OBVIOUS
<1> USE MaxU64Assumption, SlotsAreU64, MaxSlotAssumption
<1>1. ASSUME NEW n \in Nodes, NothingFinal(n) PROVE PoolInv'
  <2>1. /\ UNCHANGED <<tip, produced, root, kind, start, end, indexed, at, blocks, finding, checkedEnd>>
        /\ phase' = "done" /\ outcome' = "NotFinalized" /\ finding = {}
        /\ finalized' = root[n] /\ kind # "gaps" /\ root[n] < start
        /\ floor' \in Heights /\ floor' <= tip /\ floor' <= root[n]
    BY <1>1, BeginTakesFloor DEF NothingFinal
  <2>2. root[n] \in Heights /\ root[n] <= tip /\ start \in Heights
    BY Numbers DEF PoolInv, Numeric
  <2>3. TypeOK' /\ Control' /\ Walk' /\ FloorHeld'
    BY <2>1, <2>2 DEF PoolInv, TypeOK, ChainTypeOK, Outcomes, Control, Walk, FloorHeld, Asking, Tipped, Unknown
  <2>4. Settled' = {}
    BY <2>1, <2>2 DEF Settled, Window
  <2>5. PoolVerdicts'
    BY <2>1, <2>4 DEF PoolVerdicts, MissingIsReal, PassHasNoOrphan, SettledIsExact
  <2> QED
    BY <2>3, <2>5 DEF PoolInv
<1>2. ASSUME NEW n \in Nodes, Upto(n) PROVE PoolInv'
  <2>1. /\ UNCHANGED <<tip, produced, root, kind, start, end, indexed, at, blocks, finding, outcome>>
        /\ phase = "reach" /\ phase' = "blocks" /\ kind # "gaps" /\ outcome = "none"
        /\ finalized' = root[n] /\ checkedEnd' = Lower(end, root[n]) /\ start <= root[n]
        /\ floor' \in Heights /\ floor' <= tip /\ \A m \in Nodes : floor' <= root[m]
        /\ \A slot \in produced : ~(start <= slot /\ slot < start)
    BY <1>2, BeginTakesFloor DEF Upto
  <2>2. root[n] \in Heights /\ root[n] <= tip /\ tip \in Nat /\ end \in Heights
    BY Numbers DEF PoolInv, Numeric
  <2>3. checkedEnd' \in Heights /\ checkedEnd' <= end
    BY <2>1, <2>2 DEF Lower
  <2>4. TypeOK' /\ Control'
    BY <2>1, <2>2, <2>3 DEF PoolInv, TypeOK, ChainTypeOK, Control, Unknown
  <2>5. Walk'
    BY <2>1, <2>2, <2>3 DEF PoolInv, Control, TypeOK, Walk, Asking, Tipped
  <2>6. FloorHeld'
    BY <2>1 DEF PoolInv, FloorHeld, Asking, Control
  <2> QED
    BY <2>1, <2>4, <2>5, <2>6 DEF PoolInv, PoolVerdicts, MissingIsReal, PassHasNoOrphan, SettledIsExact
<1>3. ASSUME NEW n \in Nodes, GetBlocksWindow(n) PROVE PoolInv'
  BY <1>3, WindowKeepsPoolInv
<1>4. CASE UptoUnknown \/ BeginGaps
  <2>1. /\ UNCHANGED <<tip, produced, root, kind, start, end, indexed, at, blocks, finding, outcome>>
        /\ UNCHANGED <<finalized, checkedEnd>>
        /\ phase = "reach" /\ phase' = "blocks" /\ outcome = "none"
        /\ floor' \in Heights /\ floor' <= tip /\ \A m \in Nodes : floor' <= root[m]
        /\ \A slot \in produced : ~(start <= slot /\ slot < start)
    BY <1>4, BeginTakesFloor DEF UptoUnknown, BeginGaps
  <2>2. TypeOK' /\ Control'
    BY <2>1 DEF PoolInv, TypeOK, ChainTypeOK, Control
  <2>3. Walk'
    BY <2>1, Numbers DEF PoolInv, Control, Walk, Asking, Tipped, Numeric
  <2>4. FloorHeld'
    BY <2>1 DEF PoolInv, FloorHeld, Asking, Control, Tipped
  <2> QED
    BY <2>1, <2>2, <2>3, <2>4 DEF PoolInv, PoolVerdicts, MissingIsReal, PassHasNoOrphan, SettledIsExact
<1>5. CASE GetSlotFails
  BY <1>5, EndKeepsPoolInv DEF GetSlotFails, Outcomes
<1>7. CASE BackwardGaps
  <2>1. produced \cap Window = {} /\ Settled = {}
    BY <1>7, Numbers DEF PoolInv, Numeric, BackwardGaps, Window, Settled
  <2>2. Exact("List", {})
    BY <1>7, <2>1 DEF Exact, BackwardGaps
  <2> QED
    BY <1>7, <2>2, EndKeepsPoolInv DEF BackwardGaps, Outcomes
<1>8. CASE GetBlocksFails
  BY <1>8, EndKeepsPoolInv DEF GetBlocksFails, Outcomes
<1>9. phase = "judge" => blocks \subseteq produced \cap Window
  BY Numbers DEF PoolInv, Walk, Numeric, Window
<1>10. CASE JudgeCompleteness
  <2>1. phase = "judge" /\ kind = "completeness"
    BY <1>10 DEF JudgeCompleteness
  <2>2. blocks \ indexed \in SUBSET Heights
    BY <1>9, <2>1 DEF Window
  <2>3. PICK verdict \in {"Fail", "NotFinalized", "Pass"} :
          /\ EndWith(verdict, blocks \ indexed)
          /\ verdict = "Fail" <=> blocks \ indexed # {}
    BY <1>10 DEF JudgeCompleteness
  <2>4. blocks \ indexed \subseteq (produced \cap Window) \ indexed
    BY <1>9, <2>1
  <2>5. (blocks \ indexed) \cap Settled = (produced \cap Settled) \ indexed
    BY <2>1, SettledIsRead
  <2>6. Exact(verdict, blocks \ indexed)
    BY <2>1, <2>3, <2>5 DEF Exact
  <2> QED
    BY <2>1, <2>2, <2>3, <2>4, <2>6, EndKeepsPoolInv DEF Outcomes
<1>11. CASE JudgeOrphans
  <2> DEFINE orphans == {slot \in indexed \cap Window : slot <= checkedEnd /\ slot \notin blocks}
             tail == {slot \in indexed \cap Window : slot > checkedEnd}
  <2>1. phase = "judge" /\ kind = "orphans"
    BY <1>11 DEF JudgeOrphans
  <2>2. orphans \in SUBSET Heights
    BY DEF Window
  <2>3. PICK verdict \in {"Fail", "NotFinalized", "Pass"} :
          /\ EndWith(verdict, orphans)
          /\ verdict = "Fail" <=> orphans # {}
          /\ verdict = "Pass" => ~(Tipped /\ tail # {})
    BY <1>11 DEF JudgeOrphans, Tipped
  <2>4. orphans \cap Settled = (indexed \cap Settled) \ produced
    BY <2>1, SettledIsRead DEF Settled
  <2>5. Exact(verdict, orphans)
    BY <2>1, <2>3, <2>4 DEF Exact
  <2>6. ASSUME verdict = "Pass", Tipped, NEW slot \in indexed \cap Window PROVE slot \in produced
    <3>1. slot \notin orphans /\ slot \notin tail
      BY <2>3, <2>6
    <3>2. slot \in blocks
      BY <3>1, Numbers DEF PoolInv, Numeric, Window
    <3> QED
      BY <3>2, <2>1, <1>9
  <2> QED
    BY <2>1, <2>2, <2>3, <2>5, <2>6, EndKeepsPoolInv DEF Outcomes
<1>12. CASE ReturnGaps
  <2>1. phase = "judge" /\ kind = "gaps" /\ EndWith("List", blocks)
    BY <1>12 DEF ReturnGaps
  <2>2. blocks \cap Settled = produced \cap Settled
    BY <2>1, SettledIsRead
  <2>3. Exact("List", blocks)
    BY <2>1, <2>2, <1>9 DEF Exact
  <2>4. blocks \in SUBSET Heights
    BY <1>9, <2>1 DEF Window
  <2> QED
    BY <2>1, <2>3, <2>4, EndKeepsPoolInv DEF Outcomes
<1>13. CASE ChainStep
  BY <1>13, ChainKeepsPoolInv
<1>14. CASE UNCHANGED vars
  <2>1. /\ UNCHANGED <<tip, produced, root, kind, start, end, indexed, finalized, checkedEnd>>
        /\ UNCHANGED <<phase, at, blocks, floor, finding, outcome>>
    BY <1>14 DEF vars, chainVars, checkVars, request
  <2> QED
    BY <2>1 DEF PoolInv, TypeOK, ChainTypeOK, Control, Walk, FloorHeld, Asking, Tipped,
                PoolVerdicts, MissingIsReal, PassHasNoOrphan, SettledIsExact, Settled, Window
<1> QED
  BY <1>1, <1>2, <1>3, <1>4, <1>5, <1>7, <1>8, <1>10, <1>11, <1>12, <1>13, <1>14
  DEF Next, CheckNext

(* The invariant holds however many nodes answer the calls.                *)
LEMMA PoolInvHolds == Spec => []PoolInv
<1> QED
  BY InitPoolInv, NextKeepsPoolInv, PTL DEF Spec

(* Every value a check or the chain can hold is of its kind, in particular *)
(* every slot it computes is a u64.                                        *)
THEOREM CoverageTypeCorrect == Spec => []TypeOK
<1>1. PoolInv => TypeOK
  BY DEF PoolInv
<1> QED
  BY <1>1, PoolInvHolds, PTL

(* Whoever answers the calls: a completeness Fail names real missing       *)
(* blocks, an orphans Pass leaves no orphan, and what every node had       *)
(* finalized when the check began is judged exactly.                       *)
THEOREM PoolVerdictsHold == Spec => [](MissingIsReal /\ PassHasNoOrphan /\ SettledIsExact)
<1>1. PoolInv => MissingIsReal /\ PassHasNoOrphan /\ SettledIsExact
  BY DEF PoolInv, PoolVerdicts
<1> QED
  BY <1>1, PoolInvHolds, PTL
-----------------------------------------------------------------------------
\* Slots to ask for and steps after them, from the widest window there can be.
SlotsLeft ==
  CASE phase = "reach" -> MaxU64 + 3
    [] phase = "blocks" -> IF at <= checkedEnd THEN (checkedEnd - at) + 2 ELSE 2
    [] phase = "judge" -> 1
    [] OTHER -> 0

\* Every step of a check, failed calls included, brings it nearer to its end.
EveryStepCounts == [][CheckNext => SlotsLeft' < SlotsLeft]_vars

(* A window is never asked for twice and the walk does not run past its    *)
(* end, though it stops by an equality test and its counter may stand at   *)
(* the largest u64: with calls answered or failed, every check is bounded. *)
THEOREM CoverageGetsOn == Spec => EveryStepCounts
<1>1. ASSUME PoolInv, CheckNext PROVE SlotsLeft' < SlotsLeft
  <2> USE MaxU64Assumption
  <2>1. Numeric
    BY <1>1, Numbers DEF PoolInv
  <2>2. SlotsLeft \in Nat
    BY <2>1 DEF SlotsLeft, Numeric
  <2>3. ASSUME phase \in {"reach", "blocks", "judge"}, phase' = "done" PROVE SlotsLeft' < SlotsLeft
    <3>1. SlotsLeft' = 0
      BY <2>3 DEF SlotsLeft
    <3>2. SlotsLeft # 0
      BY <2>1, <2>3 DEF SlotsLeft, Numeric
    <3> QED
      BY <2>2, <3>1, <3>2
  <2>4. ASSUME phase = "reach", phase' = "blocks", at' \in Heights, checkedEnd' \in Heights
        PROVE  SlotsLeft' < SlotsLeft
    <3>1. /\ at' <= checkedEnd' => SlotsLeft' = (checkedEnd' - at') + 2
          /\ ~(at' <= checkedEnd') => SlotsLeft' = 2
      BY <2>4 DEF SlotsLeft
    <3>2. SlotsLeft = MaxU64 + 3
      BY <2>4 DEF SlotsLeft
    <3>3. at' \in Nat /\ checkedEnd' \in Nat /\ checkedEnd' <= MaxU64
      BY <2>4
    <3>4. \A a, c, m \in Nat : a <= c /\ c <= m => (c - a) + 2 < m + 3
      OBVIOUS
    <3>5. CASE at' <= checkedEnd'
      BY <3>1, <3>2, <3>3, <3>4, <3>5
    <3>6. CASE ~(at' <= checkedEnd')
      BY <3>1, <3>2, <3>6
    <3> QED
      BY <3>5, <3>6
  <2>5. ASSUME NEW n \in Nodes, GetBlocksWindow(n) PROVE SlotsLeft' < SlotsLeft
    <3> DEFINE we == WindowEnd(at, checkedEnd, MaxRange)
    <3>1. /\ phase = "blocks" /\ checkedEnd' = checkedEnd
          /\ \/ we = checkedEnd /\ phase' = "judge"
             \/ we # checkedEnd /\ phase' = phase /\ at' = we + 1
      BY <2>5 DEF GetBlocksWindow
    <3>2. at <= checkedEnd
      BY <1>1, <2>5 DEF GetBlocksWindow, PoolInv, Walk
    <3>3. at \in Nat /\ checkedEnd \in Nat /\ we \in Nat /\ at <= we /\ we <= checkedEnd
      BY <2>1, <3>2, MaxRangeAssumption DEF Numeric, WindowEnd, SaturatingAdd, Lower
    <3> HIDE DEF we
    <3>4. SlotsLeft = (checkedEnd - at) + 2
      BY <3>1, <3>2 DEF SlotsLeft
    <3>5. CASE we = checkedEnd
      <4>1. SlotsLeft' = 1
        BY <3>1, <3>5 DEF SlotsLeft
      <4> QED
        BY <3>2, <3>3, <3>4, <4>1
    <3>6. CASE we # checkedEnd
      <4>1. SlotsLeft' = (checkedEnd - (we + 1)) + 2
        BY <3>1, <3>3, <3>6 DEF SlotsLeft
      <4> QED
        BY <3>3, <3>4, <4>1
    <3> QED
      BY <3>5, <3>6
  <2>6. CASE \E n \in Nodes : NothingFinal(n) \/ Upto(n)
    <3>1. CASE \E n \in Nodes : NothingFinal(n)
      BY <2>3, <3>1 DEF NothingFinal, Begin
    <3>2. ASSUME NEW n \in Nodes, Upto(n) PROVE SlotsLeft' < SlotsLeft
      <4>1. at' \in Heights /\ checkedEnd' \in Heights
        BY <2>1, <3>2 DEF Upto, Begin, Lower, Numeric
      <4> QED
        BY <2>4, <3>2, <4>1 DEF Upto, Begin
    <3> QED
      BY <2>6, <3>1, <3>2
  <2>7. CASE UptoUnknown \/ BeginGaps
    BY <2>1, <2>4, <2>7 DEF UptoUnknown, BeginGaps, Begin, Numeric
  <2>8. CASE GetSlotFails \/ BackwardGaps \/ GetBlocksFails
    BY <2>3, <2>8 DEF GetSlotFails, BackwardGaps, GetBlocksFails, EndWith
  <2>9. CASE JudgeCompleteness \/ JudgeOrphans \/ ReturnGaps
    BY <2>3, <2>9 DEF JudgeCompleteness, JudgeOrphans, ReturnGaps, EndWith
  <2> QED
    BY <1>1, <2>5, <2>6, <2>7, <2>8, <2>9 DEF CheckNext
<1>2. PoolInv /\ [Next]_vars => [CheckNext => SlotsLeft' < SlotsLeft]_vars
  BY <1>1
<1> QED
  BY <1>2, PoolInvHolds, PTL DEF Spec, EveryStepCounts
-----------------------------------------------------------------------------
(* What `karat gaps` says of its list is true once the window was final    *)
(* everywhere when it asked: run `gaps` fails for want of that and of      *)
(* nothing else.                                                           *)
THEOREM FinalGapListIsExact == Spec => [](kind = "gaps" /\ end <= floor => GapListIsExact)
<1>1. PoolInv /\ kind = "gaps" /\ end <= floor => GapListIsExact
  <2> SUFFICES ASSUME PoolInv, kind = "gaps", end <= floor, outcome = "List"
               PROVE  produced \cap Window \subseteq finding
    BY DEF GapListIsExact
  <2>1. Window \subseteq Settled
    BY Numbers DEF PoolInv, Numeric, Window, Settled
  <2>2. finding \cap Settled = produced \cap Settled
    BY DEF PoolInv, PoolVerdicts, SettledIsExact
  <2> QED
    BY <2>1, <2>2
<1> QED
  BY <1>1, PoolInvHolds, PTL
=============================================================================
