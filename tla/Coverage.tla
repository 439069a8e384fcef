------------------------------- MODULE Coverage -------------------------------
(***************************************************************************)
(* check_completeness, check_orphans and gap_slots: what an index holds    *)
(* for a window of slots against the blocks the chain finalized.           *)
(*                                                                         *)
(* A check is one process that makes its RPC calls one after the other     *)
(* while the chain moves on: getSlot(finalized), then one getBlocks per    *)
(* window of MaxRange slots, each call answered by any node behind the     *)
(* endpoint.  Judging what came back is local.                             *)
(***************************************************************************)
EXTENDS Chain, SlotMath

CONSTANTS MaxRange,        \* MAX_GETBLOCKS_RANGE
          Kinds            \* the checks asked for

ASSUME MaxRangeAssumption == MaxRange \in Nat \ {0}
ASSUME KindsAssumption == Kinds \subseteq {"completeness", "orphans", "gaps"}
ASSUME SlotsAreU64 == MaxSlot <= MaxU64

\* Ok(None) from finalized_slot: no slot of the type.
Unknown == MaxU64 + 1

VARIABLES
  kind, start, end, indexed,   \* what the caller asked
  phase,        \* "reach", "blocks", "judge" or "done"
  finalized,    \* the slot getSlot answered, or Unknown
  checkedEnd,   \* the last slot getBlocks is asked for
  at,           \* where the next getBlocks window begins
  blocks,       \* the slots getBlocks has returned so far
  outcome,      \* "none" until the check ends
  finding,      \* the slots a Fail or a gap list names
  floor         \* history: what every node had finalized when the check began

request == <<kind, start, end, indexed>>
checkVars == <<request, phase, finalized, checkedEnd, at, blocks, outcome, finding, floor>>
vars == <<chainVars, checkVars>>

\* Skipped in the code is NotFinalized or Unreachable, by its reason; List is
\* the Ok of gap_slots.
Outcomes == {"none", "Pass", "Fail", "NotFinalized", "Unreachable", "List"}

TypeOK ==
  /\ ChainTypeOK
  /\ kind \in Kinds /\ start \in Heights /\ end \in Heights
  /\ indexed \in SUBSET Heights
  /\ phase \in {"reach", "blocks", "judge", "done"}
  /\ finalized \in Heights \cup {Unknown}
  /\ checkedEnd \in Heights
  /\ at \in Heights
  /\ blocks \in SUBSET produced
  /\ outcome \in Outcomes
  /\ finding \in SUBSET Heights
  /\ floor \in Heights

Init ==
  /\ ChainInit
  /\ kind \in Kinds
  /\ start \in Heights \ {0} /\ end \in Heights \ {0}
  /\ indexed \in IF kind = "gaps" THEN {{}} ELSE SUBSET (Heights \ {0})
  /\ phase = "reach"
  /\ finalized = Unknown
  /\ checkedEnd = end /\ at = start /\ blocks = {}
  /\ outcome = "none" /\ finding = {}
  /\ floor = 0

EndWith(verdict, slots) ==
  /\ phase' = "done" /\ outcome' = verdict /\ finding' = slots
  /\ UNCHANGED <<chainVars, request, finalized, checkedEnd, at, blocks, floor>>
-----------------------------------------------------------------------------
(* reach: where a coverage check can stop.                                 *)

\* A check begins, by its first answer or call.
Begin ==
  /\ phase = "reach"
  /\ floor' \in {root[n] : n \in Nodes} /\ \A n \in Nodes : floor' <= root[n]
  /\ UNCHANGED <<chainVars, request, at, blocks, finding>>

\* Slip: the window is not capped at the finalized slot.
UptoUncapped(n) ==
  /\ Begin /\ kind # "gaps"
  /\ start <= root[n]
  /\ finalized' = root[n] /\ checkedEnd' = end
  /\ phase' = "blocks" /\ UNCHANGED outcome

\* The whole window is above the finalized slot.
NothingFinal(n) ==
  /\ Begin /\ kind # "gaps"
  /\ root[n] < start
  /\ finalized' = root[n] /\ UNCHANGED checkedEnd
  /\ phase' = "done" /\ outcome' = "NotFinalized"

Upto(n) ==
  /\ Begin /\ kind # "gaps"
  /\ start <= root[n]
  /\ finalized' = root[n] /\ checkedEnd' = Lower(end, root[n])
  /\ phase' = "blocks" /\ UNCHANGED outcome

\* A fetcher that leaves finalized_slot at its default: the window as given.
UptoUnknown ==
  /\ Begin /\ kind # "gaps"
  /\ phase' = "blocks" /\ UNCHANGED <<finalized, checkedEnd, outcome>>

GetSlotFails ==
  /\ phase = "reach" /\ kind # "gaps"
  /\ EndWith("Unreachable", {})

\* gap_slots asks for no finalized slot; a backward range makes no call.
BeginGaps ==
  /\ Begin /\ kind = "gaps" /\ start <= end
  /\ phase' = "blocks" /\ UNCHANGED <<finalized, checkedEnd, outcome>>

BackwardGaps ==
  /\ phase = "reach" /\ kind = "gaps" /\ end < start
  /\ EndWith("List", {})
-----------------------------------------------------------------------------
(* get_blocks: one call per window, in order.                              *)

\* Slip: a window's reply replaces the ones before it.
GetBlocksForgets(n) ==
  LET windowEnd == WindowEnd(at, checkedEnd, MaxRange) IN
  /\ phase = "blocks" /\ start <= checkedEnd
  /\ blocks' = BlocksAt(n, at, windowEnd)
  /\ IF windowEnd = checkedEnd THEN phase' = "judge" /\ UNCHANGED at
                               ELSE at' = windowEnd + 1 /\ UNCHANGED phase
  /\ UNCHANGED <<chainVars, request, finalized, checkedEnd, outcome, finding, floor>>

\* Slip: the walk does not move to the next window.
GetBlocksStays(n) ==
  /\ phase = "blocks" /\ start <= checkedEnd
  /\ blocks' = blocks \cup BlocksAt(n, at, WindowEnd(at, checkedEnd, MaxRange))
  /\ phase' = IF WindowEnd(at, checkedEnd, MaxRange) = checkedEnd THEN "judge" ELSE phase
  /\ UNCHANGED <<chainVars, request, finalized, checkedEnd, at, outcome, finding, floor>>

\* Slip: the walk moves on before it looks whether this window was the last.
GetBlocksMovesFirst(n) ==
  LET windowEnd == WindowEnd(at, checkedEnd, MaxRange) IN
  /\ phase = "blocks" /\ start <= checkedEnd
  /\ blocks' = blocks \cup BlocksAt(n, at, windowEnd)
  /\ at' = windowEnd + 1
  /\ phase' = IF windowEnd = checkedEnd THEN "judge" ELSE phase
  /\ UNCHANGED <<chainVars, request, finalized, checkedEnd, outcome, finding, floor>>

GetBlocksWindow(n) ==
  LET windowEnd == WindowEnd(at, checkedEnd, MaxRange) IN
  /\ phase = "blocks" /\ start <= checkedEnd
  /\ blocks' = blocks \cup BlocksAt(n, at, windowEnd)
  /\ IF windowEnd = checkedEnd THEN phase' = "judge" /\ UNCHANGED at
                               ELSE at' = windowEnd + 1 /\ UNCHANGED phase
  /\ UNCHANGED <<chainVars, request, finalized, checkedEnd, outcome, finding, floor>>

\* A call fails, or get_blocks refuses a backward range.
GetBlocksFails ==
  /\ phase = "blocks"
  /\ EndWith("Unreachable", {})
-----------------------------------------------------------------------------
(* The verdicts.                                                           *)

Window == {slot \in Heights : start <= slot /\ slot <= end}

\* Slip: a skipped slot counts as missing.
JudgeSkippedSlots ==
  LET missing == {slot \in Window : slot <= checkedEnd} \ indexed IN
  /\ phase = "judge" /\ kind = "completeness"
  /\ EndWith(IF missing # {} THEN "Fail"
             ELSE IF finalized # Unknown /\ checkedEnd < end THEN "NotFinalized"
             ELSE "Pass", missing)

\* Slip: the unfinalized tail is looked at before the gaps are.
JudgeTailFirst ==
  LET missing == blocks \ indexed IN
  /\ phase = "judge" /\ kind = "completeness"
  /\ EndWith(IF finalized # Unknown /\ checkedEnd < end THEN "NotFinalized"
             ELSE IF missing # {} THEN "Fail" ELSE "Pass", missing)

\* Slip: a clean prefix passes for the whole window.
JudgePrefix ==
  LET missing == blocks \ indexed IN
  /\ phase = "judge" /\ kind = "completeness"
  /\ EndWith(IF missing # {} THEN "Fail" ELSE "Pass", missing)

JudgeCompleteness ==
  LET missing == blocks \ indexed IN
  /\ phase = "judge" /\ kind = "completeness"
  /\ EndWith(IF missing # {} THEN "Fail"
             ELSE IF finalized # Unknown /\ checkedEnd < end THEN "NotFinalized"
             ELSE "Pass", missing)

\* Slip: indexed slots above the finalized slot are judged too.
JudgeOrphansPastEnd ==
  LET orphans == (indexed \cap Window) \ blocks IN
  /\ phase = "judge" /\ kind = "orphans"
  /\ EndWith(IF orphans # {} THEN "Fail" ELSE "Pass", orphans)

\* Slip: indexed slots above the finalized slot are forgotten.
JudgeOrphansNoTail ==
  LET orphans == {slot \in indexed \cap Window : slot <= checkedEnd /\ slot \notin blocks} IN
  /\ phase = "judge" /\ kind = "orphans"
  /\ EndWith(IF orphans # {} THEN "Fail" ELSE "Pass", orphans)

JudgeOrphans ==
  LET inWindow == indexed \cap Window
      orphans == {slot \in inWindow : slot <= checkedEnd /\ slot \notin blocks}
      unfinalized == {slot \in inWindow : slot > checkedEnd}
  IN
  /\ phase = "judge" /\ kind = "orphans"
  /\ EndWith(IF orphans # {} THEN "Fail"
             ELSE IF finalized # Unknown /\ unfinalized # {} THEN "NotFinalized"
             ELSE "Pass", orphans)

ReturnGaps ==
  /\ phase = "judge" /\ kind = "gaps"
  /\ EndWith("List", blocks)

CheckNext ==
  \/ \E n \in Nodes : NothingFinal(n) \/ Upto(n) \/ GetBlocksWindow(n)
  \/ UptoUnknown \/ GetSlotFails \/ BeginGaps \/ BackwardGaps \/ GetBlocksFails
  \/ JudgeCompleteness \/ JudgeOrphans \/ ReturnGaps

ChainStep == ChainNext /\ UNCHANGED checkVars

Next == CheckNext \/ ChainStep

Spec == Init /\ [][Next]_vars

\* What the process does by itself or upon an answer.
Progress ==
  \/ \E n \in Nodes : NothingFinal(n) \/ Upto(n) \/ GetBlocksWindow(n)
  \/ BeginGaps \/ BackwardGaps
  \/ checkedEnd < start /\ GetBlocksFails
  \/ JudgeCompleteness \/ JudgeOrphans \/ ReturnGaps

\* The process runs on and every call is answered in the end.  It may fail
\* instead, but the check does not need that to end.
FairSpec == Spec /\ WF_vars(Progress)
-----------------------------------------------------------------------------
Tipped == finalized # Unknown

(* A completeness Pass vouches for the window for good: however far the    *)
(* chain goes on, it has produced no block there that the index lacks.     *)
(* check_completeness promises it by capping at the finalized slot.        *)
PassIsComplete ==
  outcome = "Pass" /\ kind = "completeness" /\ Tipped =>
    produced \cap Window \subseteq indexed

(* An orphans Pass: every slot the index wrote in the window carries a     *)
(* finalized block, none is left that may yet lose its fork.               *)
PassHasNoOrphan ==
  outcome = "Pass" /\ kind = "orphans" /\ Tipped => indexed \cap Window \subseteq produced

(* A slot check_completeness names as missing is a block of the chain that *)
(* the index does not hold, never a slot its leader skipped.               *)
MissingIsReal ==
  outcome = "Fail" /\ kind = "completeness" =>
    finding # {} /\ finding \subseteq (produced \cap Window) \ indexed

(* A slot check_orphans names was indexed and has no finalized block, and  *)
(* the chain never gives it one later: the flagged rows are safe to drop.  *)
OrphanIsReal ==
  outcome = "Fail" /\ kind = "orphans" /\ Tipped =>
    finding # {} /\ finding \subseteq (indexed \cap Window) \ produced

(* "not finalized" is only ever said of a window that runs past what was   *)
(* final, and never in place of a Fail that the final part supports.       *)
SkipHidesNothing ==
  outcome = "NotFinalized" =>
    LET final == {slot \in Window : slot <= finalized} IN
    /\ finalized < start \/ finalized < end
    /\ kind = "completeness" => produced \cap final \subseteq indexed
    /\ kind = "orphans" => indexed \cap final \subseteq produced

\* The part of the window that every node had finalized at the start.
Settled == {slot \in Window : slot <= floor}

(* Whichever nodes answer the calls, and however the chain moves between   *)
(* them: as far as every node had finalized when the check began, what it  *)
(* names is what is wrong there, no more and no less, and gap_slots lists  *)
(* every block.  A verdict is Fail exactly when it names something, and a  *)
(* list never holds a slot without a block.                                *)
SettledIsExact ==
  outcome \notin {"none", "Unreachable"} =>
    /\ kind = "completeness" => finding \cap Settled = (produced \cap Settled) \ indexed
    /\ kind = "orphans" => finding \cap Settled = (indexed \cap Settled) \ produced
    /\ kind = "gaps" => finding \cap Settled = produced \cap Settled /\ finding \subseteq produced \cap Window
    /\ kind # "gaps" => (outcome = "Fail" <=> finding # {})

(* What `karat gaps` says of its list: every produced block from           *)
(* last_before to first_after, both ends included.  The stream has already *)
(* delivered first_after when gaps is asked, so once that block is final,  *)
(* every block of the window was on the chain before the call.             *)
GapListIsExact ==
  outcome = "List" /\ end \in produced => produced \cap Window \subseteq finding

(* With one node behind the endpoint, the several calls of a check are as  *)
(* good as one look at the chain: it implements CoveragePromise.           *)
Promise == INSTANCE CoveragePromise WITH
             outcome <- IF Tipped THEN outcome ELSE "none",
             finding <- IF Tipped THEN finding ELSE {}

OneLook == Promise!Spec

(* The check ends with an outcome: the window walk cannot go round.        *)
CheckEnds == <>(outcome # "none")
=============================================================================
