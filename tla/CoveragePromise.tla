--------------------------- MODULE CoveragePromise ---------------------------
(***************************************************************************)
(* What a coverage verdict promises, with no RPC calls in it: one look at  *)
(* the chain up to some slot f that is final, judged as a whole.  The      *)
(* chain is its finalized blocks, which only grow at the tip.              *)
(***************************************************************************)
EXTENDS SlotMath

CONSTANTS MaxSlot, Kinds

VARIABLES tip, produced, kind, start, end, indexed, outcome, finding

request == <<kind, start, end, indexed>>
vars == <<tip, produced, request, outcome, finding>>

Init ==
  /\ tip = 0 /\ produced = {}
  /\ kind \in Kinds
  /\ start \in Heights \ {0} /\ end \in Heights \ {0}
  /\ indexed \in SUBSET (Heights \ {0})
  /\ outcome = "none" /\ finding = {}

Grow ==
  /\ \E slot \in (tip + 1)..MaxSlot : tip' = slot /\ produced' = produced \cup {slot}
  /\ UNCHANGED <<request, outcome, finding>>

\* The slots of the window that are final up to f.
FinalWindow(f) == {slot \in Heights : start <= slot /\ slot <= end /\ slot <= f}

Findings(f) ==
  IF kind = "completeness" THEN (produced \cap FinalWindow(f)) \ indexed
                           ELSE (indexed \cap FinalWindow(f)) \ produced

\* Part of the question is still open: the window's tail for completeness, an
\* indexed slot there for orphans.
TailOpen(f) ==
  /\ f < end
  /\ kind = "orphans" => \E slot \in indexed : start <= slot /\ slot <= end /\ f < slot

Decide(f) ==
  /\ outcome = "none"
  /\ IF f < start
     THEN outcome' = "NotFinalized" /\ UNCHANGED finding
     ELSE /\ start <= end
          /\ finding' = Findings(f)
          /\ outcome' = IF Findings(f) # {} THEN "Fail"
                        ELSE IF TailOpen(f) THEN "NotFinalized" ELSE "Pass"
  /\ UNCHANGED <<tip, produced, request>>

GiveUp ==
  /\ outcome = "none"
  /\ outcome' = "Unreachable"
  /\ UNCHANGED <<tip, produced, request, finding>>

Next == Grow \/ GiveUp \/ \E f \in 0..tip : Decide(f)

Spec == Init /\ [][Next]_vars
=============================================================================
