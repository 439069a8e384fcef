---------------------------- MODULE InspectProofs ----------------------------
(***************************************************************************)
(* inspect_account for every history of writes and deploys and any nodes.  *)
(* To Reconcile a call is one more environment: its steps are steps of     *)
(* Reconcile or leave it alone, so all that is proved there holds here.    *)
(***************************************************************************)
EXTENDS Inspect, ReconcileProofs

InspectInv ==
  /\ InspectTypeOK
  /\ \A n \in Nodes : final <= rooted[n]
  /\ ~upgradeable => deploys = {0}
  /\ verdict # "none" => stage \in {"reconcile", "end"}
  /\ stage \in {"program", "program data", "reconcile"} \/ verdict \notin {"none", "error"}
       => raw = bytes[1][slot]
  /\ OkSawFinalDeploys
  /\ StaleIsReal

USE DEF Rows, Slots

(* A step of a call is a step of reconcile or leaves it where it was.      *)
LEMMA StepsOfReconcile == [InspectNext]_allVars => [Next]_vars
<1>1. ChainMoves => [Next]_vars
  BY DEF ChainMoves, ProgramNext, Redeploy, Root, LedgerNext, Next, LedgerStep, vars
<1>2. ReconcileCopy => Next
  BY DEF ReconcileCopy, Next
<1>3. ASSUME NEW n \in Nodes, ReadAccount(n) \/ ReadProgramData(n) PROVE UNCHANGED vars
  BY <1>3 DEF ReadAccount, ReadProgramData
<1>4. ReadProgram \/ ReadFails => UNCHANGED vars
  BY DEF ReadProgram, ReadFails
<1>5. UNCHANGED allVars => UNCHANGED vars
  BY DEF allVars
<1> QED
  BY <1>1, <1>2, <1>3, <1>4, <1>5 DEF InspectNext, Call

(* inspect_account only adds to reconcile: every result for the copy means *)
(* what it means there.                                                    *)
THEOREM InspectReconciles == InspectSpec => Spec
<1>1. InspectInit => Init
  BY DEF InspectInit
<1> QED
  BY <1>1, StepsOfReconcile, PTL DEF InspectSpec, Spec

(* Nothing is read yet and nothing is final but the first slot.            *)
LEMMA InitInspectInv == IInv /\ InspectInit => InspectInv
<1> SUFFICES ASSUME IInv, InspectInit PROVE InspectInv
  OBVIOUS
<1>1. tip = 0 /\ seen = [n \in Nodes |-> 0] /\ rooted = [n \in Nodes |-> 0] /\ MaxSlot \in Nat
  BY LedgerAssumption DEF InspectInit, ProgramInit, Init, LedgerInit
<1>2. InspectTypeOK
  BY <1>1 DEF InspectInit, ProgramInit, ProgramTypeOK, InspectTypeOK, IInv, Bytes, Verdicts
<1> QED
  BY <1>1, <1>2 DEF InspectInit, ProgramInit, InspectInv, OkSawFinalDeploys, StaleIsReal

(* Ranges of what the slots of a call are compared with.                   *)
Numbers ==
  /\ tip \in Nat /\ MaxSlot \in Nat /\ tip <= MaxSlot /\ tip \in Slots
  /\ slot \in Nat /\ slot <= tip /\ final \in Nat /\ final <= tip
  /\ \A d \in deploys : d \in Nat /\ d <= tip
  /\ rooted \in [Nodes -> Slots] /\ seen \in [Nodes -> Slots]
  /\ \A n \in Nodes : seen[n] <= tip /\ rooted[n] <= seen[n] /\ final <= rooted[n]

(* They follow from the types, the finalized slots from the invariant.     *)
LEMMA CallNumbers == IInv /\ InspectInv => Numbers /\ 1 \in Rows
<1> SUFFICES ASSUME IInv, InspectInv PROVE Numbers /\ 1 \in Rows
  OBVIOUS
<1>1. tip \in Slots /\ seen \in [Nodes -> 0..tip]
  BY DEF IInv, TypeOK, LedgerTypeOK
<1>2. /\ deploys \in SUBSET (0..tip) /\ rooted \in [Nodes -> Slots]
      /\ slot \in 0..tip /\ final \in 0..tip
      /\ \A n \in Nodes : rooted[n] <= seen[n] /\ final <= rooted[n]
  BY DEF InspectInv, InspectTypeOK, ProgramTypeOK
<1> QED
  BY <1>1, <1>2, LedgerAssumption, InspectAssumption DEF Numbers

(* A slot that confirms or finalizes brings no deploy below what was final *)
(* and changes nothing that was read.                                      *)
LEMMA ChainKeepsInspectInv == IInv /\ IInv' /\ InspectInv /\ ChainMoves => InspectInv'
<1> SUFFICES ASSUME IInv, IInv', InspectInv, ChainMoves PROVE InspectInv'
  OBVIOUS
<1>0. Numbers /\ 1 \in Rows
  BY CallNumbers
<1>1. /\ UNCHANGED <<withIndexed, stage, slot, raw, deploySlot, verdict, registered, upgradeable>>
      /\ stage # "account" => final' = final
      /\ \E n \in Nodes : final' = rooted'[n] \/ final' = final
      /\ stage = "account" => \A n \in Nodes : final' <= rooted'[n]
  BY DEF ChainMoves, ProgramNext, Redeploy, Root, programVars
<1>2. /\ tip <= tip'
      /\ bytes'[1][slot] = bytes[1][slot]
  <2>1. CASE LedgerNext
    BY <2>1, LedgerGrows, <1>0 DEF Numbers, IInv
  <2>2. CASE Redeploy
    BY <2>2, LedgerGrows, <1>0 DEF Numbers, IInv, Redeploy, LedgerNext
  <2>3. CASE \E n \in Nodes : Root(n)
    BY <2>3, <1>0 DEF Numbers, Root, ledgerVars
  <2> QED
    BY <2>1, <2>2, <2>3 DEF ChainMoves, ProgramNext
<1>3. /\ rooted' \in [Nodes -> Slots]
      /\ \A n \in Nodes : rooted[n] <= rooted'[n] /\ rooted'[n] <= seen'[n]
  <2>1. CASE LedgerNext /\ UNCHANGED programVars
    <3>1. \A n \in Nodes : seen[n] <= seen'[n]
      <4>1. CASE \E n \in Nodes : CatchUp(n)
        BY <2>1, <4>1, <1>0 DEF Numbers, CatchUp, IInv, TypeOK, LedgerTypeOK
      <4>2. CASE ConfirmIdle \/ \E r \in Rows : ConfirmTouch(r)
        BY <4>2, <1>0 DEF Numbers, ConfirmIdle, ConfirmTouch
      <4> QED
        BY <2>1, <4>1, <4>2 DEF LedgerNext
    <3>2. rooted' = rooted
      BY <2>1 DEF programVars
    <3>3. \A n \in Nodes : seen'[n] \in Nat
      BY DEF IInv, TypeOK, LedgerTypeOK
    <3> QED
      BY <3>1, <3>2, <3>3, <1>0 DEF Numbers
  <2>2. CASE Redeploy
    <3>1. rooted' = rooted /\ seen' = seen
      BY <2>2 DEF Redeploy, ConfirmIdle
    <3> QED
      BY <3>1, <1>0 DEF Numbers
  <2>3. ASSUME NEW n \in Nodes, Root(n)
        PROVE  /\ rooted' \in [Nodes -> Slots]
               /\ \A m \in Nodes : rooted[m] <= rooted'[m] /\ rooted'[m] <= seen'[m]
    <3>1. PICK s \in (rooted[n] + 1)..seen[n] : rooted' = [rooted EXCEPT ![n] = s]
      BY <2>3 DEF Root
    <3>2. seen' = seen /\ rooted \in [Nodes -> Slots]
      BY <2>3 DEF Root, ledgerVars, InspectInv, InspectTypeOK, ProgramTypeOK
    <3>3. s \in Slots
      BY <3>1, <1>0 DEF Numbers
    <3> QED
      BY <3>1, <3>2, <3>3, <1>0 DEF Numbers
  <2> QED
    BY <2>1, <2>2, <2>3 DEF ChainMoves, ProgramNext
<1>4. \/ deploys' = deploys
      \/ upgradeable /\ deploys' = deploys \cup {tip + 1} /\ tip' = tip + 1
  BY DEF ChainMoves, ProgramNext, Redeploy, Root, ConfirmIdle, programVars
<1>5. /\ tip' \in Nat /\ final' \in 0..tip'
      /\ \A n \in Nodes : final' <= rooted'[n]
  <2>1. tip' \in Nat /\ \A n \in Nodes : seen'[n] \in 0..tip'
    BY LedgerAssumption DEF IInv, TypeOK, LedgerTypeOK
  <2>2. \A n \in Nodes : rooted'[n] \in Nat
    BY <1>3, LedgerAssumption
  <2> QED
    <3>1. CASE final' = final /\ stage # "account"
      <4>1. \A n \in Nodes : final <= rooted[n] /\ rooted[n] <= rooted'[n] /\ rooted[n] \in Nat
        BY <1>0, <1>3 DEF Numbers
      <4>2. final \in Nat /\ final <= tip /\ tip <= tip' /\ tip \in Nat
        BY <1>0, <1>2 DEF Numbers
      <4> QED
        BY <3>1, <2>1, <2>2, <4>1, <4>2
    <3>2. CASE stage = "account"
      <4>1. PICK n \in Nodes : final' = rooted'[n] \/ final' = final
        BY <1>1
      <4>2. final' \in Nat /\ final' <= rooted'[n] /\ rooted'[n] <= seen'[n]
        BY <1>0, <1>1, <1>3, <2>2, <3>2, <4>1 DEF Numbers
      <4> QED
        BY <1>1, <2>1, <2>2, <3>2, <4>2
    <3> QED
      BY <1>1, <3>1, <3>2
<1>6. InspectTypeOK'
  <2>1. TypeOK' /\ deploys' \in SUBSET (0..tip')
    BY <1>0, <1>2, <1>4, <1>5 DEF Numbers, IInv
  <2>2. slot' \in 0..tip' /\ raw' \in Bytes /\ deploySlot' \in deploys' \cup {NoSlot}
    <3>1. raw \in Bytes /\ deploySlot \in deploys \cup {NoSlot}
      BY DEF InspectInv, InspectTypeOK, ProgramTypeOK
    <3>2. deploys \subseteq deploys'
      BY <1>4
    <3>3. slot \in 0..tip'
      BY <1>0, <1>2, <1>5 DEF Numbers
    <3> QED
      BY <1>1, <3>1, <3>2, <3>3 DEF NoSlot
  <2>3. \A n \in Nodes : rooted'[n] <= seen'[n]
    BY <1>3
  <2>4. /\ registered' \in BOOLEAN /\ upgradeable' \in BOOLEAN /\ withIndexed' \in BOOLEAN
        /\ stage' \in {"account", "program", "program data", "reconcile", "end"}
        /\ verdict' \in Verdicts
    BY <1>1 DEF InspectInv, InspectTypeOK, ProgramTypeOK
  <2> QED
    BY <1>3, <1>5, <2>1, <2>2, <2>3, <2>4 DEF InspectTypeOK, ProgramTypeOK
<1>7. OkSawFinalDeploys'
  <2> SUFFICES ASSUME verdict = "ok", NEW d \in deploys', d <= final' PROVE d <= Verified
    BY <1>1 DEF OkSawFinalDeploys
  <2>1. final' = final
    BY <1>1 DEF InspectInv
  <2>2. d \in deploys
    BY <1>4, <2>1, <1>0 DEF Numbers
  <2> QED
    BY <2>1, <2>2 DEF InspectInv, OkSawFinalDeploys
<1>8. StaleIsReal'
  BY <1>1, <1>4 DEF InspectInv, StaleIsReal
<1> QED
  BY <1>1, <1>2, <1>4, <1>5, <1>6, <1>7, <1>8 DEF InspectInv

(* A step of the call: no deploy that was final when it began is missed.   *)
LEMMA CallKeepsInspectInv == IInv /\ IInv' /\ InspectInv /\ Call => InspectInv'
<1> SUFFICES ASSUME IInv, IInv', InspectInv, Call PROVE InspectInv'
  OBVIOUS
<1>0. Numbers /\ 1 \in Rows
  BY CallNumbers
<1>4. \A n \in Nodes : bytes[1][seen[n]] \in Bytes
  <2>1. bytes \in [Rows -> [Slots -> Bytes]]
    BY DEF IInv, TypeOK, LedgerTypeOK
  <2> QED
    BY <1>0, <2>1 DEF Numbers
<1> USE DEF Conclude, vars, ledgerVars, programVars
<1>1. ASSUME NEW n \in Nodes, ReadAccount(n) PROVE InspectInv'
  <2>1. /\ UNCHANGED <<vars, programVars, registered, withIndexed, deploySlot, final>>
        /\ stage = "account" /\ slot' = seen[n] /\ raw' = bytes[1][seen[n]]
    BY <1>1 DEF ReadAccount
  <2>2. /\ stage' \in {"program", "reconcile", "end"}
        /\ verdict' \in {"none", "missing", "unregistered_program", "unknown_layout", "layout_mismatch"}
        /\ verdict' # "none" => stage' \in {"reconcile", "end"}
    <3>1. \A v \in Bytes : Examine(v) \in {"none", "missing", "unregistered_program",
                                           "unknown_layout", "layout_mismatch"}
      BY InspectAssumption DEF Examine, Bytes, Classes
    <3>2. raw' \in Bytes
      BY <2>1, <1>4
    <3>3. verdict = "none"
      BY <2>1 DEF InspectInv
    <3> QED
      BY <1>1, <3>1, <3>2, <3>3 DEF ReadAccount
  <2>3. slot' \in 0..tip /\ raw' \in Bytes
    BY <2>1, <1>0, <1>4 DEF Numbers
  <2> QED
    BY <2>1, <2>2, <2>3 DEF InspectInv, InspectTypeOK, ProgramTypeOK, IInv, Verdicts, OkSawFinalDeploys, StaleIsReal
<1>2. ASSUME NEW n \in Nodes, ReadProgramData(n) PROVE InspectInv'
  <2>1. PICK d \in deploys : /\ IsLastDeploy(n, d) /\ deploySlot' = d
                             /\ verdict' = IF d > Verified THEN "stale_registry" ELSE "ok"
    BY <1>2 DEF ReadProgramData
  <2>2. /\ UNCHANGED <<vars, programVars, registered, withIndexed, slot, raw, final>>
        /\ stage = "program data" /\ stage' \in {"reconcile", "end"}
    BY <1>2 DEF ReadProgramData
  <2>3. \A e \in deploys : e <= final => e <= d
    <3> SUFFICES ASSUME NEW e \in deploys, e <= final PROVE e <= d
      OBVIOUS
    <3>1. e \in Nat /\ final \in Nat /\ rooted[n] \in Nat /\ final <= rooted[n]
      BY <1>0 DEF Numbers
    <3>2. e <= rooted[n]
      BY <3>1
    <3> QED
      BY <2>1, <3>2 DEF IsLastDeploy
  <2>4. verdict' = "ok" => \A e \in deploys : e <= final => e <= Verified
    BY <2>1, <2>3, <1>0 DEF Numbers, Verified
  <2> QED
    BY <2>1, <2>2, <2>4 DEF InspectInv, InspectTypeOK, ProgramTypeOK, IInv, Verdicts, OkSawFinalDeploys, StaleIsReal
<1>3. CASE ReadProgram
  <2>1. /\ UNCHANGED <<vars, programVars, registered, withIndexed, slot, raw, deploySlot, final>>
        /\ stage = "program" /\ verdict = "none"
        /\ \/ stage' = "program data" /\ verdict' = verdict
           \/ ~upgradeable /\ stage' \in {"reconcile", "end"} /\ verdict' = "ok"
    BY <1>3 DEF ReadProgram, InspectInv
  <2>2. verdict' = "ok" => \A e \in deploys : e <= Verified
    BY <2>1 DEF InspectInv, Verified
  <2> QED
    BY <2>1, <2>2 DEF InspectInv, InspectTypeOK, ProgramTypeOK, IInv, Verdicts, OkSawFinalDeploys, StaleIsReal
<1>5. CASE ReadFails
  BY <1>5 DEF ReadFails, InspectInv, InspectTypeOK, ProgramTypeOK, IInv, Verdicts, OkSawFinalDeploys, StaleIsReal
<1>6. CASE ReconcileCopy
  <2>1. UNCHANGED inspectVars /\ UNCHANGED ledgerVars
    <3>1. Check => UNCHANGED ledgerVars
      BY DEF Check, FetchBatch, WrongLength, BatchTooLong, LastTouchKnown, CapMisread, FetchFails, JudgeLocally,
             LastTouchUnknown, StartOver, Unreachable, Give
    <3> QED
      BY <1>6, <3>1 DEF ReconcileCopy
  <2> QED
    BY <2>1 DEF inspectVars, callVars, InspectInv, InspectTypeOK, ProgramTypeOK, IInv, OkSawFinalDeploys, StaleIsReal
<1> QED
  BY <1>1, <1>2, <1>3, <1>5, <1>6 DEF Call

(* Both invariants hold together through a call.                           *)
LEMMA InspectInvHolds == InspectSpec => [](IInv /\ InspectInv)
<1>1. IInv /\ IInv' /\ InspectInv /\ [InspectNext]_allVars => InspectInv'
  <2> SUFFICES ASSUME IInv, IInv', InspectInv, [InspectNext]_allVars PROVE InspectInv'
    OBVIOUS
  <2>1. CASE UNCHANGED allVars
    BY <2>1 DEF allVars, vars, ledgerVars, inspectVars, callVars, programVars, InspectInv,
                InspectTypeOK, ProgramTypeOK, IInv, OkSawFinalDeploys, StaleIsReal
  <2> QED
    BY <2>1, ChainKeepsInspectInv, CallKeepsInspectInv DEF InspectNext
<1>2. InspectInit => Init
  BY DEF InspectInit
<1> QED
  BY <1>1, <1>2, InitIInv, InitInspectInv, NextKeepsIInv, StepsOfReconcile, PTL DEF InspectSpec

(* Everything a call holds is of its kind, in every step of it.            *)
THEOREM InspectTypeCorrect == InspectSpec => []InspectTypeOK
<1>1. InspectInv => InspectTypeOK
  BY DEF InspectInv
<1> QED
  BY <1>1, InspectInvHolds, PTL

(* No redeploy that was final everywhere when the call began is missed,    *)
(* and none is made up, whichever nodes answered.                          *)
THEOREM DeploysAreNotMissed == InspectSpec => [](OkSawFinalDeploys /\ StaleIsReal)
<1>1. InspectInv => OkSawFinalDeploys /\ StaleIsReal
  BY DEF InspectInv
<1> QED
  BY <1>1, InspectInvHolds, PTL

(* An ok answer for a copy decodes what the account held when it was read, *)
(* the copy is what it held when the copy was reconciled, and they differ  *)
(* only if a transaction between the two reads named the account.          *)
THEOREM OkDecodesTheCopy == InspectSpec => []OkFieldsAreTheCopy
<1>1. IInv /\ InspectInv => OkFieldsAreTheCopy
  <2>. DEFINE copySlot == accounts[1].slot
  <2> SUFFICES ASSUME IInv, InspectInv, Ended, Ok, withIndexed
               PROVE  /\ accounts # << >>
                      /\ raw = bytes[1][slot] /\ indexed[1] = bytes[1][copySlot]
                      /\ indexed[1] # raw => \E s \in touched[1] : ~(s <= slot <=> s <= copySlot)
    BY DEF OkFieldsAreTheCopy
  <2>0. Numbers /\ 1 \in Rows
    BY CallNumbers
  <2>1. 1 \in Rows /\ results[1] = "pass" /\ verdict = "ok"
    BY <2>0 DEF Numbers, Ok
  <2>2. 1 \in 1..Len(accounts) /\ indexed[1] = accounts[1].data
    BY <2>1 DEF IInv, Control, Judged, Sound
  <2>3. copySlot \in Slots /\ accounts[1].data = bytes[1][copySlot]
    BY <2>2, ReadSlots DEF IInv, Reads
  <2>4. slot \in Slots /\ raw = bytes[1][slot]
    BY <2>1, <2>0 DEF Numbers, InspectInv
  <2>5. \A u \in touched[1] : u \in Nat
    BY <2>1 DEF IInv, TypeOK, LedgerTypeOK
  <2>6. ASSUME \A s \in touched[1] : s <= slot <=> s <= copySlot PROVE indexed[1] = raw
    <3>1. CASE slot <= copySlot
      <4>1. \A u \in touched[1] : u <= slot \/ copySlot < u
        BY <2>3, <2>4, <2>5, <2>6, <2>0 DEF Numbers
      <4> QED
        BY <2>1, <2>2, <2>3, <2>4, <3>1, <4>1 DEF IInv, History
    <3>2. CASE copySlot <= slot
      <4>1. \A u \in touched[1] : u <= copySlot \/ slot < u
        BY <2>3, <2>4, <2>5, <2>6, <2>0 DEF Numbers
      <4> QED
        BY <2>1, <2>2, <2>3, <2>4, <3>2, <4>1 DEF IInv, History
    <3> QED
      BY <2>3, <2>4, <3>1, <3>2, <2>0 DEF Numbers
  <2>7. accounts # << >>
    BY <2>2
  <2> QED
    BY <2>2, <2>3, <2>4, <2>6, <2>7
<1> QED
  BY <1>1, InspectInvHolds, PTL
-----------------------------------------------------------------------------
(* What reconcile adds up to on its own, it does inside a call: the copy   *)
(* gets the result of one look at the account.                             *)
THEOREM InspectIsOneLookARow == InspectSpec => OneLookARow
  BY InspectReconciles, ReconcileIsOneLookARow

\* Reads still to come, the copy to be reconciled and nothing, in order.
StagesLeft ==
  CASE stage = "account" -> 4 [] stage = "program" -> 3 [] stage = "program data" -> 2
    [] stage = "reconcile" -> 1 [] OTHER -> 0

\* Every step of a call, failed ones included, brings it nearer to its end.
CallGetsOn ==
  [][Call => \/ StagesLeft' < StagesLeft
             \/ /\ StagesLeft' = StagesLeft
                /\ \/ batchLimit' < batchLimit
                   \/ batchLimit' = batchLimit /\ ToDo' < ToDo]_allVars

(* With its calls answered or failed, a call ends after a bounded number   *)
(* of steps whatever is redeployed or written meanwhile: a stage is never  *)
(* gone back to, and within reconcile every step counts.                   *)
THEOREM InspectGetsOn == InspectSpec => CallGetsOn
<1>1. ASSUME IInv, InspectInv, Call
      PROVE  \/ StagesLeft' < StagesLeft
             \/ /\ StagesLeft' = StagesLeft
                /\ \/ batchLimit' < batchLimit
                   \/ batchLimit' = batchLimit /\ ToDo' < ToDo
  <2>1. ASSUME stage = "account", stage' \in {"program", "reconcile", "end"} PROVE StagesLeft' < StagesLeft
    <3>1. StagesLeft = 4
      BY <2>1 DEF StagesLeft
    <3>2. StagesLeft' \in {3, 1, 0}
      BY <2>1 DEF StagesLeft
    <3> QED
      BY <3>1, <3>2
  <2>2. ASSUME stage = "program", stage' \in {"program data", "reconcile", "end"} PROVE StagesLeft' < StagesLeft
    <3>1. StagesLeft = 3
      BY <2>2 DEF StagesLeft
    <3>2. StagesLeft' \in {2, 1, 0}
      BY <2>2 DEF StagesLeft
    <3> QED
      BY <3>1, <3>2
  <2>3. ASSUME stage = "program data", stage' \in {"reconcile", "end"} PROVE StagesLeft' < StagesLeft
    <3>1. StagesLeft = 2
      BY <2>3 DEF StagesLeft
    <3>2. StagesLeft' \in {1, 0}
      BY <2>3 DEF StagesLeft
    <3> QED
      BY <3>1, <3>2
  <2>4. CASE \E n \in Nodes : ReadAccount(n)
    BY <2>1, <2>4 DEF ReadAccount, Conclude
  <2>5. CASE ReadProgram
    BY <2>2, <2>5 DEF ReadProgram, Conclude
  <2>6. CASE \E n \in Nodes : ReadProgramData(n)
    BY <2>3, <2>6 DEF ReadProgramData, Conclude
  <2>7. CASE ReadFails
    BY <2>1, <2>2, <2>3, <2>7 DEF ReadFails
  <2>8. CASE ReconcileCopy
    <3>1. Check /\ UNCHANGED stage
      BY <2>8 DEF ReconcileCopy, inspectVars, callVars
    <3>2. UNCHANGED StagesLeft
      BY <3>1 DEF StagesLeft
    <3> QED
      BY <1>1, <3>1, <3>2, CheckCounts
  <2> QED
    BY <1>1, <2>4, <2>5, <2>6, <2>7, <2>8 DEF Call
<1>2. IInv /\ InspectInv /\ [InspectNext]_allVars =>
        [Call => \/ StagesLeft' < StagesLeft
                 \/ /\ StagesLeft' = StagesLeft
                    /\ \/ batchLimit' < batchLimit
                       \/ batchLimit' = batchLimit /\ ToDo' < ToDo]_allVars
  BY <1>1
<1> QED
  BY <1>2, InspectInvHolds, PTL DEF InspectSpec, CallGetsOn
-----------------------------------------------------------------------------
\* What the front ends see of the calls before reconcile: see World in Gate.
Found == IF verdict = "ok" THEN "Pass" ELSE IF verdict = "error" THEN "Skipped" ELSE "Fail"

(* Every way a call can end is one of the worlds the front ends are        *)
(* checked with, and Inspection::ok is what they draw from that world.     *)
CallEndsInAWorld ==
  Ended =>
    \E w \in Front!Worlds(1) :
       /\ w.found = Found
       /\ stage = "reconcile" => w.rows[1] = Answered(1)
       /\ Ok <=> /\ w.found = "Pass"
                 /\ withIndexed => Front!RowStatus(w.rows[1], indexedSlot[1] # NoSlot) = "Pass"

\* A copy is reconciled after a verdict, whichever it is, and only then.
CopyFollowsVerdict ==
  /\ stage = "reconcile" => withIndexed /\ verdict \notin {"none", "error"}
  /\ stage = "end" => verdict = "error" \/ (verdict # "none" /\ ~withIndexed)

LEMMA CallKeepsCopyFollows ==
  ASSUME InspectInv', CopyFollowsVerdict, [InspectNext]_allVars
  PROVE  CopyFollowsVerdict'
<1>1. ASSUME UNCHANGED <<stage, withIndexed, verdict>> PROVE CopyFollowsVerdict'
  BY <1>1 DEF CopyFollowsVerdict
<1>2. ASSUME stage' \in {"program", "program data"} PROVE CopyFollowsVerdict'
  BY <1>2 DEF CopyFollowsVerdict
<1>3. ASSUME NEW v, v \notin {"none", "error"}, Conclude(v), UNCHANGED withIndexed PROVE CopyFollowsVerdict'
  BY <1>3, Zenon DEF Conclude, CopyFollowsVerdict
<1>4. CASE \E n \in Nodes : ReadAccount(n)
  <2>1. PICK n \in Nodes : ReadAccount(n)
    BY <1>4
  <2>2. Examine(raw') # "error"
    <3>1. raw' \in Values \cup {Absent}
      BY DEF InspectInv, InspectTypeOK, Bytes
    <3>2. ReadAccount(n) => UNCHANGED registered
      BY DEF ReadAccount
    <3> QED
      BY <3>1, <3>2, InspectAssumption DEF Examine, Classes
  <2> QED
    BY <1>2, <1>3, <2>1, <2>2 DEF ReadAccount
<1>5. CASE ReadProgram
  BY <1>2, <1>3, <1>5 DEF ReadProgram
<1>6. CASE \E n \in Nodes : ReadProgramData(n)
  BY <1>3, <1>6 DEF ReadProgramData
<1>7. CASE ReadFails
  BY <1>7 DEF ReadFails, CopyFollowsVerdict
<1>8. CASE ReconcileCopy \/ ChainMoves \/ UNCHANGED allVars
  BY <1>1, <1>8 DEF ReconcileCopy, ChainMoves, allVars, inspectVars, callVars
<1> QED
  BY <1>4, <1>5, <1>6, <1>7, <1>8 DEF InspectNext, Call

(* However the calls behind inspect went, what the tool and the command    *)
(* make of the end is Ok itself: what is proved of them over worlds holds  *)
(* of calls over a chain that moves.                                       *)
THEOREM InspectEndsInAWorld == InspectSpec => []CallEndsInAWorld
<1>1. InspectInit => CopyFollowsVerdict
  BY DEF InspectInit, CopyFollowsVerdict
<1>2. IInv /\ InspectInv /\ CopyFollowsVerdict /\ EndsInAWorld => CallEndsInAWorld
  <2> SUFFICES ASSUME IInv, InspectInv, CopyFollowsVerdict, EndsInAWorld, Ended
               PROVE  \E w \in Front!Worlds(1) :
                        /\ w.found = Found
                        /\ stage = "reconcile" => w.rows[1] = Answered(1)
                        /\ Ok <=> /\ w.found = "Pass"
                                  /\ withIndexed => Front!RowStatus(w.rows[1], indexedSlot[1] # NoSlot) = "Pass"
    BY DEF CallEndsInAWorld
  <2>0. 1 \in Rows /\ NumRows = 1 /\ Rows = {1} /\ Found \in Front!Statuses
    BY InspectAssumption DEF Found, Front!Statuses
  <2>1. CASE stage = "end"
    <3> DEFINE unread == [answer |-> "no answer", excused |-> FALSE]
               w == [rows |-> [r \in 1..1 |-> unread], found |-> Found]
    <3>1. w \in Front!Worlds(1)
      BY <2>0 DEF Front!Worlds, Front!RowWorld
    <3>2. verdict = "error" \/ (verdict # "none" /\ ~withIndexed)
      BY <2>1 DEF CopyFollowsVerdict
    <3>3. Ok <=> w.found = "Pass" /\ (withIndexed => FALSE)
      BY <3>2 DEF Ok, Found
    <3>4. Front!RowStatus(w.rows[1], indexedSlot[1] # NoSlot) = "Skipped"
      <4>1. unread.answer = "no answer"
        OBVIOUS
      <4>2. w.rows[1] = unread
        OBVIOUS
      <4> QED
        BY <4>1, <4>2 DEF Front!RowStatus
    <3> QED
      BY <2>1, <3>1, <3>3, <3>4
  <2>2. CASE stage = "reconcile"
    <3>1. phase = "done" /\ withIndexed
      BY <2>2 DEF Ended, CopyFollowsVerdict
    <3>2. PICK v \in Front!Worlds(1) : v.rows = [r \in Rows |-> Answered(r)]
      BY <3>1, <2>0 DEF EndsInAWorld
    <3> DEFINE w == [rows |-> v.rows, found |-> Found]
    <3>3. w \in Front!Worlds(1)
      BY <2>0 DEF Front!Worlds
    <3>4. w.rows[1] = Answered(1)
      BY <3>2, <2>0
    <3>5. StatusOf(results[1]) = Front!RowStatus(w.rows[1], indexedSlot[1] # NoSlot)
      BY <3>1, <3>4, <2>0 DEF EndsInAWorld
    <3>6. results[1] = "pass" <=> StatusOf(results[1]) = "Pass"
      BY DEF StatusOf
    <3>7. Ok <=> verdict = "ok" /\ results[1] = "pass"
      BY <3>1, <2>0 DEF Ok
    <3>8. w.found = "Pass" <=> verdict = "ok"
      BY DEF Found
    <3> QED
      BY <3>1, <3>3, <3>4, <3>5, <3>6, <3>7, <3>8
  <2> QED
    BY <2>1, <2>2 DEF Ended
<1> QED
  BY <1>1, <1>2, InspectInvHolds, CallKeepsCopyFollows, InspectReconciles, ReconcileEndsInAWorld, PTL
  DEF InspectSpec
-----------------------------------------------------------------------------
(* Where the claim that inspect_deploy refutes does hold.                  *)

\* The deploy slot comes from a node that has finalized the slot the account
\* was read at.
DeployAsFar ==
  (\E n \in Nodes : ReadProgramData(n)) => \E n \in Nodes : ReadProgramData(n) /\ slot <= rooted[n]

\* The program as deployed up to the read is the one verified.
ReadOfVerified == verdict = "ok" => \A d \in deploys : d <= slot => d <= Verified

LEMMA NextKeepsReadOfVerified ==
  ASSUME IInv, InspectInv, ReadOfVerified, [InspectNext]_allVars, [DeployAsFar]_allVars
  PROVE  ReadOfVerified'
<1>0. Numbers
  BY CallNumbers
<1>0a. 1 \in Rows
  BY CallNumbers
<1>1. ASSUME verdict' # "ok" PROVE ReadOfVerified'
  BY <1>1 DEF ReadOfVerified
<1>2. CASE \E n \in Nodes : ReadAccount(n)
  <2>0. PICK n \in Nodes : ReadAccount(n)
    BY <1>2
  <2>1. verdict' \in {"none", Examine(raw')} /\ raw' \in Bytes
    <3>1. verdict = "none"
      BY <2>0 DEF ReadAccount, InspectInv
    <3>2. raw' = bytes[1][seen[n]] /\ seen[n] \in Slots /\ bytes \in [Rows -> [Slots -> Bytes]]
      BY <2>0, <1>0 DEF ReadAccount, Numbers, IInv, TypeOK, LedgerTypeOK
    <3>3. verdict' = verdict \/ verdict' = Examine(raw')
      BY <2>0 DEF ReadAccount, Conclude
    <3> QED
      BY <1>0a, <3>1, <3>2, <3>3
  <2>2. registered' = registered
    BY <2>0 DEF ReadAccount
  <2>3. Examine(raw') # "ok"
    BY <2>1, InspectAssumption DEF Examine, Classes, Bytes
  <2> QED
    BY <1>1, <2>1, <2>3
<1>3. CASE ReadProgram
  <2>1. CASE upgradeable
    <3>1. UNCHANGED <<slot, deploys, verdict>>
      BY <1>3, <2>1 DEF ReadProgram, programVars
    <3> QED
      BY <3>1 DEF ReadOfVerified
  <2>2. CASE ~upgradeable
    <3>1. deploys' = {0}
      BY <1>3, <2>2 DEF ReadProgram, programVars, InspectInv
    <3> QED
      BY <3>1 DEF ReadOfVerified, Verified
  <2> QED
    BY <2>1, <2>2
<1>4. CASE \E n \in Nodes : ReadProgramData(n)
  <2>1. CASE UNCHANGED allVars
    BY <2>1 DEF allVars, inspectVars, programVars, callVars, ReadOfVerified
  <2>2. ASSUME NEW n \in Nodes, ReadProgramData(n), slot <= rooted[n] PROVE ReadOfVerified'
    <3>1. PICK d \in deploys : IsLastDeploy(n, d) /\ verdict' = IF d > Verified THEN "stale_registry" ELSE "ok"
      BY <2>2 DEF ReadProgramData, Conclude
    <3>2. UNCHANGED <<slot, deploys>>
      BY <2>2 DEF ReadProgramData, programVars
    <3>3. ASSUME verdict' = "ok", NEW e \in deploys, e <= slot PROVE e <= Verified
      <4>1. /\ e \in Nat /\ d \in Nat /\ slot \in Nat /\ rooted[n] \in Nat
        BY <1>0, LedgerAssumption DEF Numbers
      <4>2. e <= d /\ ~(d > Verified)
        BY <2>2, <3>1, <3>3, <4>1 DEF IsLastDeploy
      <4> QED
        BY <4>1, <4>2 DEF Verified
    <3> QED
      BY <3>2, <3>3 DEF ReadOfVerified
  <2> QED
    BY <1>4, <2>1, <2>2 DEF DeployAsFar
<1>5. CASE ReadFails
  BY <1>1, <1>5 DEF ReadFails
<1>6. CASE ReconcileCopy \/ UNCHANGED allVars
  BY <1>6 DEF ReconcileCopy, allVars, inspectVars, programVars, callVars, ReadOfVerified
<1>7. CASE ChainMoves
  <2>1. UNCHANGED <<slot, verdict>> /\ (deploys' = deploys \/ deploys' = deploys \cup {tip + 1})
    BY <1>7 DEF ChainMoves, ProgramNext, Redeploy, Root, programVars
  <2> QED
    BY <1>0, <2>1 DEF Numbers, ReadOfVerified
<1> QED
  BY <1>2, <1>3, <1>4, <1>5, <1>6, <1>7 DEF InspectNext, Call

(* "ok" is said only of a layout confirmed for the deploy that wrote the   *)
(* account, if the deploy slot is asked of a node that has finalized the   *)
(* slot that was read; that it may not have is all inspect_deploy shows.   *)
THEOREM DeployAsFarKnowsTheWriter ==
  InspectSpec /\ [][DeployAsFar]_allVars => []OkIsForTheWriter
<1>1. InspectInit => ReadOfVerified
  BY DEF InspectInit, ReadOfVerified
<1>2. IInv /\ InspectInv /\ ReadOfVerified => OkIsForTheWriter
  <2> SUFFICES ASSUME IInv, InspectInv, ReadOfVerified, verdict = "ok",
                      NEW s \in touched[1], s <= slot, NEW d \in deploys, d < s
               PROVE  d <= Verified
    BY DEF OkIsForTheWriter
  <2>1. Numbers /\ 1 \in Rows
    BY CallNumbers
  <2>2. s \in Nat /\ d \in Nat /\ slot \in Nat
    BY <2>1 DEF Numbers, IInv, TypeOK, LedgerTypeOK
  <2> QED
    BY <2>2 DEF ReadOfVerified
<1> QED
  BY <1>1, <1>2, InspectInvHolds, NextKeepsReadOfVerified, PTL DEF InspectSpec
=============================================================================
