------------------------------- MODULE Inspect -------------------------------
(***************************************************************************)
(* inspect_account: what an account holds, with a verdict on whether the   *)
(* layout behind the answer is confirmed for the program as deployed.      *)
(*                                                                         *)
(* One call makes several: the account at `confirmed`, then the program    *)
(* and its ProgramData at `finalized`, then, with an indexed copy, all of  *)
(* reconcile for a sample of that one row.  Transactions, deploys and the  *)
(* nodes' progress come between any two of them.                           *)
(***************************************************************************)
EXTENDS Reconcile, Program

CONSTANT Class    \* Class[v]: what the registry has for bytes v of the owner

Classes == {"unknown_layout", "layout_mismatch", "decodes"}

ASSUME InspectAssumption ==
  /\ NumRows = 1
  /\ Class \in [Values -> Classes]

\* verified_deploy_slot: the registry knows the first deploy, at slot 0.
Verified == 0

VARIABLES
  registered,    \* the owner is a program of the registry
  withIndexed,   \* the caller passed its stored copy
  stage,         \* "account", "program", "program data", "reconcile", "end"
  slot, raw,     \* the slot the account was read at, and its bytes
  deploySlot,    \* program_deploy_slot, NoSlot for None
  verdict,       \* "none" until there is one, "error" for an Err
  final          \* history: what every node had finalized when the call began

callVars == <<registered, withIndexed, stage, slot, raw, deploySlot, verdict, final>>
inspectVars == <<programVars, callVars>>
allVars == <<vars, inspectVars>>

Verdicts == {"none", "error", "ok", "stale_registry", "layout_mismatch",
             "unknown_layout", "unregistered_program", "missing"}

InspectTypeOK ==
  /\ TypeOK
  /\ ProgramTypeOK
  /\ registered \in BOOLEAN /\ withIndexed \in BOOLEAN
  /\ stage \in {"account", "program", "program data", "reconcile", "end"}
  /\ slot \in 0..tip /\ raw \in Bytes
  /\ deploySlot \in deploys \cup {NoSlot}
  /\ verdict \in Verdicts
  /\ final \in 0..tip

InspectInit ==
  /\ Init
  /\ ProgramInit
  /\ registered \in BOOLEAN /\ withIndexed \in BOOLEAN
  /\ stage = "account"
  /\ slot = 0 /\ raw = Absent /\ deploySlot = NoSlot
  /\ verdict = "none"
  /\ final = 0
-----------------------------------------------------------------------------
\* What all nodes have finalized counts as known before the call up to its
\* first step.
ChainMoves ==
  /\ ProgramNext
  /\ final' \in {IF stage = "account" THEN rooted'[n] ELSE final : n \in Nodes}
  /\ stage = "account" => \A n \in Nodes : final' <= rooted'[n]
  /\ UNCHANGED <<sample, phase, fetchVars, row, results, callFailed,
                 registered, withIndexed, stage, slot, raw, deploySlot, verdict>>
-----------------------------------------------------------------------------
(* The steps of a call.  A verdict ends inspect_raw; reconcile follows it  *)
(* when the caller passed a copy.                                          *)

Conclude(v) ==
  /\ verdict' = v
  /\ stage' = IF withIndexed THEN "reconcile" ELSE "end"

\* What the account alone decides, in the code's order; "none" for the rest.
Examine(data) ==
  IF data = Absent THEN "missing"
  ELSE IF ~registered THEN "unregistered_program"
  ELSE IF Class[data] # "decodes" THEN Class[data]
  ELSE "none"

ReadAccount(n) ==
  /\ stage = "account"
  /\ slot' = seen[n] /\ raw' = bytes[1][seen[n]]
  /\ IF Examine(raw') = "none" THEN stage' = "program" /\ UNCHANGED verdict
                               ELSE Conclude(Examine(raw'))
  /\ UNCHANGED <<vars, programVars, registered, withIndexed, deploySlot, final>>

\* jsonParsed names no ProgramData: the program cannot be upgraded.
ReadProgram ==
  /\ stage = "program"
  /\ IF upgradeable THEN stage' = "program data" /\ UNCHANGED verdict
                    ELSE Conclude("ok")
  /\ UNCHANGED <<vars, programVars, registered, withIndexed, slot, raw, deploySlot, final>>

\* Slip: a deploy is later when it is after the slot the account was read at.
ReadProgramDataAgainstRead(n) ==
  /\ stage = "program data"
  /\ \E d \in deploys :
        /\ IsLastDeploy(n, d)
        /\ deploySlot' = d
        /\ Conclude(IF d > slot THEN "stale_registry" ELSE "ok")
  /\ UNCHANGED <<vars, programVars, registered, withIndexed, slot, raw, final>>

\* Slip: the deploy the registry was verified against is later than itself.
ReadProgramDataAtVerified(n) ==
  /\ stage = "program data"
  /\ \E d \in deploys :
        /\ IsLastDeploy(n, d)
        /\ deploySlot' = d
        /\ Conclude(IF d >= Verified THEN "stale_registry" ELSE "ok")
  /\ UNCHANGED <<vars, programVars, registered, withIndexed, slot, raw, final>>

\* Slip: the slot reported is the first that runs the new code.
ReadProgramDataNext(n) ==
  /\ stage = "program data"
  /\ \E d \in deploys :
        /\ IsLastDeploy(n, d)
        /\ deploySlot' = d + 1
        /\ Conclude(IF d > Verified THEN "stale_registry" ELSE "ok")
  /\ UNCHANGED <<vars, programVars, registered, withIndexed, slot, raw, final>>

\* Slip: only a node that has finalized the slot that was read may answer.
ReadProgramDataWaits(n) ==
  /\ stage = "program data"
  /\ slot <= rooted[n]
  /\ \E d \in deploys :
        /\ IsLastDeploy(n, d)
        /\ deploySlot' = d
        /\ Conclude(IF d > Verified THEN "stale_registry" ELSE "ok")
  /\ UNCHANGED <<vars, programVars, registered, withIndexed, slot, raw, final>>

ReadProgramData(n) ==
  /\ stage = "program data"
  /\ \E d \in deploys :
        /\ IsLastDeploy(n, d)
        /\ deploySlot' = d
        /\ Conclude(IF d > Verified THEN "stale_registry" ELSE "ok")
  /\ UNCHANGED <<vars, programVars, registered, withIndexed, slot, raw, final>>

\* An Err of any read before the verdict is the answer, with nothing claimed.
ReadFails ==
  /\ stage \in {"account", "program", "program data"}
  /\ verdict' = "error" /\ stage' = "end"
  /\ UNCHANGED <<vars, programVars, registered, withIndexed, slot, raw, deploySlot, final>>

ReconcileCopy == stage = "reconcile" /\ Check /\ UNCHANGED inspectVars

Call ==
  \/ \E n \in Nodes : ReadAccount(n) \/ ReadProgramData(n)
  \/ ReadProgram \/ ReadFails \/ ReconcileCopy

\* What the process does by itself or upon an answer, failed calls left out.
CallProgress ==
  \/ \E n \in Nodes : ReadAccount(n) \/ ReadProgramData(n)
  \/ ReadProgram
  \/ stage = "reconcile" /\ Progress /\ UNCHANGED inspectVars

InspectNext == Call \/ ChainMoves

InspectSpec == InspectInit /\ [][InspectNext]_allVars

Ended == stage = "end" \/ (stage = "reconcile" /\ phase = "done")

\* Slip: an indexed copy passes unless it fails.
OkUnlessFail == verdict = "ok" /\ (withIndexed => \A r \in Rows : results[r] \notin Fails)

\* Inspection::ok
Ok == verdict = "ok" /\ (withIndexed => \A r \in Rows : results[r] = "pass")
-----------------------------------------------------------------------------
(* "ok" is never said over a redeploy that every node had finalized before *)
(* the call: comparing deploy slots against the registry is what inspect   *)
(* adds to a decode, and it must not miss an upgrade it can read.          *)
OkSawFinalDeploys ==
  verdict = "ok" => \A d \in deploys : d <= final => d <= Verified

(* "stale_registry" names a redeploy that happened: the deploy slot in the *)
(* answer is one, after the registry was verified, whatever node was asked.*)
StaleIsReal ==
  verdict = "stale_registry" => deploySlot \in deploys /\ deploySlot > Verified

(* One call answers "what is this?" and "is my copy right?" by two reads.  *)
(* When ok is true with a copy, both were made: the decoded bytes are the  *)
(* account's at the slot in the answer, the copy is what it held at the    *)
(* other read, and they differ only if a transaction between the two,      *)
(* whichever came from the older slot, named the account.                  *)
OkFieldsAreTheCopy ==
  Ended /\ Ok /\ withIndexed =>
    LET copySlot == accounts[1].slot IN
    /\ accounts # << >>
    /\ raw = bytes[1][slot] /\ indexed[1] = bytes[1][copySlot]
    /\ indexed[1] # raw => \E s \in touched[1] : ~(s <= slot <=> s <= copySlot)

(* The comment on Verdict: "Only Verdict::Ok means decoded with a layout   *)
(* confirmed for the deploy that wrote it".  Every transaction up to the   *)
(* slot read counts as written by the program deployed before it.          *)
OkIsForTheWriter ==
  verdict = "ok" =>
    \A s \in touched[1] : s <= slot => \A d \in deploys : d < s => d <= Verified

(* Every call ends, with a verdict or an error, and a result for the copy. *)
InspectEnds == <>(Ended /\ verdict # "none")
=============================================================================
