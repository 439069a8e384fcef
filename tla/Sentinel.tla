------------------------------ MODULE Sentinel ------------------------------
(***************************************************************************)
(* karat sentinel: the slot a program's code last changed at, and a shape  *)
(* check of a sample of its accounts of one type.                          *)
(*                                                                         *)
(* The program, its ProgramData and the list of its accounts are read at   *)
(* `finalized`, the sampled accounts at `confirmed`, batch after batch,    *)
(* each call answered by any node.  What was listed may be gone when it is *)
(* fetched.  The rows of Ledger are the program's accounts.                *)
(***************************************************************************)
EXTENDS Program, Sequences, FiniteSets, Functions

CONSTANTS MaxBatch,    \* MAX_ACCOUNT_BATCH: sample_accounts' own batches
          MaxKeys,     \* MAX_GET_MULTIPLE_ACCOUNTS_KEYS: the fetcher's first limit
          KeyCap,      \* KeyCap[n]: the most keys node n accepts in a call
          MaxSample,   \* bound on --sample
          Matching,    \* contents that begin with the discriminator asked for
          Passing      \* contents that pass check_shape

ASSUME SentinelAssumption ==
  /\ MaxBatch \in Nat \ {0} /\ MaxKeys \in Nat \ {0} /\ MaxSample \in Nat
  /\ KeyCap \in [Nodes -> Nat \ {0}]
  /\ Matching \subseteq Values /\ Passing \subseteq Values

\* Option::None for --since and --sample.
NoSlot == MaxSlot + 1
NoSample == MaxSample + 1

Lower(a, b) == IF a <= b THEN a ELSE b

VARIABLES
  since, sampleSize,    \* the arguments --since and --sample
  stage,                \* "program", "program data", "list", "fetch", "end"
  deploySlot,           \* ProgramUpgrade.deploy_slot, NoSlot before
  matched, chosen,      \* how many accounts were listed, and the sample of them
  looked,               \* how many of chosen are in the counts
  part,                 \* the accounts read so far of the next MaxBatch
  batchLimit,           \* RpcAccountFetcher.batch_limit
  fetched, passed,      \* the sums over SampleReport.lengths
  exit,                 \* "none", "clean" for 0, "flagged" and "error" for 1
  final                 \* history: what every node had finalized at the start

argVars == <<since, sampleSize>>
sampleVars == <<matched, chosen, looked, part, batchLimit, fetched, passed>>
chainVars == <<ledgerVars, programVars>>
vars == <<chainVars, argVars, stage, deploySlot, sampleVars, exit, final>>

TypeOK ==
  /\ LedgerTypeOK /\ ProgramTypeOK
  /\ since \in Slots \cup {NoSlot} /\ sampleSize \in 0..NoSample
  /\ stage \in {"program", "program data", "list", "fetch", "end"}
  /\ deploySlot \in deploys \cup {NoSlot}
  /\ matched \in Nat /\ chosen \in Seq(Rows)
  /\ looked \in 0..Len(chosen) /\ part \in Seq(Bytes)
  /\ Len(part) < MaxBatch /\ looked + Len(part) <= Len(chosen)
  /\ batchLimit \in 1..MaxKeys
  /\ fetched \in 0..looked /\ passed \in 0..fetched
  /\ exit \in {"none", "clean", "flagged", "error"}
  /\ final \in 0..tip

Init ==
  /\ LedgerInit /\ ProgramInit
  /\ since \in Slots \cup {NoSlot} /\ sampleSize \in 0..NoSample
  /\ stage = "program" /\ deploySlot = NoSlot
  /\ matched = 0 /\ chosen = << >> /\ looked = 0 /\ part = << >>
  /\ batchLimit = MaxKeys
  /\ fetched = 0 /\ passed = 0
  /\ exit = "none"
  /\ final = 0

\* What all nodes finalize before the first read counts as known before.
ChainMoves ==
  /\ ProgramNext
  /\ final' \in {IF stage = "program" THEN rooted'[n] ELSE final : n \in Nodes}
  /\ stage = "program" => \A n \in Nodes : final' <= rooted'[n]
  /\ UNCHANGED <<argVars, stage, deploySlot, sampleVars, exit>>
-----------------------------------------------------------------------------
(* The exit code.                                                          *)

\* Slip: the first deploy after --since is let through when it is the next slot.
DeployedAfterNext(s) == since # NoSlot /\ s > since + 1

\* deployed_after_since
DeployedAfter(s) == since # NoSlot /\ s > since

\* Slip: flagged only when nothing passes.
ExitUnlessSomePass(d, inCounts, good) ==
  IF DeployedAfter(d) \/ (inCounts > 0 /\ good = 0) THEN "flagged" ELSE "clean"

Exit(d, inCounts, good) ==
  IF DeployedAfter(d) \/ inCounts > good THEN "flagged" ELSE "clean"

\* No ProgramData: nothing to go stale, and the sample is not taken.
ReadProgram ==
  /\ stage = "program"
  /\ IF upgradeable THEN stage' = "program data" /\ UNCHANGED exit
                    ELSE stage' = "end" /\ exit' = "clean"
  /\ UNCHANGED <<chainVars, argVars, deploySlot, sampleVars, final>>

ReadProgramData(n) ==
  /\ stage = "program data"
  /\ \E d \in deploys : IsLastDeploy(n, d) /\ deploySlot' = d
  /\ IF sampleSize = NoSample THEN stage' = "end" /\ exit' = Exit(deploySlot', 0, 0)
                              ELSE stage' = "list" /\ UNCHANGED exit
  /\ UNCHANGED <<chainVars, argVars, sampleVars, final>>
-----------------------------------------------------------------------------
(* sample_accounts                                                         *)

\* Slip: the stride is rounded up.
StrideUp(m) ==
  IF sampleSize = 0 \/ m <= sampleSize THEN 1 ELSE (m + sampleSize - 1) \div sampleSize

Stride(m) == IF sampleSize = 0 \/ m <= sampleSize THEN 1 ELSE m \div sampleSize

\* How many of m keys step_by leaves.
Stepped(m) == (m + Stride(m) - 1) \div Stride(m)

Chosen(keys, m) ==
  [i \in 1..Lower(sampleSize, Stepped(m)) |-> keys[(i - 1) * Stride(m) + 1]]

Listed(n) == {r \in Rows : bytes[r][rooted[n]] \in Matching}

\* getProgramAccounts lists what matches, in no order one may count on.
ListAccounts(n) ==
  /\ stage = "list"
  /\ \E m \in 0..NumRows : \E keys \in Bijection(1..m, Listed(n)) :
        matched' = m /\ chosen' = Chosen(keys, m)
  /\ IF chosen' = << >> THEN stage' = "end" /\ exit' = Exit(deploySlot, 0, 0)
                        ELSE stage' = "fetch" /\ UNCHANGED exit
  /\ UNCHANGED <<chainVars, argVars, deploySlot, looked, part, batchLimit, fetched, passed, final>>

\* Keys of the batch in hand, and of the next call for it.
InHand == Lower(MaxBatch, Len(chosen) - looked)
CallSize == Lower(batchLimit, InHand - Len(part))

\* Slip: an account that is gone counts as fetched.
PresentOrGone(data) == DOMAIN data

\* Positions that hold an account.
Present(data) == {i \in DOMAIN data : data[i] # Absent}

\* Slip: the counts are those of the last batch.
TallyAnew(data) ==
  /\ fetched' = Cardinality(Present(data))
  /\ passed' = Cardinality({i \in Present(data) : data[i] \in Passing})
  /\ looked' = looked + Len(data) /\ part' = << >>

\* Slip: the accounts of a batch stay for the next.
TallyKeeps(data) ==
  /\ fetched' = fetched + Cardinality(Present(data))
  /\ passed' = passed + Cardinality({i \in Present(data) : data[i] \in Passing})
  /\ looked' = looked + Len(data) /\ part' = data

\* A whole batch goes into the counts.
Tally(data) ==
  /\ fetched' = fetched + Cardinality(Present(data))
  /\ passed' = passed + Cardinality({i \in Present(data) : data[i] \in Passing})
  /\ looked' = looked + Len(data) /\ part' = << >>

FetchCall(n) ==
  LET read == [i \in 1..CallSize |-> bytes[chosen[looked + Len(part) + i]][seen[n]]]
  IN
  /\ stage = "fetch"
  /\ CallSize <= KeyCap[n]
  /\ IF Len(part) + CallSize < InHand
       THEN part' = part \o read /\ UNCHANGED <<looked, fetched, passed>>
       ELSE Tally(part \o read)
  /\ IF looked' = Len(chosen) THEN stage' = "end" /\ exit' = Exit(deploySlot, fetched', passed')
                              ELSE UNCHANGED <<stage, exit>>
  /\ UNCHANGED <<chainVars, argVars, deploySlot, matched, chosen, batchLimit, final>>

\* Slip: one key below the cap that was named.
TooManyKeysBelow(n) ==
  /\ stage = "fetch"
  /\ KeyCap[n] < CallSize
  /\ batchLimit' = KeyCap[n] - 1 /\ part' = << >>
  /\ UNCHANGED <<chainVars, argVars, stage, deploySlot, matched, chosen, looked,
                 fetched, passed, exit, final>>

\* A node names a lower cap: the batch in hand starts over.
TooManyKeys(n) ==
  /\ stage = "fetch"
  /\ KeyCap[n] < CallSize
  /\ batchLimit' = KeyCap[n] /\ part' = << >>
  /\ UNCHANGED <<chainVars, argVars, stage, deploySlot, matched, chosen, looked,
                 fetched, passed, exit, final>>

\* Any call fails, or --sample comes without a known type.
ReadFails ==
  /\ stage # "end"
  /\ stage' = "end" /\ exit' = "error"
  /\ UNCHANGED <<chainVars, argVars, deploySlot, sampleVars, final>>

\* What the process does by itself or upon an answer, failed calls left out.
Progress ==
  \/ ReadProgram
  \/ \E n \in Nodes : \/ ReadProgramData(n) \/ ListAccounts(n)
                      \/ FetchCall(n) \/ TooManyKeys(n)

Next == ChainMoves \/ Progress \/ ReadFails

Spec == Init /\ [][Next]_vars
-----------------------------------------------------------------------------
Sampled == stage = "end" /\ exit # "error" /\ upgradeable /\ sampleSize # NoSample

(* "takes up to `sample` of them": as many as asked for or as there are,   *)
(* none twice, whatever the stride comes to.                               *)
SampleIsAsAsked ==
  stage = "fetch" =>
    /\ Len(chosen) = Lower(sampleSize, matched)
    /\ \A i, j \in DOMAIN chosen : chosen[i] = chosen[j] => i = j

(* The counts are of one look at each sampled account, over batches and    *)
(* batches that started over: one that was there all along is counted, one *)
(* that never was is not.                                                  *)
CountsAreOneLook ==
  Sampled =>
    /\ fetched >= Cardinality({r \in Range(chosen) : \A s \in 0..tip : bytes[r][s] # Absent})
    /\ fetched <= Cardinality({r \in Range(chosen) : \E s \in 0..tip : bytes[r][s] # Absent})

(* "1 when [...] a sampled account fails its shape check": exit code 0     *)
(* hides no sampled account whose content failed the whole time.           *)
CleanHidesNoFailure ==
  Sampled /\ exit = "clean" =>
    \A r \in Range(chosen) : \E s \in 0..tip : bytes[r][s] \in Passing \cup {Absent}

(* Exit code 1 without an error is earned: a deploy after --since, or a    *)
(* sampled account that held content which fails its shape check.          *)
FlaggedIsEarned ==
  exit = "flagged" =>
    \/ since # NoSlot /\ deploySlot \in deploys /\ deploySlot > since
    \/ \E r \in Range(chosen) : \E s \in 0..tip : bytes[r][s] \in Values \ Passing

(* "1 when `--since` is given and the program was deployed after that      *)
(* slot": no deploy that every node had finalized at the start is missed.  *)
SinceSeesFinalDeploys ==
  exit = "clean" /\ since # NoSlot => \A d \in deploys : d <= final => d <= since

(* The command ends.                                                       *)
SentinelEnds == <>(stage = "end" /\ exit # "none")
=============================================================================
