# Verification of karat67

TLA+ models of karat67, a Rust crate that checks a Solana index against the
chain it was built from. The crate answers a handful of questions over JSON-RPC
("is every produced slot in the index?", "are these stored bytes right?", "what
does this account hold?"), and its answers are meant to be acted on: rows are
dropped on a Fail, trusted on a Pass, retried on a Skipped. The checks are short
and sequential; what makes them hard is that each one makes several calls,
through a URL that may reach a different node every time, while the chain goes
on. That is what the models are about: what a verdict is worth after the calls
it was put together from.

## The system

| Part | Source | State it keeps | Operations |
|---|---|---|---|
| Slot windowing | `src/src/fetch.rs` 126-184 | the walk: `window_start`, the windows pushed | `slot_windows`, `get_blocks_in_windows` |
| Coverage checks | `src/src/checks/completeness.rs` | one check: the finalized slot, the capped end, the blocks read | `check_completeness`, `check_orphans`, `gap_slots` |
| Reconciliation | `src/src/checks/reconcile.rs`, `fetch.rs` | one check: the accounts read, the merged context slot, the row; `batch_limit`, which lives as long as the fetcher | `reconcile`, `reconcile_one`, `get_multiple_accounts`, `last_touch_slot` |
| Inspection | `src/src/inspect.rs`, `upgrade.rs`, `layout.rs` | one call: the account read, the deploy slot, the verdict | `inspect_account` |
| Shape and registry | `src/src/checks/shape.rs`, `specs.rs` | none; constant tables | `check_shape`, `find_by_discriminator`, `find_owned`, `AccountSpec::len_at` |
| Account gate | `src/src/gate.rs` | none | `check_account`, `all_pass` |
| Carbon hook | `src/src/carbon.rs` | four process-wide counters | `KaratDecoder::decode_account`, `gaps_for_disconnection` |
| Sentinel | `src/src/upgrade.rs`, `bin/karat.rs` 430-496 | none | `read_program_upgrade`, `sample_accounts` |
| MCP server | `src/src/mcp.rs`, `bin/karat-mcp.rs` | position in the input, the reply in hand | `serve`, three tools |
| CLI | `src/src/bin/karat.rs` | the arguments, the results | one subcommand per check, exit codes |
| Browser gate | `src/src/wasm.rs`, `site/main.js` | the form, the last drawing, the endpoint | `shape_json`, `check_account_json`; `runLive`, `runConstructed`, `caseChanged` |

How they meet: the CLI, the MCP server, the Carbon hook and the browser page
are callers; they parse, call one check, and print. The checks reach the chain
through the traits `AccountFetcher` and `SlotCoverageFetcher`, implemented by
`RpcAccountFetcher` (one blocking HTTP call after another) and by `MockFetcher`.
The gate runs shape first and `reconcile` only on a Pass. `inspect_account`
runs `reconcile` on the caller's copy after its own verdict. `Sentinel` samples
accounts through the same batched fetch. Nothing in the crate is threaded; the
concurrency is between a check and the chain, and between the nodes behind one
URL; and, in the MCP server, between the loop and a client that writes ahead.

What is hard in it:

- *Staleness between calls.* `getSlot` caps a window that later `getBlocks`
  calls are judged by; a merged context slot stands for batches read at
  different slots; an account is read at `confirmed` and the deploy slot at
  `finalized`.
- *Order of rules.* Gaps before the unfinalized tail, a missing account before
  a node that is behind, bytes before slots.
- *Restarts.* A node that names a lower key cap starts a fetch over; the cap is
  remembered for the life of the fetcher.
- *Edges.* Windows near `u64::MAX`; a last touch at the indexed slot itself; a
  deploy at the verified slot itself.
- *One verdict, many doors.* Tool, command, page and pipeline hook each parse
  their own input around the one gate, and default, pair and refuse on their own.
- *Ending.* The window walk ends by an equality test; a fetch ends because each
  restart lowers a limit; nothing has a timeout.

What makes each part correct:

- windowing: the windows tile the range exactly, none longer than the cap, and
  the walk ends without overflow;
- coverage: a Pass or a Fail stays true however far the chain goes on; a
  Skipped hides no Fail; a gap list leaves out nothing that was final;
- reconciliation: a result belongs to its own row; a Fail means the row was
  wrong when it was written; a wrong row is not excused; a key cap is never an
  outage; the check ends;
- inspection: `ok` is not said over a redeploy that was final, `stale_registry`
  is not said without one, and fields and copy are the same bytes unless a
  transaction came between their reads;
- shape, gate, Carbon hook: no registered type at a wrong length passes, RPC is
  never reached after a shape failure, the four counters split what was seen;
- MCP: one reply per request, in order, whatever the client does; a request is
  held up by nothing but a call that is out or a client that does not read;
- CLI: exit code 0 means that every call was made and every copy found on chain;
- all of them: the same inputs in the same world get the same verdict;
- Sentinel: the sample is as large as asked for, each account in it is counted
  once, and the exit code hides no failure and no deploy that was final;
- browser page: what is drawn next to a verdict is of the bytes judged, and says
  of their length what the verdict says.

## The modules

`SlotMath` holds the u64 arithmetic with its width a constant `MaxU64`:
saturating addition and the end of a window. `SlotWindows` is `slot_windows`
itself, one action per turn of the loop.

`Chain` is the environment of the coverage checks: slots finalize, some skipped,
and each node learns of them at its own pace. `Coverage` EXTENDS it with one
check. `kind` says which; `phase` runs through the code's order:

| Action | Code |
|---|---|
| `NothingFinal`, `Upto`, `UptoUnknown`, `GetSlotFails` | `reach`: the answer of `finalized_slot` below the window, inside or above it, `None`, or an error |
| `BeginGaps`, `BackwardGaps` | `gap_slots` up to its call of `get_blocks` |
| `GetBlocksWindow`, `GetBlocksFails` | one turn of `get_blocks_in_windows`; the `?` on it and the refusal of a backward range |
| `JudgeCompleteness`, `JudgeOrphans`, `ReturnGaps` | what is done with the slots |

A slot is a number, the index a set of slots, a message's text is left out, and
the slots a Fail names are `finding`. `floor` is a history variable: what every
node had finalized when the check began (`Begin`, the first answer or call of any
of the three). `CoveragePromise` is the abstract
specification: one look at the chain up to some final slot, judged as a whole,
with no calls in it. `Coverage!OneLook` is the refinement.

`Ledger` is the environment of account reads: slots confirm, some with a
transaction naming a sampled account, each node confirms at its own pace.
`bytes[r][s]` is what account `r` held after slot `s`. `Reconcile` EXTENDS it:

| Action | Code |
|---|---|
| `FetchBatch` | one turn of `get_multiple_accounts_in_batches` |
| `BatchTooLong`, `CapMisread` | an error that names a lower cap, rightly or not: the fetch starts over |
| `FetchFails` | any other error: every row Skipped |
| `WrongLength` | `ensure!` on the entries of a batch, which alone keeps `zip` from dropping rows: every row Skipped |
| `JudgeLocally` | `reconcile_one` where bytes and slots decide |
| `LastTouchKnown`, `LastTouchUnknown` | `last_touch_slot` answering, or `Ok(None)` and errors |

Bytes are model values. `callFailed` is a history variable. `ReconcilePromise` is
the abstract specification: each row is looked at once, at a confirmed slot of
its own (`readAt`), and judged by what its account held there, measured from the
oldest of those slots. `Reconcile!OneLookARow` is the refinement; `ReadAt` keeps
the slots of the try that stands, so a fetch that starts over has looked at
nothing yet.

`Program` EXTENDS `Ledger` with the program that owns the accounts and with
finality: it is redeployed (`Redeploy`), and each node finalizes what it has
confirmed (`Root`). Deploy slots and listings are answered from there.

`Inspect` EXTENDS `Reconcile`, with a sample of one row, and `Program`:
`ReadAccount`, `ReadProgram`, `ReadProgramData` and `ReadFails` are the calls of
`inspect_account` at their commitments, `ReconcileCopy` is all of `Reconcile`.
What the registry says of the bytes is the constant `Class`. `final` is a
history variable, what every node had finalized when the call began.

`Sentinel` EXTENDS `Program`; the rows of `Ledger` are the program's accounts:

| Action | Code |
|---|---|
| `ReadProgram` | the Program account; not upgradeable ends the command with exit code 0 |
| `ReadProgramData` | the deploy slot, as far as the answering node has finalized |
| `ListAccounts` | `getProgramAccounts` at finalized, in any order, and the stride over it |
| `FetchCall` | one call of a batch at confirmed; the last call of a batch puts it into the counts |
| `TooManyKeys` | a lower key cap is named: the batch in hand starts over |
| `ReadFails` | any error, of a call or of `sample_target` |

`lengths` is kept as its two sums, `fetched` and `passed`; `exit` tells exit
code 1 after an error from 1 after a finding. `final` is as in `Inspect`.

The front ends are eight modules. `Shape` is `check_shape`, the two lookups and
`len_at`, over the constant `Specs`; `Layout` adds the field layouts and
`ClassOf`, the verdict `inspect_raw` draws from the bytes (what is the constant
`Class` in `Inspect`). `Registry` holds the tables themselves, row by row; they
are the values of those constants in the run. A discriminator is the hash of a
struct name, so the name stands for it, and two programs that name a struct
alike share it, as they do on chain.

`Gate` is `check_account` and `all_pass`, and the two exports for the page. What
a reconcile comes to is `RowStatus` of any answer to its call; which answers
those are, over calls, nodes and slots, is the matter of `Reconcile` and not
repeated. `Mcp`, `Cli` and `Carbon` each EXTEND `Gate` with the state of one
front end, `Page` with that of `site/main.js`, whose run of the live case awaits
two reads while the form stays in use; and `Frontends` composes them: separate
programs, one of which runs.

| Action | Code |
|---|---|
| `ClientWrites`, `ClientCloses`, `ClientStalls`, `ClientReadsOn`, `ClientGoes` | the client of the MCP server (external): what it writes, and whether it reads |
| `ReadBlank`, `ReadBad`, `ReadCut`, `ReadEof` | `read_message`: an empty line, a line or frame that is none, a frame that ends early, the end |
| `ReadNote`, `ReadRequest`, `ReadCall` | `handle_request`: nothing owed, answered at once, a tool that calls the endpoint |
| `CallAnswered` | the answers, or errors, of all calls of the tool; `write_message` |
| `Parse`, `BailOut`, `EndOffline` | clap, the checks on the arguments, a command that needs no call |
| `GoOnline`, `Answer`, `WriteOut` | the calls, what the command draws from them, `--out` |
| `NotDecoded`, `Verified`, `PassedOn`, `Rejected` | the four ways through `decode_account` |
| `gate_account` | the processor behind the decoder |
| `Load`, `PickCase`, `PasteIn` | `init()` settling; a change of the case or of the pasted payload, drawn by `caseChanged` |
| `Submit`: `runConstructed`, `Refuse`, `runLive` | `runGate`, up to the first read if there is one |
| `FirstRead`, `SecondRead`, `ReadFails` | `runLive` after each of its awaits; what `runGate` catches |

On the page, a part of the form no handler listens to (the damage, the account,
the slot) is read when it is used and may hold anything then; the case and the
payload are state. `shown.of` and `field[1].of`, the bytes a verdict and a bar
were drawn from, are there for the property alone.

`got` (the world the calls of a command met), `seen`, `dropped` and `refused` are
history variables. What a terminal report says of the exit code is `SaidExit`.

Definitions commented `Slip` are not part of any specification. Each is a
plausible mistake in the definition below it, kept to show that the properties
notice it.

`SlotWindowsProofs`, `CoverageProofs`, `CoverageOneNode`, `ReconcileProofs`,
`InspectProofs`, `SentinelProofs`, `McpProofs` and `FrontendsProofs` hold the theorems. The `MC` modules give
constants and the reductions named below.

## The runs

| Run | What it asks | Bounds |
|---|---|---|
| `slot_windows` | every (start, end, max): do the windows tile the range, fit the cap, stay in the type? | an 8-value type: every way the last windows can meet the largest value |
| `coverage` | one node, all three checks: do verdicts hold for good, and do the calls refine one look? | 4 slots, windows of 2 blocks: up to three calls, with the chain moving between |
| `coverage_pool` | the same Pass with two nodes behind the URL: **violated** | 2 slots, 2 nodes |
| `gaps` | is the backfill list exact, as `karat gaps` says? **violated** | 2 slots, 1 node |
| `reconcile` | what each result is worth; ending | 2 rows, 2 nodes with caps of 1 and 2 keys, 3 slots |
| `reconcile_restart` | do batches and restarts keep rows and slots apart, does every call count, and do they refine one look a row? | 3 rows, the same nodes, 2 slots |
| `reconcile_pool` | is every "untouched since" Fail a wrong row? **violated** | as `reconcile` |
| `reconcile_behind` | is a right row never failed by a read older than it? **violated** | 1 row |
| `inspect` | ok, stale and the copy against writes and redeploys between the reads | 1 row, 2 nodes, 3 slots |
| `inspect_deploy` | is ok said only of a layout confirmed for the writer's deploy? **violated** | 1 node |
| `sentinel` | is the sample as asked, counted once, and the exit code earned? | 4 accounts, samples of 0, 2, 3 or none asked, batches of 2, 2 nodes with caps of 1 and 2 keys, 2 slots |
| `frontends` | are replies in order, exit codes earned, counters complete, drops deserved, and is the verdict the same through every door? | the registry as shipped; 1,492 command lines, 3 messages out of 14, 2 accounts out of 39; on the page 7 accounts, 5 payloads and every change of the form |

Why the bounds are enough to be interesting. Two rows and caps of one and two
give one batch or two, and batches at different slots; three rows are the fewest
with which a fetch can start over after some were read, which needs one slot
between the tries and no more. Three slots give a write before, at and after the indexed slot,
and a node that is behind it. Four slots and windows of two give a check that
needs a second call, with a skipped slot in either. The lag rule is met on both
sides with `MaxSlotLag = 1`. Four accounts are the fewest with which a stride
rounded the wrong way leaves too few (3 of 4), with which a stride of two is
taken (2 of 4), and with which a sample spans two batches (3); one slot after
the first gives a write or a redeploy between any two calls. Proofs, where there are any, remove the bounds.

For the front ends, the command lines cover each command with every URL given or
not or blank, up to two accounts, copies and slots (the fewest that can be paired
wrongly), and every row of the registry at its length and one byte to either
side. Three messages are one that holds the loop up, one behind it, and one more
for the order. Two accounts are enough for a counter: each step of `Carbon`
depends on the account in hand alone. On the page the payloads are an account
as registered, with a byte too many, of a minimum length, of an unregistered type
at the length of the case picked, and under 8 bytes; on chain there is also a
newer version of the first, and each of them is damaged in every way.

Reductions. `MCInit` of `MCFrontends` starts the programs that do not run in one
state, gives the server a blank `KARAT_RPC_URL` for none, and runs the Carbon decoder for one registered program and one outside.
`MCSentinel` names accounts in the order of what they hold first,
since they are listed in every order, and lets none start with another type's
content, since that is not listed any more than an absent one. In `MCReconcile` and `MCInspect` every row of the index holds the
value `a`: rows are never compared with each other, so any other index is a
renaming of one of these. The chain stops when the check is done, because what
an account held at a past slot does not change; `Coverage` keeps the chain
running after the verdict, since that is what its properties are about.
Deadlock is not checked: a check ends, and the bounded chain ends.

What the violated runs show, and under what condition the claim that each
refutes is proved to hold:

- `coverage_pool`: `getSlot` is answered by a node that is ahead of the one that
  answers `getBlocks`. The blocks it has not finalized look like skipped slots,
  and completeness passes a window with a produced, unindexed block. Proved
  correct whenever no `getBlocks` is answered by a node behind the slot that
  `getSlot` named (`AsFar`), one node included; and what holds in any pool is
  `SettledIsExact`, exactness as far as every node had finalized at the start.
- `gaps`: `gap_slots` has no finalized cap. Asked at a reconnect, its list stops
  where the node has finalized and it returns `Ok`. Proved exact, in any pool, of
  a window that every node had finalized when it was asked
  (`FinalGapListIsExact`).
- `reconcile_pool`: the last touch is asked of a node as far as the *oldest*
  batch. A row read in a newer batch, changed in between, is failed. Proved
  right if each last touch is asked of a node as far as that row's own read
  (`TouchAsFar`): the slot of the row instead of the merged one.
- `reconcile_behind`: the account is missing at the node's slot because it was
  created later; "missing" is judged before "rpc behind index". Proved to be the
  only way: no row is failed over its bytes by a read older than its slot
  (`OnlyMissingFailsEarly`).
- `inspect_deploy`: the account is read at `confirmed` and the deploy slot at
  `finalized`, so a redeploy that has already written the account is not seen.
  Proved right if the node that gives the deploy slot has finalized the slot the
  account was read at (`DeployAsFar`).

These conditions are stated as `[][...]_vars` next to the specification: they
restrict which node answers, not what the code does, and any pool with one
node satisfies the first two. They say where a fix would have to bite.

`PROJECT.json` quotes the line of a comment or a document that each contradicts.

## Fairness

Safety needs none. `CheckEnds`, `ReconcileEnds`, `InspectEnds` and
`SentinelEnds` assume weak fairness of `Progress` (`CallProgress`): whatever the
process does by itself or upon an answer. The code justifies the first half: it is one thread in a
straight line or a loop. The second half, that a call is answered in the end, is
an assumption about the endpoint: `RpcAccountFetcher::new` sets no timeout
(`fetch.rs` 354-359), so an endpoint that takes a call and never answers holds
the check for ever. Failed calls are in `Next` and not in `Progress`: ending
does not rely on a failure. No fairness is asked of the chain or of nodes
catching up.

`OnlyOthersHoldUp` assumes weak fairness of `ServeStep`, the loop going on by
itself, and of nothing else: not of the client and not of the endpoint. It is
conditional on calls coming back (`[]<>(~waiting)`) for the reason above, and on
a client that in the end reads or is gone (`<>[](reader # "stalled")`), since
`write_message` blocks on a full pipe and nothing bounds that either. It says that
these two are all a request ever waits for. The pipe is the shortest there is: a
client that stops reading stops the very next reply.

## What is proved

Everything is for all values of the constants under their `ASSUME`s: any number
of nodes and rows, any chain length, type width, window length, key cap, lag.

- `SlotWindowsProofs`: types, `TilesExactly`, `WalkBounded`.
  The inductive invariant says that everything before `windowStart` is covered
  once and nothing else is, and that each window lies behind the next; tiling
  alone is only true at the end of the walk.
- `CoverageProofs` (`PoolInv`), any pool: types, `MissingIsReal`,
  `PassHasNoOrphan`, `SettledIsExact`. The invariant adds how far the walk has
  come (`FloorHeld`): every block final at `floor` and before `at` has been read,
  and whatever slot a node names it is no lower than `floor`. `SettledIsExact` is
  checked by the run with one node and proved for any number. `CoverageGetsOn`:
  the slots left to ask for shrink with every step, so no check goes round,
  though the walk stops by an equality test.
- `CoverageOneNode` (`OneInv`), under `AsFar`: the other three verdicts, and that
  the check with all its calls refines `CoveragePromise`. The step that needs the
  condition is that a block at or below the answer of `getSlot` is known to
  whoever answers `getBlocks`. One node has it, since roots never move back, so
  both hold under `OneNode` without condition.
- `ReconcileProofs` (`IInv`): types, `FailAtContextIsCorrupt`,
  `ReadsKeepTheirPlace`, `CorruptIsNotExcused`, `CapAloneNeverFails`. `History`
  says that only a transaction naming an account changes what it holds, `Reads`
  that each read is what the account held at the slot kept for it and that the
  merged slot is one of those, `Sound` restates each result in a form no later
  slot disturbs. `EveryCallCounts`: each step lowers the batch limit or leaves it
  and shortens the work (`ToDo`). `OneLookARow`, step by step: the last batch of
  the try that stands is the look, everything before it a stutter, and `InOrder`
  (rows are judged from the first on) makes each verdict one of the promise's.
  `ReconcileEndsInAWorld`: with `AllEnd` and `Graded`, however a check ends, that
  end is a world the front ends are run with, and each row has the status `Gate`
  gives it there.
- `InspectProofs` (`InspectInv` on top of `IInv`): a call implements
  `Reconcile!Spec`, so all that is proved there carries over, the one look a row
  included (`InspectIsOneLookARow`); types, `OkSawFinalDeploys`, `StaleIsReal`,
  `OkFieldsAreTheCopy`. `InspectGetsOn` orders the stages, then the batch limit,
  then the work of reconcile. `InspectEndsInAWorld`, from `CopyFollowsVerdict`
  (a copy is reconciled after a verdict, whichever it is, and only then), is for
  the tool and the command what `ReconcileEndsInAWorld` is for the gate.
- `SentinelProofs` (`SInv`): types, `SampleIsAsAsked`, `SinceSeesFinalDeploys`,
  `CleanHidesNoFailure`, `FlaggedIsEarned`. The first rests on three lemmas about
  division: a stride of `m \div s` leaves at least `s` keys of `m`, all inside
  the listing. For the last two the invariant says of the accounts looked at
  what the counts say in sum: as long as `fetched = passed` each of them held
  something that passes or was absent at a slot up to `tip`, and once they
  differ one held something that fails. `CountsAreOneLook` has an invariant of
  its own, `OneLook`: the accounts counted as fetched form a set of that size,
  each of them held content and every other one looked at was gone at some slot.
  `SampleReach` says how far the stride reaches, of every listing: between two
  keys taken lie fewer than a stride, past the last stride fewer keys than were
  asked for, and below two keys for each one asked the sample is the first of
  the listing. `SentinelGetsOn` orders what is left to do, then the key limit,
  then the keys to fetch.
- `McpProofs` (`InHand`, `EndIsFinal`, `InOrder`): types, `RepliesInOrder`. The
  invariant says that the message in hand is the only one read and not answered,
  and that replies name ever later messages, all before the one in hand.
- `FrontendsProofs`. Of the registry: a legal length has room for every field
  (`LegalLengthDecodes`), so `check_shape` and `inspect_raw` agree on a type
  without eras (`ShapeIsInspectsVerdict`); `len_at` is the last era begun
  (`EraInForce`). Of the decoder: types, `CountersAddUp`, whose invariant
  `Counted` ties each counter to a set of accounts seen, and `DropIsDeserved`,
  whose invariant `DroppedByShape` recalls why an account was dropped. Of the
  command line, from the invariant `Course` (what has been decided at each
  stage): types, `GreenIsEarned`, `SameAnswer`. Of the page: types, and
  `FieldIsOfTheVerdict`, which rests on `BarIsShape`: the page's length check
  agrees with the crate's for any payload and any row it may fall back to, since
  no row is under 8 bytes. Of the composition: it implements
  each front end's own specification (`EachAsSpecified`), so all this carries over.

The measures (`CoverageGetsOn`, `EveryCallCounts`, `InspectGetsOn`,
`SentinelGetsOn`) are the safety half of ending: every step of the process, a
failed call included, makes a value smaller that nothing makes larger again.
That such a step is taken at all is the fairness half.

Only model-checked: the five liveness properties (fairness and ENABLED are beyond
the prover) and the violations.

## What is left out

- Text of results, JSON layout, progress printing, base58 and base64. Of the
  terminal reports only what they say of the exit code is modelled. Being text,
  out of reach are also the panic of `parse_discriminator_hex` (`karat.rs` 1175)
  on 16 bytes that are not all ASCII, and the values `layout.rs` reads.
- `SameAnswer` leaves out two things by name, in `Shared`: a blank `--rpc-url`,
  which clap passes on and the tool ignores in favour of `KARAT_RPC_URL`, and
  `--out`, which no tool has. And it compares with lines clap accepts: a tool may
  be called with a value of the wrong type, which a line cannot have.
- The worlds of `Frontends` are results of calls, not the calls: what a verdict
  is worth as the chain moves is the matter of the other modules. The two meet in
  `ReconcileEndsInAWorld` and `InspectEndsInAWorld`: no call of theirs ends in a
  way the front ends were not checked with. A gap list has no such theorem: its
  world is only whether there was one.
- Of `site/main.js`: wording, the endpoint field and its storage, the copy
  buttons, and the bar's animation, which sets the width two frames after it was
  asked for, whatever the field shows by then (a finding in `PROJECT.json`). That
  the case picked while a run is out may not be the one the verdict is of is as
  the code has it, and no property forbids it.
- `MockFetcher`, the Carbon pipeline itself, `site/styles.css`, tests, examples,
  evidence and demo scripts.

## Plan

Done: windowing, coverage with its promise, reconciliation, inspection,
sentinel, the gate with its four callers, the page among them, the registry; the
proofs above.

What could follow: abstract promises for `Inspect` and `Sentinel` as wholes, as
there are for the two checks; `parse_program_data_prefix` against a reference
definition.
