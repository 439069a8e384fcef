--------------------------------- MODULE Cli ---------------------------------
(***************************************************************************)
(* karat: one command, from its command line to its exit code.             *)
(*                                                                         *)
(* clap parses the line, the command looks over its arguments, makes its   *)
(* calls, and exits.  Sentinel is in a module of its own.                  *)
(***************************************************************************)
EXTENDS Gate

CONSTANT Lines     \* what a caller may type

Commands == {"shape", "reconcile", "completeness", "orphans", "gaps", "inspect", "account"}

\* ill: clap refuses the line for what is not shown here, a number that is none
\* or an option that is unknown or missing.  window: --start and --end, or
\* --last-before and --first-after.  indexed: --slot and --slots together.
\* data: what the first copy holds, or the payload shape makes up.
Line == [command : Commands, ill : BOOLEAN, url : Endpoints,
         accounts : Nat, copies : Seq({"base64", "not base64"}), slots : Nat,
         window : {"none", "forward", "backward"}, indexed : {"none", "some", "bad"},
         data : Payload, out : BOOLEAN]

\* Only these commands have the option: any other line with a copy is ill.
ASSUME CliAssumption ==
  /\ Lines \subseteq Line
  /\ \A l \in Lines : l.copies # << >> => l.command \in {"reconcile", "inspect", "account"}

VARIABLES
  line,        \* the command line
  stage,       \* "parse", "check", "call", "write" or "end"
  exit,        \* "none" until the end, then the exit code
  results,     \* the statuses of the CheckResults, in order
  got          \* history: the world its calls met, {} before any

cliVars == <<env, line, stage, exit, results, got>>

\* The rows of the reconcile a command makes: zip stops at the shorter list.
RowsOf(l) ==
  IF l.command # "reconcile" THEN 1
  ELSE IF l.accounts <= Len(l.copies) THEN l.accounts ELSE Len(l.copies)

CliTypeOK ==
  /\ env \in Endpoints
  /\ line \in Line
  /\ stage \in {"parse", "check", "call", "write", "end"}
  /\ exit \in {"none", "0", "1", "2"} /\ (exit = "none" <=> stage # "end")
  /\ results \in Seq(Statuses)
  /\ got \subseteq Worlds(RowsOf(line))

CliInit ==
  /\ env \in Endpoints
  /\ line \in Lines
  /\ stage = "parse" /\ exit = "none" /\ results = << >> /\ got = {}
-----------------------------------------------------------------------------
\* --rpc-url, or the variable when the option is not given.
UrlOf(l) == IF l.url # "none" THEN l.url ELSE env

NeedsUrl == Commands \ {"shape", "account"}

\* The line has what its command requires.
Parses(l) ==
  /\ ~l.ill
  /\ l.command \in NeedsUrl => UrlOf(l) # "none"
  /\ l.command = "reconcile" => l.accounts > 0 /\ l.copies # << >>
  /\ l.command \in {"completeness", "orphans", "gaps"} => l.window # "none"
  /\ l.command \in {"inspect", "account"} =>
       l.accounts = 1 /\ Len(l.copies) <= 1 /\ l.slots <= 1
  /\ l.command = "inspect" => (l.slots = 1 => l.copies # << >>)
  /\ l.command = "account" => l.copies # << >>

Decodes(l) == \A i \in DOMAIN l.copies : l.copies[i] = "base64"

\* Slip: accounts and copies are paired as far as they go.
AcceptsUnpaired(l) ==
  CASE l.command = "shape" -> Registered(l.data.name)
    [] l.command = "reconcile" -> l.slots \in {0, l.accounts} /\ Decodes(l)
    [] l.command \in {"completeness", "orphans"} -> l.window = "forward" /\ l.indexed = "some"
    [] l.command = "gaps" -> l.window = "forward"
    [] l.command \in {"inspect", "account"} -> Decodes(l)

\* The command takes the arguments and does not bail out.
Accepts(l) ==
  CASE l.command = "shape" -> Registered(l.data.name)
    [] l.command = "reconcile" ->
         l.accounts = Len(l.copies) /\ l.slots \in {0, l.accounts} /\ Decodes(l)
    [] l.command \in {"completeness", "orphans"} -> l.window = "forward" /\ l.indexed = "some"
    [] l.command = "gaps" -> l.window = "forward"
    [] l.command \in {"inspect", "account"} -> Decodes(l)

Parse ==
  /\ stage = "parse"
  /\ IF Parses(line) THEN stage' = "check" /\ UNCHANGED exit
                     ELSE stage' = "end" /\ exit' = "2"
  /\ UNCHANGED <<env, line, results, got>>

BailOut ==
  /\ stage = "check" /\ ~Accepts(line)
  /\ stage' = "end" /\ exit' = "1"
  /\ UNCHANGED <<env, line, results, got>>

\* The command ends with these results.
EndWith(found) ==
  /\ results' = found
  /\ stage' = "end"
  /\ exit' = IF all_pass(found) THEN "0" ELSE "1"

HasFetcher == UrlOf(line) # "none"

\* shape asks no one, and account no one when its shape fails or there is no URL.
EndOffline ==
  /\ stage = "check" /\ Accepts(line)
  /\ \/ line.command = "shape"
        /\ EndWith(<<IF check_shape(line.data) = "pass" THEN "Pass" ELSE "Fail">>)
     \/ line.command = "account" /\ ~AsksChain(line.data, HasFetcher)
        /\ EndWith(check_account(line.data, HasFetcher, "Skipped"))
  /\ UNCHANGED <<env, line, got>>

GoOnline ==
  /\ stage = "check" /\ Accepts(line)
  /\ line.command # "shape"
  /\ line.command = "account" => AsksChain(line.data, HasFetcher)
  /\ stage' = "call"
  /\ UNCHANGED <<env, line, exit, results, got>>

\* The results a command draws from the world.
ResultsOf(l, w) ==
  LET status(i) == RowStatus(w.rows[i], l.slots > 0) IN
  CASE l.command = "reconcile" -> [i \in DOMAIN w.rows |-> status(i)]
    [] l.command = "account" -> check_account(l.data, HasFetcher, status(1))
    [] l.command = "inspect" ->
         IF w.found = "Skipped" \/ l.copies = << >> THEN <<w.found>> ELSE <<w.found, status(1)>>
    [] l.command \in {"completeness", "orphans"} -> <<w.found>>
    [] l.command = "gaps" -> <<IF w.found = "Skipped" THEN "Skipped" ELSE "Pass">>

\* The answers, or errors, of all calls; gaps writes its list out after them.
Answer ==
  /\ stage = "call"
  /\ \E w \in WorldsAt(UrlOf(line), RowsOf(line)) :
       /\ got' = {w}
       /\ IF line.command = "gaps" /\ line.out /\ w.found # "Skipped"
            THEN stage' = "write" /\ results' = ResultsOf(line, w) /\ UNCHANGED exit
            ELSE EndWith(ResultsOf(line, w))
  /\ UNCHANGED <<env, line>>

\* std::fs::write of --out, which may fail.
WriteOut ==
  /\ stage = "write"
  /\ stage' = "end" /\ exit' \in {"0", "1"}
  /\ UNCHANGED <<env, line, results, got>>

CliNext == Parse \/ BailOut \/ EndOffline \/ GoOnline \/ Answer \/ WriteOut

CliSpec == CliInit /\ [][CliNext]_cliVars
-----------------------------------------------------------------------------
\* What the report on a terminal says of the exit code; the rest is layout.
print_human(status) == IF status = "Pass" THEN "nothing" ELSE "1"
print_completeness_human(status) == IF status = "Pass" THEN "nothing" ELSE "1"
print_orphans_human(status) == IF status = "Pass" THEN "nothing" ELSE "1"
render_account(statuses) == IF all_pass(statuses) THEN "0" ELSE "1"

\* gaps says so when it could not run, reconcile and inspect say nothing.
SaidExit ==
  CASE line.command = "shape" -> print_human(results[1])
    [] line.command = "completeness" -> print_completeness_human(results[1])
    [] line.command = "orphans" -> print_orphans_human(results[1])
    [] line.command = "account" -> render_account(results)
    [] line.command = "gaps" -> IF results[1] = "Skipped" THEN "1" ELSE "nothing"
    [] line.command \in {"reconcile", "inspect"} -> "nothing"

\* The chain held the bytes of every copy, and the rest of the command's calls
\* found nothing amiss.
Earned ==
  IF line.command = "shape" THEN check_shape(line.data) = "pass"
  ELSE /\ got # {}
       /\ \A w \in got :
            /\ \A i \in DOMAIN line.copies :
                 i \in DOMAIN w.rows /\ w.rows[i].answer = "same bytes"
            /\ line.command = "reconcile" => Len(w.rows) = line.accounts
            /\ line.command \in {"completeness", "orphans", "inspect"} => w.found = "Pass"
            /\ line.command = "gaps" => w.found # "Skipped"
       /\ line.command = "account" => check_shape(line.data) = "pass"

(* Exit code 0 is earned: every call was made and answered, each copy was  *)
(* found on the chain as it is, whatever was left out, malformed, paired   *)
(* wrongly or unreachable on the way; and a report that names an exit code *)
(* names the one the process exits with.                                   *)
GreenIsEarned ==
  /\ exit = "0" => Earned
  /\ stage = "end" /\ results # << >> /\ SaidExit # "nothing" => exit = SaidExit
=============================================================================
