------------------------------ MODULE Frontends -------------------------------
(***************************************************************************)
(* The ways into the account gate: the MCP server, the command line, the   *)
(* Carbon hook and the page.  They are separate programs: one of them runs.*)
(***************************************************************************)
EXTENDS Mcp, Cli, Carbon, Page

VARIABLE surface     \* which

vars == <<surface, mcpVars, cliVars, carbonVars, pageVars>>

FrontsTypeOK ==
  /\ surface \in {"mcp", "cli", "carbon", "page"}
  /\ McpTypeOK /\ CliTypeOK /\ CarbonTypeOK /\ PageTypeOK

Init ==
  /\ surface \in {"mcp", "cli", "carbon", "page"}
  /\ McpInit /\ CliInit /\ CarbonInit /\ PageInit

\* What each of them leaves alone.
onlyCli == <<line, stage, exit, results, got>>
onlyMcp == <<input, open, reader, at, waiting, out, server>>

McpRuns == surface = "mcp" /\ McpNext /\ UNCHANGED <<surface, onlyCli, carbonVars, pageVars>>

CliRuns == surface = "cli" /\ CliNext /\ UNCHANGED <<surface, onlyMcp, carbonVars, pageVars>>

CarbonRuns == surface = "carbon" /\ CarbonNext /\ UNCHANGED <<surface, mcpVars, onlyCli, pageVars>>

PageRuns == surface = "page" /\ PageNext /\ UNCHANGED <<surface, mcpVars, onlyCli, carbonVars>>

Next == McpRuns \/ CliRuns \/ CarbonRuns \/ PageRuns

Spec == Init /\ [][Next]_vars

\* The server goes on by itself.  Of the endpoint and the client nothing is
\* assumed: the fetcher's agent has no timeout.
FairSpec ==
  Spec /\ WF_vars(surface = "mcp" /\ ServeStep
                    /\ UNCHANGED <<surface, onlyCli, carbonVars, pageVars>>)
-----------------------------------------------------------------------------
(* A request is only ever held up by a call that is out or by a client     *)
(* that does not read: as long as calls come back and the client reads in  *)
(* the end or goes away, each request that was written is answered, or the *)
(* loop has ended on a message or a client that failed it; and it ends     *)
(* once the client has closed its end.                                     *)
Written(i) == i <= Len(input) /\ IsRequest(input[i])

OnlyOthersHoldUp ==
  []<>(~waiting) /\ <>[](reader # "stalled") =>
    /\ \A i \in 1..MaxMessages :
         surface = "mcp" /\ Written(i) ~> i \in Answered \/ server = "failed"
    /\ surface = "mcp" /\ ~open ~> server # "running"
-----------------------------------------------------------------------------
\* The tool with the same inputs as a command.
ToolOf ==
  [inspect |-> "inspect_account", account |-> "check_account", gaps |-> "find_gaps"]

\* A line as the ask of that tool.
AskOf(l) ==
  [tool |-> ToolOf[l.command], object |-> TRUE, account |-> l.accounts = 1,
   copy |-> IF l.copies = << >> THEN "none" ELSE l.copies[1], data |-> l.data,
   slot |-> IF l.slots > 0 THEN "integer" ELSE "none", lag |-> "none",
   url |-> l.url, range |-> l.window]

\* The lines that have such an ask: clap took them, --rpc-url is not blank, and
\* there is no file to write.
Shared(l) ==
  l.command \in DOMAIN ToolOf /\ Parses(l) /\ l.url # "blank" /\ ~l.out

\* The exit code's counterpart in the page, for bytes it could check.
PageIsGreen(l, w) ==
  IF l.command = "shape" THEN all_pass(shape_json(l.data))
  ELSE all_pass(check_account_json(l.data, w.rows[1].answer # "no answer", w.rows[1], l.slots > 0))

(* The tools take the same inputs as the commands and say the same of      *)
(* them: in the same world, the server answers ok exactly when the command *)
(* exits with 0, whatever the arguments, the environment and the calls.    *)
(* And the page reaches no Pass the command would not, nor misses one.     *)
SameAnswer ==
  stage = "end" =>
    \A w \in IF got = {} THEN WorldsAt(UrlOf(line), 1) ELSE got :
      /\ Shared(line) => (ToolSays(AskOf(line), w) = "ok" <=> exit = "0")
      /\ line.command \in {"shape", "account"} /\ Parses(line) /\ Accepts(line) =>
           (PageIsGreen(line, w) <=> exit = "0")
=============================================================================
