--------------------------------- MODULE Mcp ---------------------------------
(***************************************************************************)
(* karat-mcp: serve, a loop over the messages a client writes to stdin.    *)
(*                                                                         *)
(* The loop reads a message, handles it, writes the reply if it is owed    *)
(* one, and reads on.  A tool call that needs the chain blocks it until    *)
(* the endpoint answers.  The client writes ahead, closes its end, or goes *)
(* away; of a message the loop sees what read_message makes of it.         *)
(***************************************************************************)
EXTENDS Gate

CONSTANTS Messages,       \* what a client may write
          MaxMessages     \* bound on how many

Tools == {"inspect_account", "check_account", "find_gaps"}

\* The params of a tools/call.  An empty account counts as none; "other"
\* is a value of the wrong type.
Ask == [tool : Tools \cup {"other"}, object : BOOLEAN, account : BOOLEAN,
        copy : {"none", "base64", "not base64", "other"}, data : Payload,
        slot : {"none", "integer", "other"}, lag : {"none", "integer", "other"},
        url : Endpoints, range : {"none", "forward", "backward"}]

\* "object": a line or a frame with an object.  "value": a frame with any other
\* JSON.  "blank": an empty line.  "bad": what read_message takes for an error.
\* "cut": a frame that ends before its Content-Length.
Forms == {"object", "value", "blank", "bad", "cut"}

ASSUME McpAssumption ==
  /\ MaxMessages \in Nat
  /\ Messages \subseteq [form : Forms, id : BOOLEAN, ask : Ask,
                         method : {"initialize", "tools/list", "ping", "tools/call", "other"}]

VARIABLES
  input,       \* what the client has written
  open,        \* it has not closed the server's stdin
  reader,      \* its end of the server's stdout: "reads", "stalled" or "gone"
  at,          \* messages read
  waiting,     \* a call to the endpoint is out, for message at
  out,         \* the replies: the message answered, and what it says
  server       \* "running", "returned" or "failed"

mcpVars == <<env, input, open, reader, at, waiting, out, server>>

\* A JSON-RPC error, a result, or a tool's answer: ok, not ok, not ok and isError.
Says == {"error", "result", "ok", "not ok", "tool error"}

McpTypeOK ==
  /\ env \in Endpoints
  /\ input \in Seq(Messages) /\ Len(input) <= MaxMessages
  /\ open \in BOOLEAN /\ reader \in {"reads", "stalled", "gone"}
  /\ at \in 0..Len(input)
  /\ waiting \in BOOLEAN /\ (waiting => at > 0 /\ server = "running")
  /\ out \in Seq([to : Nat, says : Says])
  /\ \A i \in DOMAIN out : out[i].to \in 1..at
  /\ server \in {"running", "returned", "failed"}

McpInit ==
  /\ env \in Endpoints
  /\ input = << >> /\ open = TRUE /\ reader = "reads"
  /\ at = 0 /\ waiting = FALSE /\ out = << >>
  /\ server = "running"
-----------------------------------------------------------------------------
(* The client.  It writes nothing after a frame it cuts short: what        *)
(* follows would be the rest of the frame, and such a message is "bad".    *)

ClientWrites ==
  /\ open /\ Len(input) < MaxMessages
  /\ input # << >> => input[Len(input)].form # "cut"
  /\ \E m \in Messages : input' = Append(input, m)
  /\ UNCHANGED <<env, open, reader, at, waiting, out, server>>

ClientCloses ==
  /\ open
  /\ open' = FALSE
  /\ UNCHANGED <<env, input, reader, at, waiting, out, server>>

\* It stops reading, and the pipe fills; or it reads on.
ClientStalls ==
  /\ reader = "reads"
  /\ reader' = "stalled"
  /\ UNCHANGED <<env, input, open, at, waiting, out, server>>

ClientReadsOn ==
  /\ reader = "stalled"
  /\ reader' = "reads"
  /\ UNCHANGED <<env, input, open, at, waiting, out, server>>

ClientGoes ==
  /\ reader # "gone"
  /\ open' = FALSE /\ reader' = "gone"
  /\ UNCHANGED <<env, input, at, waiting, out, server>>
-----------------------------------------------------------------------------
(* tools_call                                                              *)

rpc_url_from(url) == IF url = "url" \/ env = "url" THEN "url" ELSE "none"

\* The arguments are refused before any call.
Refused(ask) ==
  \/ ~ask.object
  \/ ask.tool = "other"
  \/ ask.tool = "check_account" /\
       (~ask.account \/ ask.copy # "base64" \/ "other" \in {ask.slot, ask.lag})
  \/ ask.tool = "inspect_account" /\
       (\/ ~ask.account \/ ask.copy = "not base64" \/ ask.lag = "other"
        \/ ask.copy = "base64" /\ ask.slot = "other"
        \/ rpc_url_from(ask.url) = "none")
  \/ ask.tool = "find_gaps" /\ (ask.range # "forward" \/ rpc_url_from(ask.url) = "none")

NeedsCall(ask) ==
  /\ ~Refused(ask)
  /\ ask.tool = "check_account" => AsksChain(ask.data, rpc_url_from(ask.url) = "url")

\* Slip: the stored copy passes unless it differs.
InspectOkUnlessFail(w, withCopy, withSlot) ==
  w.found = "Pass" /\ (withCopy => RowStatus(w.rows[1], withSlot) # "Fail")

\* Inspection::ok
InspectOk(w, withCopy, withSlot) ==
  w.found = "Pass" /\ (withCopy => RowStatus(w.rows[1], withSlot) = "Pass")

\* The reply to the call, in the world it found.
ToolSays(ask, w) ==
  LET withSlot == ask.slot = "integer"
      results == check_account(ask.data, rpc_url_from(ask.url) = "url", RowStatus(w.rows[1], withSlot))
  IN
  CASE Refused(ask) -> "error"
    [] ~Refused(ask) /\ ask.tool = "check_account" ->
         IF all_pass(results) THEN "ok" ELSE "tool error"
    [] ~Refused(ask) /\ ask.tool # "check_account" /\ w.found = "Skipped" -> "error"
    [] ~Refused(ask) /\ ask.tool = "find_gaps" /\ w.found # "Skipped" -> "ok"
    [] ~Refused(ask) /\ ask.tool = "inspect_account" /\ w.found # "Skipped" ->
         IF InspectOk(w, ask.copy = "base64", withSlot) THEN "ok" ELSE "not ok"
-----------------------------------------------------------------------------
(* serve                                                                   *)

\* Slip: the loop reads on while a call is out.
NextIsWhileWaiting(form) ==
  server = "running" /\ at < Len(input) /\ input[at + 1].form = form

\* The loop is at read_message and the next message has this form.
NextIs(form) ==
  server = "running" /\ ~waiting /\ at < Len(input) /\ input[at + 1].form = form

\* Slip: a reply that the pipe has no room for is left out.
WriteOrDrop(i, says) ==
  CASE reader = "reads"   -> out' = Append(out, [to |-> i, says |-> says]) /\ UNCHANGED server
    [] reader = "stalled" -> UNCHANGED <<out, server>>
    [] reader = "gone"    -> server' = "failed" /\ UNCHANGED out

\* write_message for message i, to the last byte of the flush: it waits for a
\* client that does not read, and one that is gone is an error.
Write(i, says) ==
  \/ reader = "reads" /\ out' = Append(out, [to |-> i, says |-> says]) /\ UNCHANGED server
  \/ reader = "gone" /\ server' = "failed" /\ UNCHANGED out

ReadBlank ==
  /\ NextIs("blank")
  /\ at' = at + 1
  /\ UNCHANGED <<env, input, open, reader, waiting, out, server>>

ReadBad ==
  /\ NextIs("bad")
  /\ at' = at + 1 /\ server' = "failed"
  /\ UNCHANGED <<env, input, open, reader, waiting, out>>

\* Slip: read_exact tries again at EOF.
ReadCutTriesOn ==
  /\ NextIs("cut") /\ ~open
  /\ UNCHANGED mcpVars

\* read_exact waits for the rest of the frame, and fails at EOF.
ReadCut ==
  /\ NextIs("cut") /\ ~open
  /\ at' = at + 1 /\ server' = "failed"
  /\ UNCHANGED <<env, input, open, reader, waiting, out>>

ReadEof ==
  /\ server = "running" /\ ~waiting /\ at = Len(input) /\ ~open
  /\ server' = "returned"
  /\ UNCHANGED <<env, input, open, reader, at, waiting, out>>

\* It has an id that is not null.
IsRequest(m) == m.form = "object" /\ m.id

\* handle_request: None for a message with no id, whatever it asks.
ReadNote ==
  /\ NextIs("value") \/ NextIs("object")
  /\ ~IsRequest(input[at + 1])
  /\ at' = at + 1
  /\ UNCHANGED <<env, input, open, reader, waiting, out, server>>

\* A request that needs no call is answered before the next is read.
ReadRequest ==
  LET m == input[at + 1] IN
  /\ NextIs("object") /\ IsRequest(m)
  /\ m.method = "tools/call" => ~NeedsCall(m.ask)
  /\ at' = at + 1
  /\ Write(at + 1, CASE m.method = "other" -> "error"
                     [] m.method = "tools/call" -> ToolSays(m.ask, CHOOSE w \in Worlds(1) : TRUE)
                     [] OTHER -> "result")
  /\ UNCHANGED <<env, input, open, reader, waiting>>

ReadCall ==
  LET m == input[at + 1] IN
  /\ NextIs("object") /\ IsRequest(m)
  /\ m.method = "tools/call" /\ NeedsCall(m.ask)
  /\ at' = at + 1 /\ waiting' = TRUE
  /\ UNCHANGED <<env, input, open, reader, out, server>>

\* Slip: the reply names the last message the client wrote.
CallAnsweredToLast ==
  /\ waiting
  /\ waiting' = FALSE
  /\ \E w \in WorldsAt("url", 1) : Write(Len(input), ToolSays(input[at].ask, w))
  /\ UNCHANGED <<env, input, open, reader, at>>

\* All calls of the tool have an answer, or an error.
CallAnswered ==
  /\ waiting
  /\ waiting' = FALSE
  /\ \E w \in WorldsAt("url", 1) : Write(at, ToolSays(input[at].ask, w))
  /\ UNCHANGED <<env, input, open, reader, at>>

ServeStep ==
  ReadBlank \/ ReadBad \/ ReadCut \/ ReadEof \/ ReadNote \/ ReadRequest \/ ReadCall

McpNext ==
  \/ ClientWrites \/ ClientCloses \/ ClientStalls \/ ClientReadsOn \/ ClientGoes
  \/ ServeStep \/ CallAnswered

McpSpec == McpInit /\ [][McpNext]_mcpVars
-----------------------------------------------------------------------------
Requests(n) == {i \in 1..n : IsRequest(input[i])}
Answered == {out[i].to : i \in DOMAIN out}

(* A client can tell the replies apart: each request is answered once and  *)
(* in the order written, a message without an id never, and the loop       *)
(* leaves no request behind it open but the one in hand, or the one it     *)
(* could not write to a client that had gone.                              *)
RepliesInOrder ==
  /\ \A i, j \in DOMAIN out : i < j => out[i].to < out[j].to
  /\ Answered \subseteq Requests(at)
  /\ Requests(at) \ {at} \subseteq Answered
  /\ server # "failed" /\ ~waiting => Requests(at) \subseteq Answered
  /\ server = "returned" => at = Len(input)
=============================================================================
