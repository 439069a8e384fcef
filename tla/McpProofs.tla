------------------------------ MODULE McpProofs ------------------------------
(***************************************************************************)
(* Proofs about the MCP server: the state is well typed, and the replies   *)
(* answer the requests one by one and in the order written, whatever the   *)
(* client writes and whenever it goes away.                                *)
(***************************************************************************)
EXTENDS Mcp, TLAPS

\* What a tool says is one of the answers, whatever the world.
LEMMA ToolSaysOne ==
  ASSUME NEW ask \in Ask, NEW w
  PROVE  ToolSays(ask, w) \in Says
<1>1. ask.tool \in Tools \cup {"other"}
  BY DEF Ask
<1>2. CASE Refused(ask)
  BY <1>2 DEF ToolSays, Says
<1>3. CASE ~Refused(ask)
  <2>1. ask.tool # "other"
    BY <1>3 DEF Refused
  <2>. QED
    BY <1>1, <1>3, <2>1 DEF ToolSays, Says, Tools
<1>. QED
  BY <1>2, <1>3

\* What it means for the replies that one more is written.
LEMMA WriteOne ==
  ASSUME McpTypeOK, NEW i \in Nat, i > 0, NEW says \in Says, Write(i, says),
         at' \in Nat, at' >= i, at' >= at
  PROVE  /\ out' \in Seq([to : Nat, says : Says])
         /\ \A k \in DOMAIN out' : out'[k].to \in 1..at'
         /\ server' = server \/ server' = "failed"
<1>1. out \in Seq([to : Nat, says : Says]) /\ \A k \in DOMAIN out : out[k].to \in 1..at
  BY DEF McpTypeOK
<1>2. CASE reader = "reads"
  <2>1. out' = Append(out, [to |-> i, says |-> says]) /\ server' = server
    BY <1>2 DEF Write
  <2>2. [to |-> i, says |-> says] \in [to : Nat, says : Says]
    OBVIOUS
  <2>3. out' \in Seq([to : Nat, says : Says])
    BY <1>1, <2>1, <2>2
  <2>4. ASSUME NEW k \in DOMAIN out' PROVE out'[k].to \in 1..at'
    <3>1. k \in 1..Len(out) \/ k = Len(out) + 1
      BY <1>1, <2>1, <2>2
    <3>2. CASE k \in 1..Len(out)
      <4>1. out'[k] = out[k] /\ k \in DOMAIN out
        BY <1>1, <2>1, <3>2
      <4>2. out[k].to \in 1..at /\ at \in Nat
        BY <1>1, <4>1 DEF McpTypeOK
      <4>. QED
        BY <4>1, <4>2
    <3>3. CASE k = Len(out) + 1
      <4>1. out'[k] = [to |-> i, says |-> says]
        BY <1>1, <2>1, <3>3
      <4>. QED
        BY <4>1
    <3>. QED
      BY <3>1, <3>2, <3>3
  <2>. QED
    BY <2>1, <2>3, <2>4
<1>3. CASE reader = "gone"
  <2>1. out' = out /\ server' = "failed"
    BY <1>3 DEF Write
  <2>2. at \in Nat
    BY DEF McpTypeOK
  <2>. QED
    BY <1>1, <2>1, <2>2
<1>. QED
  BY <1>2, <1>3 DEF Write
-----------------------------------------------------------------------------
(* The type invariant.                                                     *)

LEMMA McpTypeInit == McpInit => McpTypeOK
<1>. SUFFICES ASSUME McpInit PROVE McpTypeOK
  OBVIOUS
<1>1. Len(input) = 0 /\ input \in Seq(Messages) /\ out \in Seq([to : Nat, says : Says])
  BY DEF McpInit
<1>2. \A i \in DOMAIN out : out[i].to \in 1..at
  BY DEF McpInit
<1>3. MaxMessages \in Nat
  BY McpAssumption
<1>4. Len(input) <= MaxMessages /\ at \in 0..Len(input)
  BY <1>1, <1>3 DEF McpInit
<1>. QED
  BY <1>1, <1>2, <1>4 DEF McpInit, McpTypeOK

LEMMA McpTypeStep == McpTypeOK /\ [McpNext]_mcpVars => McpTypeOK'
<1>. SUFFICES ASSUME McpTypeOK, [McpNext]_mcpVars PROVE McpTypeOK'
  OBVIOUS
<1>. USE McpAssumption
<1>1. CASE ClientWrites
  BY <1>1 DEF ClientWrites, McpTypeOK
<1>2. CASE ClientCloses
  BY <1>2 DEF ClientCloses, McpTypeOK
<1>3. CASE ClientGoes \/ ClientStalls \/ ClientReadsOn
  <2>1. open' \in BOOLEAN /\ UNCHANGED <<env, input, at, waiting, out, server>>
    BY <1>3 DEF ClientGoes, ClientStalls, ClientReadsOn, McpTypeOK
  <2>2. reader' \in {"reads", "stalled", "gone"}
    BY <1>3 DEF ClientGoes, ClientStalls, ClientReadsOn
  <2>. QED
    BY <2>1, <2>2 DEF McpTypeOK
<1>4. CASE ReadBlank
  BY <1>4 DEF ReadBlank, NextIs, McpTypeOK
<1>5. CASE ReadBad
  BY <1>5 DEF ReadBad, NextIs, McpTypeOK
<1>6. CASE ReadCut
  BY <1>6 DEF ReadCut, NextIs, McpTypeOK
<1>7. CASE ReadEof
  BY <1>7 DEF ReadEof, McpTypeOK
<1>8. CASE ReadNote
  BY <1>8 DEF ReadNote, NextIs, McpTypeOK
<1>9. CASE ReadRequest
  <2>1. input[at + 1] \in Messages
    BY <1>9 DEF ReadRequest, NextIs, McpTypeOK
  <2>2. PICK s \in Says : Write(at + 1, s)
    BY <1>9, <2>1, ToolSaysOne DEF ReadRequest, Says
  <2>3. at' = at + 1 /\ at + 1 \in Nat
    BY <1>9 DEF ReadRequest, McpTypeOK
  <2>4. /\ out' \in Seq([to : Nat, says : Says])
        /\ \A k \in DOMAIN out' : out'[k].to \in 1..at'
        /\ server' = server \/ server' = "failed"
    <3>1. at \in Nat /\ at' \in Nat /\ at + 1 > 0 /\ at' >= at + 1 /\ at' >= at
      BY <2>3 DEF McpTypeOK
    <3>. QED
      BY <2>2, <2>3, <3>1, WriteOne
  <2>. QED
    BY <1>9, <2>4 DEF ReadRequest, NextIs, McpTypeOK
<1>10. CASE ReadCall
  BY <1>10 DEF ReadCall, NextIs, McpTypeOK
<1>11. CASE CallAnswered
  <2>1. input[at] \in Messages /\ at' = at /\ at \in Nat /\ at > 0
    BY <1>11 DEF CallAnswered, McpTypeOK
  <2>2. PICK s \in Says : Write(at, s)
    BY <1>11, <2>1, ToolSaysOne DEF CallAnswered
  <2>3. /\ out' \in Seq([to : Nat, says : Says])
        /\ \A k \in DOMAIN out' : out'[k].to \in 1..at'
        /\ server' = server \/ server' = "failed"
    <3>1. at' \in Nat /\ at' >= at
      BY <2>1
    <3>. QED
      BY <2>1, <2>2, <3>1, WriteOne
  <2>. QED
    BY <1>11, <2>3 DEF CallAnswered, McpTypeOK
<1>12. CASE UNCHANGED mcpVars
  BY <1>12 DEF mcpVars, McpTypeOK
<1>. QED
  BY <1>1, <1>2, <1>3, <1>4, <1>5, <1>6, <1>7, <1>8, <1>9, <1>10, <1>11, <1>12 DEF McpNext, ServeStep

\* The server's state is well typed: no message is read before it is written,
\* a call is out only for a message read, and a reply names a message read.
THEOREM McpTypeCorrect == McpSpec => []McpTypeOK
  BY McpTypeInit, McpTypeStep, PTL DEF McpSpec
-----------------------------------------------------------------------------
(* RepliesInOrder is not inductive: an answer comes for the message at,    *)
(* and nothing in it says that this is a request without an answer yet.    *)

InHand == waiting => IsRequest(input[at]) /\ at \notin Answered

EndIsFinal == server = "returned" => ~open

InOrder == McpTypeOK /\ InHand /\ EndIsFinal /\ RepliesInOrder

\* A state whose replies and position are as before, with more written or none.
LEMMA InOrderKept ==
  ASSUME InOrder, McpTypeOK', UNCHANGED <<at, out, waiting, server>>,
         \A i \in 1..at : input'[i] = input[i], EndIsFinal',
         server = "returned" => input' = input
  PROVE  InOrder'
<1>1. Answered' = Answered
  BY DEF Answered
<1>2. Requests(at)' = Requests(at)
  BY DEF Requests, IsRequest, InOrder, McpTypeOK
<1>3. InHand'
  BY <1>1 DEF InHand, InOrder, IsRequest, McpTypeOK
<1>4. RepliesInOrder'
  BY <1>1, <1>2 DEF RepliesInOrder, InOrder
<1>. QED
  BY <1>3, <1>4 DEF InOrder

\* The loop reads on and answers nothing, or ends: a message that is no request,
\* or that it fails on.
LEMMA InOrderReadOn ==
  ASSUME InOrder, McpTypeOK', server = "running", ~waiting, at < Len(input),
         UNCHANGED <<input, out, waiting>>, at' = at + 1,
         \/ ~IsRequest(input[at + 1]) /\ server' = server
         \/ server' = "failed"
  PROVE  InOrder'
<1>1. Answered' = Answered /\ at \in Nat
  BY DEF Answered, InOrder, McpTypeOK
<1>2. Requests(at) \subseteq Answered /\ Answered \subseteq Requests(at)
  BY DEF InOrder, RepliesInOrder
<1>3. Requests(at)' = IF IsRequest(input[at + 1]) THEN Requests(at) \cup {at + 1} ELSE Requests(at)
  BY <1>1 DEF Requests, IsRequest
<1>4. Requests(at)' \ {at'} \subseteq Answered' /\ Answered' \subseteq Requests(at)'
  BY <1>1, <1>2, <1>3
<1>5. server' # "failed" => Requests(at)' \subseteq Answered'
  BY <1>1, <1>2, <1>3
<1>6. server' # "returned"
  OBVIOUS
<1>7. RepliesInOrder'
  BY <1>4, <1>5, <1>6 DEF RepliesInOrder, InOrder
<1>. QED
  BY <1>6, <1>7 DEF InOrder, InHand, EndIsFinal

\* One more reply is an answer to the message it names.
LEMMA AnsweredOneMore ==
  ASSUME McpTypeOK, NEW i, NEW says, out' = Append(out, [to |-> i, says |-> says])
  PROVE  Answered' = Answered \cup {i}
<1>1. out \in Seq([to : Nat, says : Says])
  BY DEF McpTypeOK
<1>2. DOMAIN out' = DOMAIN out \cup {Len(out) + 1}
  BY <1>1
<1>3. \A k \in DOMAIN out : out'[k] = out[k]
  BY <1>1
<1>4. out'[Len(out) + 1].to = i
  BY <1>1
<1>. QED
  BY <1>2, <1>3, <1>4 DEF Answered

\* A reply to a message after all those answered keeps the order.
LEMMA AppendKeepsOrder ==
  ASSUME McpTypeOK, \A j, k \in DOMAIN out : j < k => out[j].to < out[k].to,
         NEW i \in Nat, \A k \in DOMAIN out : out[k].to < i,
         NEW says, out' = Append(out, [to |-> i, says |-> says])
  PROVE  \A j, k \in DOMAIN out' : j < k => out'[j].to < out'[k].to
<1>1. out \in Seq([to : Nat, says : Says])
  BY DEF McpTypeOK
<1>2. DOMAIN out' = DOMAIN out \cup {Len(out) + 1} /\ DOMAIN out = 1..Len(out) /\ Len(out) \in Nat
  BY <1>1
<1>3. \A k \in DOMAIN out : out'[k] = out[k]
  BY <1>1
<1>4. out'[Len(out) + 1].to = i
  BY <1>1
<1>5. TAKE j, k \in DOMAIN out'
<1>6. HAVE j < k
<1>7. j \in DOMAIN out
  BY <1>2, <1>6
<1>8. CASE k \in DOMAIN out
  BY <1>3, <1>6, <1>7, <1>8
<1>9. CASE k = Len(out) + 1
  BY <1>3, <1>4, <1>7, <1>9
<1>. QED
  BY <1>2, <1>8, <1>9

LEMMA InOrderInit == McpInit => InOrder
<1>. SUFFICES ASSUME McpInit PROVE InOrder
  OBVIOUS
<1>1. DOMAIN out = {} /\ Requests(at) = {}
  BY DEF McpInit, Requests
<1>2. Answered = {}
  BY <1>1 DEF Answered
<1>. QED
  BY <1>1, <1>2, McpTypeInit DEF McpInit, InOrder, InHand, EndIsFinal, RepliesInOrder

LEMMA InOrderStep == InOrder /\ [McpNext]_mcpVars => InOrder'
<1>. SUFFICES ASSUME InOrder, [McpNext]_mcpVars PROVE InOrder'
  OBVIOUS
<1>0. McpTypeOK /\ McpTypeOK'
  BY McpTypeStep DEF InOrder
<1>a. at \in Nat /\ Len(input) \in Nat /\ at <= Len(input) /\ input \in Seq(Messages)
  BY <1>0 DEF McpTypeOK
<1>1. CASE ClientWrites
  <2>1. \A i \in 1..at : input'[i] = input[i]
    BY <1>1, <1>a DEF ClientWrites
  <2>2. server # "returned"
    BY <1>1 DEF ClientWrites, InOrder, EndIsFinal
  <2>. QED
    BY <1>0, <1>1, <2>1, <2>2, InOrderKept DEF ClientWrites, EndIsFinal
<1>2. CASE ClientCloses
  BY <1>0, <1>2, InOrderKept DEF ClientCloses, EndIsFinal, InOrder
<1>3. CASE ClientGoes \/ ClientStalls \/ ClientReadsOn
  BY <1>0, <1>3, InOrderKept DEF ClientGoes, ClientStalls, ClientReadsOn, EndIsFinal, InOrder
<1>4. CASE ReadBlank
  <2>1. input[at + 1].form = "blank"
    BY <1>4 DEF ReadBlank, NextIs
  <2>2. ~IsRequest(input[at + 1])
    BY <2>1 DEF IsRequest
  <2>. QED
    BY <1>0, <1>4, <2>2, InOrderReadOn DEF ReadBlank, NextIs
<1>5. CASE ReadBad
  BY <1>0, <1>5, InOrderReadOn DEF ReadBad, NextIs
<1>6. CASE ReadCut
  BY <1>0, <1>6, InOrderReadOn DEF ReadCut, NextIs
<1>7. CASE ReadEof
  <2>1. Answered' = Answered /\ Requests(at)' = Requests(at)
    BY <1>7 DEF ReadEof, Answered, Requests, IsRequest
  <2>2. RepliesInOrder'
    BY <1>7, <2>1 DEF ReadEof, RepliesInOrder, InOrder
  <2>. QED
    BY <1>0, <1>7, <2>2 DEF ReadEof, InOrder, InHand, EndIsFinal
<1>8. CASE ReadNote
  BY <1>0, <1>8, InOrderReadOn DEF ReadNote, NextIs
<1>9. CASE ReadRequest
  <2>1. /\ server = "running" /\ ~waiting /\ at < Len(input) /\ IsRequest(input[at + 1])
        /\ at' = at + 1 /\ UNCHANGED <<input, waiting>>
    BY <1>9 DEF ReadRequest, NextIs
  <2>2. PICK says : Write(at + 1, says)
    BY <1>9 DEF ReadRequest
  <2>3. CASE reader = "gone"
    <3>1. UNCHANGED out /\ server' = "failed"
      BY <2>2, <2>3 DEF Write
    <3>. QED
      BY <1>0, <2>1, <3>1, InOrderReadOn
  <2>4. CASE reader = "reads"
    <3>1. out' = Append(out, [to |-> at + 1, says |-> says]) /\ server' = server
      BY <2>2, <2>4 DEF Write
    <3>2. Answered' = Answered \cup {at + 1}
      BY <1>0, <3>1, AnsweredOneMore
    <3>3. Requests(at)' = Requests(at) \cup {at + 1}
      BY <1>a, <2>1 DEF Requests, IsRequest
    <3>4. Requests(at) \subseteq Answered /\ Answered \subseteq Requests(at)
      BY <2>1 DEF InOrder, RepliesInOrder
    <3>5. \A k \in DOMAIN out : out[k].to < at + 1
      BY <1>0, <1>a DEF McpTypeOK
    <3>6. \A j, k \in DOMAIN out' : j < k => out'[j].to < out'[k].to
      <4>1. \A j, k \in DOMAIN out : j < k => out[j].to < out[k].to
        BY DEF InOrder, RepliesInOrder
      <4>2. at + 1 \in Nat
        BY <1>a
      <4>. QED
        BY <1>0, <3>1, <3>5, <4>1, <4>2, AppendKeepsOrder
    <3>7. RepliesInOrder'
      BY <2>1, <3>1, <3>2, <3>3, <3>4, <3>6 DEF RepliesInOrder
    <3>. QED
      BY <1>0, <2>1, <3>1, <3>7 DEF InOrder, InHand, EndIsFinal
  <2>. QED
    BY <2>2, <2>3, <2>4 DEF Write
<1>10. CASE ReadCall
  <2>1. /\ server = "running" /\ ~waiting /\ at < Len(input) /\ IsRequest(input[at + 1])
        /\ at' = at + 1 /\ waiting' = TRUE /\ UNCHANGED <<input, out, server>>
    BY <1>10 DEF ReadCall, NextIs
  <2>2. Answered' = Answered
    BY <2>1 DEF Answered
  <2>3. Requests(at)' = Requests(at) \cup {at + 1}
    BY <1>a, <2>1 DEF Requests, IsRequest
  <2>4. Requests(at) \subseteq Answered /\ Answered \subseteq Requests(at)
    BY <2>1 DEF InOrder, RepliesInOrder
  <2>5. at + 1 \notin Answered /\ IsRequest(input[at])'
    BY <1>a, <2>1, <2>4 DEF Requests, IsRequest
  <2>6. RepliesInOrder'
    BY <2>1, <2>2, <2>3, <2>4 DEF RepliesInOrder, InOrder
  <2>7. InHand'
    BY <2>1, <2>2, <2>5 DEF InHand, IsRequest
  <2>. QED
    BY <1>0, <2>1, <2>6, <2>7 DEF InOrder, EndIsFinal
<1>11. CASE CallAnswered
  <2>1. /\ waiting /\ waiting' = FALSE /\ UNCHANGED <<input, open, at>>
        /\ server = "running" /\ IsRequest(input[at]) /\ at \notin Answered /\ at > 0
    BY <1>0, <1>11 DEF CallAnswered, InOrder, InHand, McpTypeOK
  <2>2. PICK says : Write(at, says)
    BY <1>11 DEF CallAnswered
  <2>3. Requests(at)' = Requests(at) /\ at \in Requests(at)
    BY <1>a, <2>1 DEF Requests, IsRequest
  <2>4. Requests(at) \ {at} \subseteq Answered /\ Answered \subseteq Requests(at)
    BY DEF InOrder, RepliesInOrder
  <2>5. CASE reader = "gone"
    <3>1. UNCHANGED out /\ server' = "failed"
      BY <2>2, <2>5 DEF Write
    <3>2. Answered' = Answered
      BY <3>1 DEF Answered
    <3>3. RepliesInOrder'
      BY <2>1, <2>3, <2>4, <3>1, <3>2 DEF RepliesInOrder, InOrder
    <3>. QED
      BY <1>0, <2>1, <3>1, <3>3 DEF InOrder, InHand, EndIsFinal
  <2>6. CASE reader = "reads"
    <3>1. out' = Append(out, [to |-> at, says |-> says]) /\ server' = server
      BY <2>2, <2>6 DEF Write
    <3>2. Answered' = Answered \cup {at}
      BY <1>0, <3>1, AnsweredOneMore
    <3>3. \A k \in DOMAIN out : out[k].to < at
      <4>1. \A k \in DOMAIN out : out[k].to \in 1..at /\ out[k].to \in Answered
        BY <1>0 DEF McpTypeOK, Answered
      <4>. QED
        BY <1>a, <2>1, <4>1
    <3>4. \A j, k \in DOMAIN out' : j < k => out'[j].to < out'[k].to
      <4>1. \A j, k \in DOMAIN out : j < k => out[j].to < out[k].to
        BY DEF InOrder, RepliesInOrder
      <4>. QED
        BY <1>0, <1>a, <3>1, <3>3, <4>1, AppendKeepsOrder
    <3>5. RepliesInOrder'
      BY <2>1, <2>3, <2>4, <3>1, <3>2, <3>4 DEF RepliesInOrder
    <3>. QED
      BY <1>0, <2>1, <3>1, <3>5 DEF InOrder, InHand, EndIsFinal
  <2>. QED
    BY <2>2, <2>5, <2>6 DEF Write
<1>12. CASE UNCHANGED mcpVars
  BY <1>0, <1>12, InOrderKept DEF mcpVars, EndIsFinal, InOrder
<1>. QED
  BY <1>1, <1>2, <1>3, <1>4, <1>5, <1>6, <1>7, <1>8, <1>9, <1>10, <1>11, <1>12 DEF McpNext, ServeStep

\* The replies are in the order of the requests and one to each: for a client
\* that writes what it likes, as much as it likes, and closes or goes at any time.
THEOREM McpRepliesInOrder == McpSpec => []RepliesInOrder
<1>1. InOrder => RepliesInOrder
  BY DEF InOrder
<1>. QED
  BY <1>1, InOrderInit, InOrderStep, PTL DEF McpSpec
=============================================================================
