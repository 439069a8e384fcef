-------------------------------- MODULE Page ---------------------------------
(***************************************************************************)
(* The page over the gate: site/main.js.                                   *)
(*                                                                         *)
(* A run of the live case awaits one read of the account, or two; while it *)
(* does, the reader may pick another case or paste a payload, and the page *)
(* draws that.  Between awaits a handler runs to its end.  The bar is      *)
(* drawn by a length check of the page's own, over the registry it got     *)
(* from specs_json; the verdict comes from the wasm exports.               *)
(*                                                                         *)
(* A part of the form that no handler watches is read when it is used, and *)
(* may hold anything then.  The bar's animation is left out.               *)
(***************************************************************************)
EXTENDS Gate

CONSTANTS Stored,     \* what the account may hold
          Pastes      \* payloads the reader may paste

\* A discriminator, or as much of it as there is: a row's, or what a payload
\* without one begins with.
Names == {s.account_type : s \in Specs} \cup {"TransferHookPool", "zeros", "flipped", "none"}

Bytes == [name : Names, len : Nat, body : {"a", "b"}]

\* An empty textarea is no payload.  "on-chain size (discriminator included)"
ASSUME PageAssumption ==
  /\ Stored \subseteq Bytes /\ Pastes \subseteq Bytes
  /\ \A b \in Pastes : b.len > 0
  /\ \A s \in Specs : s.data_len >= DiscLen

Cases == {"live", "healthy", "empty", "truncated", "collision"}

\* The textarea: empty, no base64, or the payload in bytes.
Paste == [state : {"none", "bad", "payload"}, bytes : Bytes]

VARIABLES
  boot,          \* what init() came to: wasmReady and SPECS once it is "ready"
  case,          \* the radio button
  indexed,       \* the textarea
  run,           \* where the run is, what it has in hand, its write slot given
  field,         \* the byte field: << >> while pending, else what is drawn
  shown          \* the output: what it says, of which bytes, the results

pageVars == <<boot, case, indexed, run, field, shown>>

Run == [step : {"idle", "first read", "second read"}, bytes : Bytes,
        fallback : SUBSET Specs, slot : BOOLEAN]
Drawing == [of : Bytes, bar : {"pass", "fail"}]
Output == [says : {"nothing", "note", "reading", "error", "verdict"}, of : Bytes,
           results : Seq(Statuses)]

PageTypeOK ==
  /\ boot \in {"loading", "ready", "failed"}
  /\ case \in Cases
  /\ indexed \in Paste
  /\ run \in Run
  /\ field \in Seq(Drawing) /\ Len(field) <= 1
  /\ shown \in Output
  /\ run.step # "idle" => boot = "ready"

None == [name |-> "zeros", len |-> 0, body |-> "a"]
Idle == [step |-> "idle", bytes |-> None, fallback |-> {}, slot |-> FALSE]
Say(what) == [says |-> what, of |-> None, results |-> << >>]

PageInit ==
  /\ boot = "loading"
  /\ case = "live" /\ indexed = [state |-> "none", bytes |-> None]
  /\ run = Idle
  /\ field = << >> /\ shown = Say("nothing")
-----------------------------------------------------------------------------
(* Payloads.  loaded: SPECS is there.  A spec is a set, empty for null.    *)

specOf(name, loaded) == {s \in Specs : loaded /\ s.account_type = name}

findSpec(b, loaded) == IF b.len < DiscLen THEN {} ELSE specOf(b.name, loaded)

payload(name, len, loaded) ==
  [name |-> IF specOf(name, loaded) # {} /\ len >= DiscLen THEN name ELSE "zeros",
   len |-> len, body |-> "a"]

CaseSpec(id, loaded) == specOf(IF id = "collision" THEN "VirtualPool" ELSE "Obligation", loaded)

CaseBytes(id, loaded) ==
  CASE id = "healthy" -> payload("Obligation", 3344, loaded)
    [] id = "empty" -> None
    [] id = "truncated" -> payload("Obligation", 24, loaded)
    [] id = "collision" -> [name |-> "TransferHookPool", len |-> 424, body |-> "a"]

Truncated(n) == IF n > 24 THEN n - 24 ELSE 0

\* DAMAGE.  The byte at 100 is flipped, or the last one.
Damaged(b) ==
  {b, [b EXCEPT !.len = Truncated(b.len)], [b EXCEPT !.len = 0]}
    \cup IF b.len = 0 THEN {}
         ELSE IF b.len <= DiscLen THEN {[b EXCEPT !.name = "flipped"]}
         ELSE {[b EXCEPT !.body = IF b.body = "a" THEN "b" ELSE "a"]}

SameBytes(b, c) ==
  b.len = c.len /\ (b.len > 0 => b.name = c.name) /\ (b.len > DiscLen => b.body = c.body)
-----------------------------------------------------------------------------
(* Drawing                                                                 *)

passesLength(b, spec) == \E s \in spec : Legal(s.len_rule, s.data_len, b.len)

\* Slip: the fallback labels any payload whose type is not known.
DrawnSpecAlways(b, fallback, loaded) ==
  IF findSpec(b, loaded) # {} THEN findSpec(b, loaded) ELSE fallback

\* The fallback is only for a payload too short for a discriminator.
DrawnSpec(b, fallback, loaded) ==
  IF findSpec(b, loaded) # {} THEN findSpec(b, loaded)
  ELSE IF b.len < DiscLen THEN fallback ELSE {}

drawField(b, fallback, loaded) ==
  field' = <<[of |-> b, bar |-> IF passesLength(b, DrawnSpec(b, fallback, loaded))
                                  THEN "pass" ELSE "fail"]>>

renderError == shown' = Say("error")

renderResults(b, given) == shown' = [says |-> "verdict", of |-> b, results |-> given]

\* The form is as given from now on.
caseChanged(id, paste, loaded) ==
  /\ shown' = Say("note")
  /\ IF id = "live" THEN field' = << >>
     ELSE drawField(IF paste.state = "payload" THEN paste.bytes ELSE CaseBytes(id, loaded),
                    CaseSpec(id, loaded), loaded)
-----------------------------------------------------------------------------
(* Events                                                                  *)

Load ==
  /\ boot = "loading"
  /\ \/ boot' = "ready" /\ caseChanged(case, indexed, TRUE)
     \/ boot' = "failed" /\ renderError /\ UNCHANGED field
  /\ UNCHANGED <<case, indexed, run>>

PickCase(id) ==
  /\ case' = id
  /\ caseChanged(id, indexed, boot = "ready")
  /\ UNCHANGED <<boot, indexed, run>>

PasteIn(paste) ==
  /\ indexed' = paste
  /\ caseChanged(case, paste, boot = "ready")
  /\ UNCHANGED <<boot, case, run>>

runConstructed ==
  /\ boot = "ready" /\ case # "live"
  /\ IF indexed.state = "bad" THEN renderError /\ UNCHANGED field
     ELSE LET b == IF indexed.state = "payload" THEN indexed.bytes ELSE CaseBytes(case, TRUE) IN
          drawField(b, CaseSpec(case, TRUE), TRUE) /\ renderResults(b, shape_json(b))
  /\ UNCHANGED <<boot, case, indexed, run>>

\* Not loaded, no account, a slot that is no number, or no base64.
Refuse ==
  /\ boot # "ready" \/ case = "live"
  /\ renderError
  /\ UNCHANGED <<boot, case, indexed, run, field>>

\* A pasted payload is the stored copy; else a first read is.
runLive ==
  /\ boot = "ready" /\ case = "live" /\ indexed.state # "bad"
  /\ \E slot \in BOOLEAN :
       run' = IF indexed.state = "payload"
                THEN [Idle EXCEPT !.step = "second read", !.bytes = indexed.bytes, !.slot = slot]
                ELSE [Idle EXCEPT !.step = "first read", !.slot = slot]
  /\ shown' = Say("reading")
  /\ UNCHANGED <<boot, case, indexed, field>>

\* The button is disabled while a run is out.
Submit == run.step = "idle" /\ (runConstructed \/ Refuse \/ runLive)

\* The damage is the one selected by now.
FirstRead(b) ==
  /\ run.step = "first read"
  /\ \E damaged \in Damaged(b) :
       run' = [run EXCEPT !.step = "second read", !.bytes = damaged, !.fallback = findSpec(b, TRUE)]
  /\ UNCHANGED <<boot, case, indexed, field, shown>>

\* The endpoint fails, or has no such account for the first read.
ReadFails ==
  /\ run.step # "idle"
  /\ renderError
  /\ run' = Idle
  /\ UNCHANGED <<boot, case, indexed, field>>

\* Slip: the field is drawn when the case is picked and left as it is.
SecondReadLeavesTheField(answer, excused) ==
  /\ run.step = "second read"
  /\ renderResults(run.bytes, check_account_json(run.bytes, TRUE,
       [answer |-> answer, excused |-> excused], run.slot))
  /\ run' = Idle
  /\ UNCHANGED <<boot, case, indexed, field>>

\* The chain's bytes against those in hand, whatever the form says by now.
SecondRead(answer, excused) ==
  /\ run.step = "second read"
  /\ drawField(run.bytes, run.fallback, TRUE)
  /\ renderResults(run.bytes, check_account_json(run.bytes, TRUE,
       [answer |-> answer, excused |-> excused], run.slot))
  /\ run' = Idle
  /\ UNCHANGED <<boot, case, indexed>>

\* What the chain's read comes to next to the bytes in hand.
Answers ==
  {"no account"} \cup {IF SameBytes(b, run.bytes) THEN "same bytes" ELSE "other bytes" : b \in Stored}

PageNext ==
  \/ Load \/ Submit \/ ReadFails
  \/ \E id \in Cases : PickCase(id)
  \/ \E b \in Pastes, state \in {"none", "bad", "payload"} :
       PasteIn([state |-> state, bytes |-> IF state = "payload" THEN b ELSE None])
  \/ \E b \in Stored : FirstRead(b)
  \/ \E answer \in Answers, excused \in BOOLEAN : SecondRead(answer, excused)

PageSpec == PageInit /\ [][PageNext]_pageVars
-----------------------------------------------------------------------------
(* The bar and the verdict on display are of the same bytes, and a passing *)
(* bar stands next to a passing shape and nothing else: the "green-while-  *)
(* wrong reading" the page is to refuse, whatever was picked, pasted or    *)
(* damaged while the run was out, and though page and crate each check the *)
(* length on their own.                                                    *)
FieldIsOfTheVerdict ==
  shown.says = "verdict" =>
    /\ field # << >> /\ field[1].of = shown.of
    /\ field[1].bar = "pass" <=> shown.results[1] = "Pass"
=============================================================================
