---------------------------- MODULE MCFrontends ------------------------------
(***************************************************************************)
(* Frontends over the registry as it is, for lines, messages and updates   *)
(* with every fault the front ends tell apart.                             *)
(***************************************************************************)
EXTENDS Frontends, Registry, SequencesExt

Good == [name |-> "Obligation", len |-> 3344]
Long == [name |-> "Obligation", len |-> 3345]
New == [name |-> "Oracle", len |-> 254]
Floor == [name |-> "PositionV2", len |-> 8120]

\* Every row's type at its length and next to it, a type no row has, no bytes
\* and too few for a discriminator.
Payloads ==
  {[name |-> s.account_type, len |-> s.data_len + d - 1] : s \in all_specs, d \in 0..2}
    \cup {New, [name |-> "none", len |-> 0], [name |-> "Obligation", len |-> 7]}
-----------------------------------------------------------------------------
(* Command lines.                                                          *)

Plain == [command |-> "shape", ill |-> FALSE, url |-> "none", accounts |-> 0, copies |-> << >>,
          slots |-> 0, window |-> "none", indexed |-> "none", data |-> Good, out |-> FALSE]

Copies == SeqOf({"base64", "not base64"}, 2)

MCLines ==
  {[Plain EXCEPT !.command = c, !.ill = TRUE] : c \in Commands}
  \cup {[Plain EXCEPT !.data = d] : d \in Payloads}
  \cup {[Plain EXCEPT !.command = "reconcile", !.url = u, !.accounts = n, !.copies = c, !.slots = s] :
          u \in Endpoints, n \in 0..2, c \in Copies, s \in 0..2}
  \cup {[Plain EXCEPT !.command = c, !.url = u, !.window = w, !.indexed = i] :
          c \in {"completeness", "orphans"}, u \in Endpoints,
          w \in {"none", "forward", "backward"}, i \in {"none", "some", "bad"}}
  \cup {[Plain EXCEPT !.command = "gaps", !.url = u, !.window = w, !.out = o] :
          u \in Endpoints, w \in {"none", "forward", "backward"}, o \in BOOLEAN}
  \cup {[Plain EXCEPT !.command = c, !.url = u, !.accounts = n, !.copies = x, !.slots = s, !.data = d] :
          c \in {"inspect", "account"}, u \in Endpoints, n \in 0..2, x \in Copies, s \in 0..2,
          d \in {Good, Long, New}}
-----------------------------------------------------------------------------
(* Messages: every form, and every way an ask goes.                        *)

Check == [tool |-> "check_account", object |-> TRUE, account |-> TRUE, copy |-> "base64",
          data |-> Good, slot |-> "integer", lag |-> "none", url |-> "none", range |-> "none"]

Note == [form |-> "object", id |-> FALSE, method |-> "tools/call", ask |-> Check]

Asking(ask) == [Note EXCEPT !.id = TRUE, !.ask = ask]

MCMessages ==
  {[Note EXCEPT !.form = f] : f \in Forms}
  \cup {[Note EXCEPT !.id = TRUE, !.method = m] : m \in {"initialize", "tools/list", "other"}}
  \cup {Asking(Check), Asking([Check EXCEPT !.data = Long]), Asking([Check EXCEPT !.tool = "inspect_account", !.url = "url"]),
        Asking([Check EXCEPT !.tool = "inspect_account", !.url = "url", !.copy = "other"]),
        Asking([Check EXCEPT !.tool = "inspect_account", !.copy = "not base64"]),
        Asking([Check EXCEPT !.tool = "find_gaps", !.range = "forward"])}
-----------------------------------------------------------------------------
(* Accounts for the decoder: the types of one program, fixed and variable, *)
(* at their length and next to it, and a registered type and one that is   *)
(* not under programs of every kind.                                       *)

MCOwners == PROGRAMS \cup {"elsewhere"}

MCUpdates ==
  {[owner |-> s.program, data |-> [name |-> s.account_type, len |-> s.data_len + d - 1],
    decodes |-> TRUE] : s \in METEORA_DLMM_ACCOUNTS, d \in 0..2}
  \cup [owner : {"Kamino Lend", "Meteora DLMM", "elsewhere"}, decodes : BOOLEAN,
        data : {Good, Long, New, [name |-> "none", len |-> 0]}]
-----------------------------------------------------------------------------
(* What the page meets: an account as registered, as it was a moment ago,  *)
(* with a byte too many; one of a minimum length, at it and above; one of  *)
(* no registered type, as long as the case picked has it; and one too      *)
(* short for a discriminator.                                              *)

Cell(data, body) == [name |-> data.name, len |-> data.len, body |-> body]

MCPastes ==
  {Cell(d, "a") : d \in {Good, Long, Floor, [name |-> "none", len |-> 3344],
                         [name |-> "Obligation", len |-> 7]}}

MCStored == MCPastes \cup {Cell(Good, "b"), Cell([Floor EXCEPT !.len = 8121], "a")}
-----------------------------------------------------------------------------
\* What the other programs start with does not matter to the one that runs, and
\* to the server a blank KARAT_RPC_URL is none.
MCInit ==
  /\ Init
  /\ surface # "cli" => line = Plain
  /\ surface = "mcp" => env \in {"blank", "url"}
  /\ surface = "page" => env = "none"
  /\ surface # "carbon" => program_id = "elsewhere"
  /\ surface = "carbon" => env = "none" /\ program_id \in {"Meteora DLMM", "elsewhere"}

MCSpec == MCInit /\ [][Next]_vars
            /\ WF_vars(surface = "mcp" /\ ServeStep
                         /\ UNCHANGED <<surface, onlyCli, carbonVars, pageVars>>)
=============================================================================
