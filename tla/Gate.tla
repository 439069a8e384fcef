-------------------------------- MODULE Gate ---------------------------------
(***************************************************************************)
(* The account gate, and what the endpoint behind it may answer.           *)
(*                                                                         *)
(* gate::check_account shapes the bytes and reconciles them only when they *)
(* pass.  The command line, the MCP server and the Carbon hook call it.    *)
(* What reconcile, inspect and the coverage checks do with their calls is  *)
(* in modules of their own; here it is the World they come back with.      *)
(***************************************************************************)
EXTENDS Shape

\* A URL as an option, an argument or KARAT_RPC_URL gives it.
Endpoints == {"none", "blank", "url"}

VARIABLE env     \* KARAT_RPC_URL of the process

Statuses == {"Pass", "Fail", "Skipped"}

\* What one row of a reconcile meets, and whether the slots excuse a mismatch
\* (Reconcile says when).
RowWorld == [answer : {"same bytes", "other bytes", "no account", "no answer"},
             excused : BOOLEAN]

\* What the calls of a command come to: each row of its reconcile, and the
\* finding of the other calls, Skipped when they could not be made.
Worlds(n) ==
  {w \in [rows : [1..n -> RowWorld], found : Statuses] :
     \A i, j \in 1..n : w.rows[i].answer = "no answer" <=> w.rows[j].answer = "no answer"}

\* Only a URL can be reached.
WorldsAt(endpoint, n) ==
  IF endpoint = "url" THEN Worlds(n)
  ELSE {w \in Worlds(n) : w.found = "Skipped" /\ \A i \in 1..n : w.rows[i].answer = "no answer"}

\* reconcile's result for a row, written with its slot or without.
RowStatus(row, withSlot) ==
  CASE row.answer = "same bytes"  -> "Pass"
    [] row.answer = "no answer"   -> "Skipped"
    [] row.answer = "no account"  -> "Fail"
    [] row.answer = "other bytes" -> IF withSlot /\ row.excused THEN "Skipped" ELSE "Fail"

\* The call goes out only for a shape that passes.
AsksChain(data, fetcher) == check_shape(data) = "pass" /\ fetcher

\* The results, given the one of the reconcile.
check_account(data, fetcher, status) ==
  IF check_shape(data) # "pass" THEN <<"Fail">>
  ELSE <<"Pass", IF fetcher THEN status ELSE "Skipped">>

\* Slip: what could not be checked is let through.
none_fail(results) == \A i \in DOMAIN results : results[i] # "Fail"

all_pass(results) == results # << >> /\ \A i \in DOMAIN results : results[i] = "Pass"
-----------------------------------------------------------------------------
(* The exports for the page, which makes the one call itself.              *)

shape_json(data) == <<IF check_shape(data) = "pass" THEN "Pass" ELSE "Fail">>

\* fetched: the page got an answer.  Its MockFetcher knows no last touch, so
\* the slots alone excuse a mismatch.
check_account_json(data, fetched, row, withSlot) ==
  check_account(data, fetched, RowStatus(row, withSlot))
=============================================================================
