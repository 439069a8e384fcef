------------------------------- MODULE Carbon --------------------------------
(***************************************************************************)
(* KaratDecoder in a Carbon pipeline, and the account gate behind it.      *)
(*                                                                         *)
(* Carbon hands the decoder one account after the other.  What it lets     *)
(* through goes to the processor, which runs gate_account on it.  The      *)
(* counters are all that is left of an account that was dropped.           *)
(***************************************************************************)
EXTENDS Gate, Layout, FiniteSets

CONSTANTS Owners,        \* programs, registered or not
          Updates,       \* accounts of any of them, and whether Carbon decodes them
          MaxUpdates     \* bound on how many the pipeline sees

ASSUME CarbonAssumption ==
  /\ Programs \subseteq Owners
  /\ Updates \subseteq [owner : Owners, data : Payload, decodes : BOOLEAN]
  /\ MaxUpdates \in Nat

\* The decoder has no slot: no type it judges has lengths by era.
ASSUME NoErasAssumption == \A s \in Specs : s.len_eras = << >>

VARIABLES
  program_id,        \* the program the decoder is for
  seen,              \* history: the updates decoded so far
  hand,              \* the accounts let through, for the processor to gate
  CHECKED, REJECTED, UNCHECKED, DECODE_FAILURES,
  reads,             \* RPC calls of the gate
  dropped,           \* history: the accounts the decoder rejected
  refused            \* history: accounts the gate failed by their shape

counters == <<CHECKED, REJECTED, UNCHECKED, DECODE_FAILURES>>
carbonVars == <<program_id, seen, hand, counters, reads, dropped, refused>>

CarbonTypeOK ==
  /\ program_id \in Owners
  /\ seen \in Seq(Updates) /\ Len(seen) <= MaxUpdates
  /\ hand \in Seq(Updates) /\ Len(hand) <= 1
  /\ {CHECKED, REJECTED, UNCHECKED, DECODE_FAILURES, reads, refused} \subseteq Nat
  /\ dropped \subseteq Updates

CarbonInit ==
  /\ program_id \in Owners
  /\ seen = << >> /\ hand = << >>
  /\ CHECKED = 0 /\ REJECTED = 0 /\ UNCHECKED = 0 /\ DECODE_FAILURES = 0
  /\ reads = 0 /\ dropped = {} /\ refused = 0
-----------------------------------------------------------------------------
(* decode_account                                                          *)

Take(u) ==
  /\ hand = << >> /\ Len(seen) < MaxUpdates
  /\ seen' = Append(seen, u)
  /\ UNCHANGED <<program_id, reads, refused>>

\* The bytes are long enough for a discriminator and it is not registered.
NoSpecFor(data) == data.len >= DiscLen /\ ~Registered(data.name)

\* Slip: an account of another program counts as a decode failure as well.
NotDecodedCountsAll(u) ==
  /\ ~u.decodes
  /\ Take(u)
  /\ DECODE_FAILURES' = DECODE_FAILURES + 1
  /\ UNCHANGED <<hand, CHECKED, REJECTED, UNCHECKED, dropped>>

\* The inner decoder returns None; for the program's own account that is lost.
NotDecoded(u) ==
  /\ ~u.decodes
  /\ Take(u)
  /\ DECODE_FAILURES' = IF u.owner = program_id THEN DECODE_FAILURES + 1 ELSE DECODE_FAILURES
  /\ UNCHANGED <<hand, CHECKED, REJECTED, UNCHECKED, dropped>>

Verified(u) ==
  /\ u.decodes /\ check_shape(u.data) = "pass"
  /\ Take(u)
  /\ CHECKED' = CHECKED + 1 /\ hand' = <<u>>
  /\ UNCHANGED <<REJECTED, UNCHECKED, DECODE_FAILURES, dropped>>

PassedOn(u) ==
  /\ u.decodes /\ check_shape(u.data) # "pass" /\ NoSpecFor(u.data)
  /\ Take(u)
  /\ UNCHECKED' = UNCHECKED + 1 /\ hand' = <<u>>
  /\ UNCHANGED <<CHECKED, REJECTED, DECODE_FAILURES, dropped>>

Rejected(u) ==
  /\ u.decodes /\ check_shape(u.data) # "pass" /\ ~NoSpecFor(u.data)
  /\ Take(u)
  /\ REJECTED' = REJECTED + 1 /\ dropped' = dropped \cup {u}
  /\ UNCHANGED <<hand, CHECKED, UNCHECKED, DECODE_FAILURES>>

decode_account(u) == NotDecoded(u) \/ Verified(u) \/ PassedOn(u) \/ Rejected(u)

\* The processor runs the account gate, whatever the endpoint says.
gate_account ==
  /\ hand # << >>
  /\ LET u == hand[1] IN
       /\ reads' = IF AsksChain(u.data, TRUE) THEN reads + 1 ELSE reads
       /\ \E status \in Statuses :
            refused' = IF check_account(u.data, TRUE, status)[1] = "Fail" THEN refused + 1 ELSE refused
  /\ hand' = << >>
  /\ UNCHANGED <<program_id, seen, counters, dropped>>

CarbonNext == (\E u \in Updates : decode_account(u)) \/ gate_account

CarbonSpec == CarbonInit /\ [][CarbonNext]_carbonVars
-----------------------------------------------------------------------------
\* Every decoded account, and every one of the program that is not.
Owed(u) == u.decodes \/ u.owner = program_id

HowManyOwed == Cardinality({i \in DOMAIN seen : Owed(seen[i])})

(* No account the pipeline could have used is lost without a count, and    *)
(* none is counted twice or by another program's.  Behind the decoder the  *)
(* gate agrees with it on each account: it asks the chain once for those   *)
(* counted as checked, and fails those counted as unchecked by their shape *)
(* alone.                                                                  *)
CountersAddUp ==
  /\ CHECKED + REJECTED + UNCHECKED + DECODE_FAILURES = HowManyOwed
  /\ reads <= CHECKED /\ refused <= UNCHECKED
  /\ CHECKED + UNCHECKED = reads + refused + Len(hand)

(* What the decoder drops, inspect would not decode either: looking a type *)
(* up by its discriminator alone finds the row that the owner has for it,  *)
(* if it has one.  An owner outside the registry has none, and the claim   *)
(* says nothing of its accounts.                                           *)
DropIsDeserved ==
  \A u \in dropped : ClassOf(u.owner, u.data, 0) # "decodes"
=============================================================================
