--------------------------- MODULE FrontendsProofs ---------------------------
(***************************************************************************)
(* Proofs about the registry and the front ends: what a shape that passes  *)
(* promises for every registry that passes its tests, the counters of the  *)
(* Carbon hook, the exit code of a command, what the page draws next to a  *)
(* verdict, and that the composition runs each program as its own          *)
(* specification says.                                                     *)
(***************************************************************************)
EXTENDS Frontends, McpProofs, FiniteSetTheorems, WellFoundedInduction

(* The registry.                                                           *)

LEMMA RowOfType ==
  ASSUME NEW name, Registered(name)
  PROVE  find_by_discriminator(name) \in Specs /\ find_by_discriminator(name).account_type = name
  BY DEF Registered, find_by_discriminator

\* The row an owner has for a type is the one its discriminator finds.
LEMMA OneRowPerType ==
  ASSUME NEW program, NEW name, Owned(program, name)
  PROVE  Registered(name) /\ find_owned(program, name) = find_by_discriminator(name)
<1>1. find_owned(program, name) \in Specs /\ find_owned(program, name).account_type = name
  BY DEF Owned, find_owned
<1>2. Registered(name)
  BY <1>1 DEF Registered
<1>3. find_by_discriminator(name) \in Specs /\ find_by_discriminator(name).account_type = name
  BY <1>2, RowOfType
<1>. QED
  BY <1>1, <1>2, <1>3, ShapeAssumption DEF ShapeAssumption

\* A length the row allows holds every field of the type's layout: decode never
\* fails on bytes whose length was judged by the row's own rule.
THEOREM LegalLengthDecodes ==
  ASSUME NEW spec \in Specs, NEW layout \in Layouts, LayoutOf(layout, spec),
         NEW len \in Nat, Legal(spec.len_rule, spec.data_len, len)
  PROVE  decode(layout, len)
<1>1. spec.data_len \in Nat
  BY ShapeAssumption DEF ShapeAssumption
<1>2. len >= spec.data_len
  BY <1>1 DEF Legal
<1>3. layout.fields \subseteq Field /\ \A f \in layout.fields : FieldEnd(f) <= spec.data_len
  BY LayoutAssumption DEF LayoutAssumption
<1>4. ASSUME NEW f \in layout.fields PROVE FieldEnd(f) <= len
  <2>1. f.offset \in Nat /\ f.kind \in FieldKinds
    BY <1>3 DEF Field
  <2>2. width(f.kind) \in Nat
    BY <2>1 DEF FieldKinds, width
  <2>3. FieldEnd(f) \in Nat
    BY <2>1, <2>2 DEF FieldEnd
  <2>. QED
    BY <1>1, <1>2, <1>3, <2>3
<1>. QED
  BY <1>4 DEF decode

\* check_shape, which knows no owner and no slot, says pass for exactly the bytes
\* inspect decodes, for every program that has a row for the type.
THEOREM ShapeIsInspectsVerdict ==
  ASSUME NEW program, NEW data \in Payload, Owned(program, data.name), NEW slot \in Nat
  PROVE  check_shape(data) = "pass" <=> ClassOf(program, data, slot) = "decodes"
<1>. DEFINE spec == find_by_discriminator(data.name)
<1>1. /\ Registered(data.name) /\ find_owned(program, data.name) = spec
      /\ spec \in Specs /\ spec.account_type = data.name
  BY OneRowPerType, RowOfType
<1>2. len_at(spec, slot) = [data_len |-> spec.data_len, len_rule |-> spec.len_rule]
  BY <1>1, NoErasAssumption DEF NoErasAssumption, len_at
<1>3. data.len \in Nat
  BY DEF Payload
<1>4. CASE data.len < DiscLen
  BY <1>4 DEF check_shape, ClassOf
<1>5. CASE ~(data.len < DiscLen)
  <2>1. check_shape(data) = "pass" <=> Legal(spec.len_rule, spec.data_len, data.len)
    BY <1>1, <1>5 DEF check_shape
  <2>2. ClassOf(program, data, slot) =
          IF ~Legal(spec.len_rule, spec.data_len, data.len) THEN "layout_mismatch"
          ELSE IF \E l \in Layouts : LayoutOf(l, spec) /\ ~decode(l, data.len) THEN "layout_mismatch"
          ELSE "decodes"
    BY <1>1, <1>2, <1>5 DEF ClassOf
  <2>3. Legal(spec.len_rule, spec.data_len, data.len) =>
          ~ \E l \in Layouts : LayoutOf(l, spec) /\ ~decode(l, data.len)
    BY <1>1, <1>3, LegalLengthDecodes
  <2>. QED
    BY <2>1, <2>2, <2>3
<1>. QED
  BY <1>4, <1>5

Ascending(eras) == \A i, j \in DOMAIN eras : i < j => eras[i].from_slot <= eras[j].from_slot

\* The rule at a slot is that of one era, which has begun by then, and the next,
\* if there is one, has not; and before the first era, that of the first.
THEOREM EraInForce ==
  ASSUME NEW spec \in Specs, NEW slot \in Nat, spec.len_eras # << >>, Ascending(spec.len_eras)
  PROVE  \E i \in DOMAIN spec.len_eras :
           /\ len_at(spec, slot) = [data_len |-> spec.len_eras[i].data_len,
                                    len_rule |-> spec.len_eras[i].len_rule]
           /\ \/ spec.len_eras[i].from_slot <= slot
              \/ i = 1 /\ slot < spec.len_eras[1].from_slot
           /\ i + 1 \in DOMAIN spec.len_eras => slot < spec.len_eras[i + 1].from_slot
<1>. DEFINE eras == spec.len_eras
            n == Len(eras)
<1>1. eras \in Seq(LenEra) /\ n \in Nat /\ n > 0 /\ DOMAIN eras = 1..n
  BY ShapeAssumption DEF ShapeAssumption
<1>2. \A i \in 1..n : eras[i].from_slot \in Nat
  <2>1. \A i \in 1..n : eras[i] \in LenEra
    BY <1>1
  <2>. QED
    BY <2>1 DEF LenEra
<1>3. CASE Begun(eras, slot) = {}
  <2>1. len_at(spec, slot) = [data_len |-> eras[1].data_len, len_rule |-> eras[1].len_rule]
    BY <1>3 DEF len_at
  <2>2. \A i \in 1..n : slot < eras[i].from_slot
    BY <1>1, <1>2, <1>3 DEF Begun
  <2>3. 1 \in 1..n
    BY <1>1
  <2>. QED
    BY <1>1, <2>1, <2>2, <2>3
<1>4. CASE Begun(eras, slot) # {}
  <2>. DEFINE after == {k \in Nat : n - k \in Begun(eras, slot)}
  <2>1. Begun(eras, slot) \subseteq 1..n
    BY <1>1 DEF Begun
  <2>2. after # {}
    <3>1. PICK i \in Begun(eras, slot) : TRUE
      BY <1>4
    <3>2. n - i \in Nat /\ n - (n - i) = i
      BY <1>1, <2>1, <3>1
    <3>. QED
      BY <3>1, <3>2
  <2>3. after \subseteq Nat
    OBVIOUS
  <2>. HIDE DEF after
  <2>4. PICK k \in after : \A m \in after : k <= m
    <3>1. PICK k \in after : \A m \in after : ~(<<m, k>> \in OpToRel(<, Nat))
      BY <2>2, <2>3, NatLessThanWellFounded, WFMin
    <3>2. \A m \in after : ~(m < k)
      BY <2>3, <3>1 DEF OpToRel
    <3>3. ASSUME NEW m \in after PROVE k <= m
      <4>1. m \in Nat /\ k \in Nat /\ ~(m < k)
        BY <2>3, <3>1, <3>2
      <4>. QED
        BY <4>1
    <3>. QED
      BY <3>1, <3>3
  <2>5. n - k \in Begun(eras, slot) /\ \A j \in Begun(eras, slot) : j <= n - k
    <3>1. k \in Nat /\ n - k \in Begun(eras, slot)
      BY <2>4 DEF after
    <3>2. ASSUME NEW j \in Begun(eras, slot) PROVE j <= n - k
      <4>1. n - j \in Nat /\ n - (n - j) = j
        BY <1>1, <2>1
      <4>2. n - j \in after
        BY <4>1 DEF after
      <4>3. k <= n - j
        BY <2>4, <4>2
      <4>. QED
        BY <1>1, <2>1, <3>1, <4>3
    <3>. QED
      BY <3>1, <3>2
  <2>. DEFINE last == CHOOSE i \in Begun(eras, slot) : \A j \in Begun(eras, slot) : j <= i
  <2>6. last \in Begun(eras, slot) /\ \A j \in Begun(eras, slot) : j <= last
    BY <2>5
  <2>7. len_at(spec, slot) = [data_len |-> eras[last].data_len, len_rule |-> eras[last].len_rule]
    BY <1>4 DEF len_at
  <2>. HIDE DEF last
  <2>8. last \in 1..n /\ eras[last].from_slot <= slot
    BY <1>1, <2>6 DEF Begun
  <2>9. last + 1 \in DOMAIN eras => slot < eras[last + 1].from_slot
    <3>1. last + 1 \in DOMAIN eras => last + 1 \notin Begun(eras, slot)
      BY <2>6, <2>8
    <3>. QED
      BY <1>1, <1>2, <3>1 DEF Begun
  <2>. QED
    BY <1>1, <2>7, <2>8, <2>9
<1>. QED
  BY <1>3, <1>4
-----------------------------------------------------------------------------
(* The Carbon hook.                                                        *)

LEMMA CarbonTypeInit == CarbonInit => CarbonTypeOK
<1>. SUFFICES ASSUME CarbonInit PROVE CarbonTypeOK
  OBVIOUS
<1>1. seen \in Seq(Updates) /\ Len(seen) = 0 /\ hand \in Seq(Updates) /\ Len(hand) = 0
  BY DEF CarbonInit
<1>2. MaxUpdates \in Nat
  BY CarbonAssumption DEF CarbonAssumption
<1>. QED
  BY <1>1, <1>2 DEF CarbonInit, CarbonTypeOK

LEMMA CarbonTypeStep == CarbonTypeOK /\ [CarbonNext]_carbonVars => CarbonTypeOK'
<1>. SUFFICES ASSUME CarbonTypeOK, [CarbonNext]_carbonVars PROVE CarbonTypeOK'
  OBVIOUS
<1>1. MaxUpdates \in Nat
  BY CarbonAssumption DEF CarbonAssumption
<1>2. ASSUME NEW u \in Updates, Take(u) PROVE seen' \in Seq(Updates) /\ Len(seen') <= MaxUpdates
  BY <1>1, <1>2 DEF Take, CarbonTypeOK
<1>3. ASSUME NEW u \in Updates PROVE <<u>> \in Seq(Updates) /\ Len(<<u>>) <= 1
  OBVIOUS
<1>4. ASSUME NEW u \in Updates, NotDecoded(u) PROVE CarbonTypeOK'
  BY <1>2, <1>4 DEF NotDecoded, Take, CarbonTypeOK
<1>5. ASSUME NEW u \in Updates, Verified(u) PROVE CarbonTypeOK'
  BY <1>2, <1>3, <1>5 DEF Verified, Take, CarbonTypeOK
<1>6. ASSUME NEW u \in Updates, PassedOn(u) PROVE CarbonTypeOK'
  BY <1>2, <1>3, <1>6 DEF PassedOn, Take, CarbonTypeOK
<1>7. ASSUME NEW u \in Updates, Rejected(u) PROVE CarbonTypeOK'
  BY <1>2, <1>7 DEF Rejected, Take, CarbonTypeOK
<1>8. CASE gate_account
  <2>1. hand' \in Seq(Updates) /\ Len(hand') <= 1
    BY <1>8 DEF gate_account
  <2>2. reads' \in Nat
    <3>1. reads \in Nat
      BY DEF CarbonTypeOK
    <3>2. reads' = reads + 1 \/ reads' = reads
      BY <1>8 DEF gate_account
    <3>. QED
      BY <3>1, <3>2
  <2>3. refused' \in Nat
    <3>1. refused \in Nat
      BY DEF CarbonTypeOK
    <3>2. refused' = refused + 1 \/ refused' = refused
      BY <1>8 DEF gate_account
    <3>. QED
      BY <3>1, <3>2
  <2>. QED
    BY <1>8, <2>1, <2>2, <2>3 DEF gate_account, counters, CarbonTypeOK
<1>9. CASE UNCHANGED carbonVars
  BY <1>9 DEF carbonVars, counters, CarbonTypeOK
<1>. QED
  BY <1>4, <1>5, <1>6, <1>7, <1>8, <1>9 DEF CarbonNext, decode_account

\* The hook's state is well typed: at most one account is in hand.
THEOREM CarbonTypeCorrect == CarbonSpec => []CarbonTypeOK
  BY CarbonTypeInit, CarbonTypeStep, PTL DEF CarbonSpec

\* What taking an update adds to the number of accounts owed a count.
LEMMA TakeOwes ==
  ASSUME CarbonTypeOK, NEW u \in Updates, Take(u)
  PROVE  /\ HowManyOwed \in Nat
         /\ HowManyOwed' = IF Owed(u) THEN HowManyOwed + 1 ELSE HowManyOwed
<1>. DEFINE owed == {i \in DOMAIN seen : Owed(seen[i])}
            n == Len(seen)
<1>1. seen \in Seq(Updates) /\ n \in Nat /\ DOMAIN seen = 1..n
  BY DEF CarbonTypeOK
<1>2. IsFiniteSet(1..n) /\ owed \subseteq 1..n
  BY <1>1, FS_Interval
<1>3. IsFiniteSet(owed) /\ Cardinality(owed) \in Nat
  BY <1>2, FS_Subset, FS_CardinalityType
<1>4. /\ DOMAIN seen' = 1..n \cup {n + 1} /\ seen'[n + 1] = u /\ \A i \in 1..n : seen'[i] = seen[i]
      /\ n + 1 \notin 1..n /\ program_id' = program_id
  BY <1>1 DEF Take
<1>. DEFINE owedThen == {i \in DOMAIN seen' : seen'[i].decodes \/ seen'[i].owner = program_id'}
<1>5. owedThen = IF Owed(u) THEN owed \cup {n + 1} ELSE owed
  <2>1. \A i \in 1..n : i \in owedThen <=> i \in owed
    BY <1>1, <1>4 DEF Owed
  <2>2. n + 1 \in owedThen <=> Owed(u)
    BY <1>4 DEF Owed
  <2>. QED
    BY <1>1, <1>2, <1>4, <2>1, <2>2
<1>6. Cardinality(owed \cup {n + 1}) = Cardinality(owed) + 1
  BY <1>2, <1>3, <1>4, FS_AddElement
<1>7. HowManyOwed = Cardinality(owed) /\ HowManyOwed' = Cardinality(owedThen)
  BY DEF HowManyOwed, Owed
<1>. QED
  BY <1>3, <1>5, <1>6, <1>7

\* CountersAddUp is not inductive: it does not say which of the two the account
\* in hand was counted as.
One(b) == IF b THEN 1 ELSE 0
InHandPasses == hand # << >> /\ check_shape(hand[1].data) = "pass"
InHandFails == hand # << >> /\ check_shape(hand[1].data) # "pass"

Counted ==
  /\ CarbonTypeOK
  /\ CHECKED + REJECTED + UNCHECKED + DECODE_FAILURES = HowManyOwed
  /\ CHECKED = reads + One(InHandPasses)
  /\ UNCHECKED = refused + One(InHandFails)

LEMMA CountedInit == CarbonInit => Counted
<1>. SUFFICES ASSUME CarbonInit PROVE Counted
  OBVIOUS
<1>1. {i \in DOMAIN seen : Owed(seen[i])} = {}
  BY DEF CarbonInit
<1>2. HowManyOwed = 0
  BY <1>1, FS_EmptySet DEF HowManyOwed
<1>. QED
  BY <1>2, CarbonTypeInit DEF CarbonInit, Counted, One, InHandPasses, InHandFails

LEMMA CountedStep == Counted /\ [CarbonNext]_carbonVars => Counted'
<1>. SUFFICES ASSUME Counted, [CarbonNext]_carbonVars PROVE Counted'
  OBVIOUS
<1>1. CarbonTypeOK /\ CarbonTypeOK'
  BY CarbonTypeStep DEF Counted
<1>2. /\ CHECKED \in Nat /\ REJECTED \in Nat /\ UNCHECKED \in Nat /\ DECODE_FAILURES \in Nat
      /\ reads \in Nat /\ refused \in Nat /\ HowManyOwed = CHECKED + REJECTED + UNCHECKED + DECODE_FAILURES
      /\ CHECKED = reads + One(InHandPasses) /\ UNCHECKED = refused + One(InHandFails)
  BY <1>1 DEF CarbonTypeOK, Counted
<1>3. ASSUME NEW u \in Updates, Take(u)
      PROVE  /\ HowManyOwed' = IF Owed(u) THEN HowManyOwed + 1 ELSE HowManyOwed
             /\ ~InHandPasses /\ ~InHandFails /\ reads' = reads /\ refused' = refused
             /\ CHECKED = reads /\ UNCHECKED = refused
  BY <1>1, <1>2, <1>3, TakeOwes DEF Take, InHandPasses, InHandFails, One
<1>4. ASSUME NEW u \in Updates, NotDecoded(u) PROVE Counted'
  <2>1. Take(u) /\ ~u.decodes /\ UNCHANGED <<hand, CHECKED, REJECTED, UNCHECKED>>
        /\ DECODE_FAILURES' = IF u.owner = program_id THEN DECODE_FAILURES + 1 ELSE DECODE_FAILURES
    BY <1>4 DEF NotDecoded
  <2>2. hand' = << >>
    BY <2>1 DEF Take
  <2>3. One(InHandPasses)' = 0 /\ One(InHandFails)' = 0
    BY <2>2 DEF InHandPasses, InHandFails, One
  <2>. QED
    BY <1>1, <1>2, <1>3, <2>1, <2>3 DEF Counted, Owed
<1>5. ASSUME NEW u \in Updates, Verified(u) PROVE Counted'
  <2>1. /\ Take(u) /\ u.decodes /\ check_shape(u.data) = "pass"
        /\ CHECKED' = CHECKED + 1 /\ UNCHANGED <<REJECTED, UNCHECKED, DECODE_FAILURES>> /\ hand' = <<u>>
    BY <1>5 DEF Verified
  <2>2. One(InHandPasses)' = 1 /\ One(InHandFails)' = 0
    BY <2>1 DEF InHandPasses, InHandFails, One
  <2>. QED
    BY <1>1, <1>2, <1>3, <2>1, <2>2 DEF Counted, Owed
<1>6. ASSUME NEW u \in Updates, PassedOn(u) PROVE Counted'
  <2>1. /\ Take(u) /\ u.decodes /\ check_shape(u.data) # "pass"
        /\ UNCHECKED' = UNCHECKED + 1 /\ UNCHANGED <<CHECKED, REJECTED, DECODE_FAILURES>> /\ hand' = <<u>>
    BY <1>6 DEF PassedOn
  <2>2. One(InHandPasses)' = 0 /\ One(InHandFails)' = 1
    BY <2>1 DEF InHandPasses, InHandFails, One
  <2>. QED
    BY <1>1, <1>2, <1>3, <2>1, <2>2 DEF Counted, Owed
<1>7. ASSUME NEW u \in Updates, Rejected(u) PROVE Counted'
  <2>1. /\ Take(u) /\ u.decodes
        /\ REJECTED' = REJECTED + 1 /\ UNCHANGED <<hand, CHECKED, UNCHECKED, DECODE_FAILURES>>
    BY <1>7 DEF Rejected
  <2>2. hand' = << >>
    BY <2>1 DEF Take
  <2>3. One(InHandPasses)' = 0 /\ One(InHandFails)' = 0
    BY <2>2 DEF InHandPasses, InHandFails, One
  <2>. QED
    BY <1>1, <1>2, <1>3, <2>1, <2>3 DEF Counted, Owed
<1>8. CASE gate_account
  <2>1. /\ hand # << >> /\ hand' = << >> /\ UNCHANGED <<program_id, seen, counters>>
        /\ reads' = IF check_shape(hand[1].data) = "pass" THEN reads + 1 ELSE reads
    BY <1>8 DEF gate_account, AsksChain
  <2>2. PICK status \in Statuses :
          refused' = IF check_account(hand[1].data, TRUE, status)[1] = "Fail" THEN refused + 1 ELSE refused
    BY <1>8 DEF gate_account
  <2>3. refused' = IF check_shape(hand[1].data) = "pass" THEN refused ELSE refused + 1
    BY <2>2 DEF check_account
  <2>4. One(InHandPasses)' = 0 /\ One(InHandFails)' = 0
    BY <2>1 DEF InHandPasses, InHandFails, One
  <2>5. CHECKED' = CHECKED /\ REJECTED' = REJECTED /\ UNCHECKED' = UNCHECKED
        /\ DECODE_FAILURES' = DECODE_FAILURES /\ HowManyOwed' = HowManyOwed
    BY <2>1 DEF counters, HowManyOwed, Owed
  <2>. QED
    BY <1>1, <1>2, <2>1, <2>3, <2>4, <2>5 DEF Counted, InHandPasses, InHandFails, One
<1>9. CASE UNCHANGED carbonVars
  BY <1>1, <1>9 DEF carbonVars, counters, Counted, HowManyOwed, Owed, InHandPasses, InHandFails, One
<1>. QED
  BY <1>4, <1>5, <1>6, <1>7, <1>8, <1>9 DEF CarbonNext, decode_account

\* No account is lost without a count or counted twice, and the gate agrees with
\* the decoder on each, for every registry, owner and order of updates.
THEOREM CarbonCountersAddUp == CarbonSpec => []CountersAddUp
<1>1. Counted => CountersAddUp
  <2>. SUFFICES ASSUME Counted PROVE CountersAddUp
    OBVIOUS
  <2>1. /\ CHECKED \in Nat /\ UNCHECKED \in Nat /\ reads \in Nat /\ refused \in Nat
        /\ CHECKED = reads + One(InHandPasses) /\ UNCHECKED = refused + One(InHandFails)
    BY DEF Counted, CarbonTypeOK
  <2>2. One(InHandPasses) + One(InHandFails) = Len(hand)
    <3>1. hand \in Seq(Updates) /\ Len(hand) \in Nat /\ Len(hand) <= 1 /\ (Len(hand) = 0 <=> hand = << >>)
      BY DEF Counted, CarbonTypeOK
    <3>. QED
      BY <3>1 DEF One, InHandPasses, InHandFails
  <2>3. One(InHandPasses) \in Nat /\ One(InHandFails) \in Nat
    BY DEF One
  <2>4. reads <= CHECKED /\ refused <= UNCHECKED /\ CHECKED + UNCHECKED = reads + refused + Len(hand)
    <3>1. PICK a \in Nat, b \in Nat : CHECKED = reads + a /\ UNCHECKED = refused + b /\ a + b = Len(hand)
      BY <2>1, <2>2, <2>3
    <3>. QED
      BY <2>1, <3>1
  <2>. QED
    BY <2>4 DEF Counted, CountersAddUp
<1>. QED
  BY <1>1, CountedInit, CountedStep, PTL DEF CarbonSpec

\* What was dropped was taken for decoded and failed by its shape.
DroppedByShape == \A u \in dropped : u \in Updates /\ check_shape(u.data) # "pass"

LEMMA DroppedByShapeStep == DroppedByShape /\ [CarbonNext]_carbonVars => DroppedByShape'
<1>. SUFFICES ASSUME DroppedByShape, [CarbonNext]_carbonVars PROVE DroppedByShape'
  OBVIOUS
<1>1. ASSUME NEW u \in Updates, Rejected(u) PROVE DroppedByShape'
  BY <1>1 DEF Rejected, DroppedByShape
<1>2. CASE UNCHANGED dropped
  BY <1>2 DEF DroppedByShape
<1>3. ASSUME NEW u \in Updates, NotDecoded(u) \/ Verified(u) \/ PassedOn(u) PROVE UNCHANGED dropped
  BY <1>3 DEF NotDecoded, Verified, PassedOn
<1>4. gate_account \/ UNCHANGED carbonVars => UNCHANGED dropped
  BY DEF gate_account, carbonVars
<1>. QED
  BY <1>1, <1>2, <1>3, <1>4 DEF CarbonNext, decode_account

\* The decoder drops nothing that inspect would decode, for every registry: a
\* discriminator finds the owner's own row, and the legal lengths hold the fields.
THEOREM CarbonDropIsDeserved == CarbonSpec => []DropIsDeserved
<1>1. CarbonInit => DroppedByShape
  BY DEF CarbonInit, DroppedByShape
<1>2. DroppedByShape => DropIsDeserved
  <2>. SUFFICES ASSUME DroppedByShape, NEW u \in dropped PROVE ClassOf(u.owner, u.data, 0) # "decodes"
    BY DEF DropIsDeserved
  <2>1. u.data \in Payload /\ check_shape(u.data) # "pass"
    BY CarbonAssumption DEF CarbonAssumption, DroppedByShape
  <2>2. CASE Owned(u.owner, u.data.name)
    BY <2>1, <2>2, ShapeIsInspectsVerdict
  <2>3. CASE ~Owned(u.owner, u.data.name)
    BY <2>3 DEF ClassOf
  <2>. QED
    BY <2>2, <2>3
<1>. QED
  BY <1>1, <1>2, DroppedByShapeStep, PTL DEF CarbonSpec
-----------------------------------------------------------------------------
(* The command line.                                                       *)

\* Only a row that holds the same bytes passes.
LEMMA RowPasses ==
  ASSUME NEW row \in RowWorld, NEW withSlot
  PROVE  /\ RowStatus(row, withSlot) \in Statuses
         /\ RowStatus(row, withSlot) = "Pass" <=> row.answer = "same bytes"
         /\ row.answer = "no answer" => RowStatus(row, withSlot) = "Skipped"
<1>1. row.answer \in {"same bytes", "other bytes", "no account", "no answer"}
  BY DEF RowWorld
<1>. QED
  BY <1>1 DEF RowStatus, Statuses

LEMMA AllPassOfOne == ASSUME NEW x PROVE all_pass(<<x>>) <=> x = "Pass"
  BY DEF all_pass

LEMMA AllPassOfTwo == ASSUME NEW x, NEW y PROVE all_pass(<<x, y>>) <=> x = "Pass" /\ y = "Pass"
<1>1. all_pass(<<x, y>>) => x = "Pass" /\ y = "Pass"
  <2>1. 1 \in DOMAIN <<x, y>> /\ 2 \in DOMAIN <<x, y>> /\ <<x, y>>[1] = x /\ <<x, y>>[2] = y
    OBVIOUS
  <2>. QED
    BY <2>1 DEF all_pass
<1>2. x = "Pass" /\ y = "Pass" => all_pass(<<x, y>>)
  BY DEF all_pass
<1>. QED
  BY <1>1, <1>2

\* The gate passes when the shape does and the chain was asked and holds the bytes.
LEMMA GatePasses ==
  ASSUME NEW data, NEW fetcher \in BOOLEAN, NEW status \in Statuses
  PROVE  /\ check_account(data, fetcher, status) \in Seq(Statuses)
         /\ check_account(data, fetcher, status) # << >>
         /\ all_pass(check_account(data, fetcher, status)) <=>
              check_shape(data) = "pass" /\ fetcher /\ status = "Pass"
<1>1. CASE check_shape(data) # "pass"
  <2>1. check_account(data, fetcher, status) = <<"Fail">>
    BY <1>1 DEF check_account
  <2>. QED
    BY <1>1, <2>1, AllPassOfOne DEF Statuses
<1>2. CASE check_shape(data) = "pass"
  <2>1. check_account(data, fetcher, status) = <<"Pass", IF fetcher THEN status ELSE "Skipped">>
    BY <1>2 DEF check_account
  <2>2. all_pass(check_account(data, fetcher, status)) <=> (IF fetcher THEN status ELSE "Skipped") = "Pass"
    BY <2>1, AllPassOfTwo
  <2>. QED
    BY <1>2, <2>1, <2>2 DEF Statuses
<1>. QED
  BY <1>1, <1>2

LEMMA RowsOfIsNat ==
  ASSUME NEW l \in Line
  PROVE  RowsOf(l) \in Nat /\ (l.command # "reconcile" => RowsOf(l) = 1)
<1>1. l.accounts \in Nat /\ l.copies \in Seq({"base64", "not base64"})
  BY DEF Line
<1>2. \A S : \A c \in Seq(S) : Len(c) \in Nat
  OBVIOUS
<1>. QED
  BY <1>1, <1>2 DEF RowsOf

LEMMA WorldsAtAreWorlds == ASSUME NEW e, NEW n PROVE WorldsAt(e, n) \subseteq Worlds(n)
  BY DEF WorldsAt

LEMMA WorldHasRows ==
  ASSUME NEW n \in Nat, NEW w \in Worlds(n)
  PROVE  /\ w.rows \in Seq(RowWorld) /\ Len(w.rows) = n /\ DOMAIN w.rows = 1..n
         /\ \A i \in 1..n : w.rows[i] \in RowWorld
         /\ w.found \in Statuses
<1>1. w.rows \in [1..n -> RowWorld] /\ w.found \in Statuses
  BY DEF Worlds
<1>. QED
  BY <1>1

LEMMA ResultsAreStatuses ==
  ASSUME NEW l \in Line, NEW w \in Worlds(RowsOf(l)), l.command # "shape"
  PROVE  ResultsOf(l, w) \in Seq(Statuses)
<1>1. RowsOf(l) \in Nat /\ (l.command # "reconcile" => RowsOf(l) = 1)
  BY RowsOfIsNat
<1>2. /\ w.found \in Statuses /\ DOMAIN w.rows = 1..RowsOf(l)
      /\ \A i \in 1..RowsOf(l) : RowStatus(w.rows[i], l.slots > 0) \in Statuses
  <2>1. /\ w.found \in Statuses /\ DOMAIN w.rows = 1..RowsOf(l)
        /\ \A i \in 1..RowsOf(l) : w.rows[i] \in RowWorld
    BY <1>1, WorldHasRows
  <2>. QED
    BY <2>1, RowPasses
<1>3. l.command \in Commands
  BY DEF Line
<1>4. CASE l.command = "reconcile"
  BY <1>1, <1>2, <1>4 DEF ResultsOf
<1>5. CASE l.command = "account"
  <2>1. HasFetcher \in BOOLEAN /\ RowStatus(w.rows[1], l.slots > 0) \in Statuses
    BY <1>1, <1>2, <1>5 DEF HasFetcher
  <2>. QED
    BY <1>5, <2>1, GatePasses DEF ResultsOf
<1>6. CASE l.command = "inspect"
  <2>1. RowStatus(w.rows[1], l.slots > 0) \in Statuses
    BY <1>1, <1>2, <1>6
  <2>. QED
    BY <1>2, <1>6, <2>1 DEF ResultsOf
<1>7. CASE l.command \in {"completeness", "orphans"}
  BY <1>2, <1>7 DEF ResultsOf
<1>8. CASE l.command = "gaps"
  BY <1>8 DEF ResultsOf, Statuses
<1>. QED
  BY <1>3, <1>4, <1>5, <1>6, <1>7, <1>8 DEF Commands

\* The command makes calls.
Asks(l) == l.command # "shape" /\ (l.command = "account" => AsksChain(l.data, HasFetcher))

OfflineResults(l) ==
  IF l.command = "shape" THEN <<IF check_shape(l.data) = "pass" THEN "Pass" ELSE "Fail">>
  ELSE check_account(l.data, HasFetcher, "Skipped")

Reachable == WorldsAt(UrlOf(line), RowsOf(line))

WritesOut(w) == line.command = "gaps" /\ line.out /\ w.found # "Skipped"

ExitOf(found) == IF all_pass(found) THEN "0" ELSE "1"

\* How the command got where it is.
Course ==
  /\ CliTypeOK
  /\ line \in Lines
  /\ stage \in {"parse", "check", "call"} => results = << >> /\ got = {}
  /\ stage \in {"check", "call", "write"} => Parses(line)
  /\ stage \in {"call", "write"} => Accepts(line) /\ Asks(line)
  /\ stage = "write" => \E w \in Reachable : got = {w} /\ WritesOut(w) /\ results = ResultsOf(line, w)
  /\ stage = "end" =>
       \/ ~Parses(line) /\ exit = "2" /\ got = {} /\ results = << >>
       \/ Parses(line) /\ ~Accepts(line) /\ exit = "1" /\ got = {} /\ results = << >>
       \/ /\ Parses(line) /\ Accepts(line) /\ ~Asks(line) /\ got = {}
          /\ results = OfflineResults(line) /\ exit = ExitOf(results)
       \/ /\ Parses(line) /\ Accepts(line) /\ Asks(line)
          /\ \E w \in Reachable :
               /\ got = {w} /\ results = ResultsOf(line, w)
               /\ IF WritesOut(w) THEN exit \in {"0", "1"} ELSE exit = ExitOf(results)

LEMMA SameLine ==
  ASSUME UNCHANGED <<env, line>>
  PROVE  /\ Parses(line)' <=> Parses(line)
         /\ Accepts(line)' <=> Accepts(line)
         /\ Asks(line)' <=> Asks(line)
         /\ OfflineResults(line)' = OfflineResults(line)
         /\ Reachable' = Reachable
         /\ \A w : ResultsOf(line, w)' = ResultsOf(line, w) /\ (WritesOut(w)' <=> WritesOut(w))
<1>1. UrlOf(line)' = UrlOf(line) /\ RowsOf(line)' = RowsOf(line) /\ (HasFetcher' <=> HasFetcher)
  BY DEF UrlOf, RowsOf, HasFetcher
<1>2. (Parses(line)' <=> Parses(line)) /\ (Accepts(line)' <=> Accepts(line))
  BY <1>1 DEF Parses, Accepts, Decodes
<1>3. (Asks(line)' <=> Asks(line)) /\ OfflineResults(line)' = OfflineResults(line)
  BY <1>1 DEF Asks, AsksChain, OfflineResults, check_account
<1>4. Reachable' = Reachable
  BY <1>1 DEF Reachable
<1>5. \A w : ResultsOf(line, w)' = ResultsOf(line, w) /\ (WritesOut(w)' <=> WritesOut(w))
  BY <1>1 DEF ResultsOf, check_account, WritesOut
<1>. QED
  BY <1>2, <1>3, <1>4, <1>5

LEMMA CliTypeInit == CliInit => CliTypeOK
<1>. SUFFICES ASSUME CliInit PROVE CliTypeOK
  OBVIOUS
<1>1. line \in Line
  BY CliAssumption DEF CliInit, CliAssumption
<1>2. results \in Seq(Statuses)
  BY DEF CliInit
<1>. QED
  BY <1>1, <1>2 DEF CliInit, CliTypeOK

LEMMA ReachableAreWorlds ==
  ASSUME NEW w \in Reachable
  PROVE  w \in Worlds(RowsOf(line))
  BY WorldsAtAreWorlds DEF Reachable

LEMMA OfflineAreStatuses ==
  ASSUME NEW l \in Line
  PROVE  OfflineResults(l) \in Seq(Statuses)
<1>1. HasFetcher \in BOOLEAN /\ "Skipped" \in Statuses
  BY DEF HasFetcher, Statuses
<1>2. check_account(l.data, HasFetcher, "Skipped") \in Seq(Statuses)
  BY <1>1, GatePasses
<1>3. CASE l.command = "shape"
  BY <1>3 DEF OfflineResults, Statuses
<1>. QED
  BY <1>2, <1>3 DEF OfflineResults

LEMMA CourseStep == Course /\ [CliNext]_cliVars => Course'
<1>. SUFFICES ASSUME Course, [CliNext]_cliVars PROVE Course'
  OBVIOUS
<1>1. CliTypeOK /\ line \in Lines /\ line \in Line
  BY DEF Course, CliTypeOK
<1>2. UNCHANGED <<env, line>>
  BY DEF CliNext, cliVars, Parse, BailOut, EndOffline, GoOnline, Answer, WriteOut
<1>3. got \subseteq Worlds(RowsOf(line)) /\ Worlds(RowsOf(line))' = Worlds(RowsOf(line))
  BY <1>1, <1>2 DEF CliTypeOK, RowsOf, Worlds
<1>4. CASE Parse
  <2>1. CliTypeOK'
    BY <1>1, <1>3, <1>4 DEF Parse, CliTypeOK
  <2>. QED
    BY <1>1, <1>2, <1>4, <2>1, SameLine DEF Parse, Course
<1>5. CASE BailOut
  <2>1. CliTypeOK'
    BY <1>1, <1>3, <1>5 DEF BailOut, CliTypeOK
  <2>. QED
    BY <1>1, <1>2, <1>5, <2>1, SameLine DEF BailOut, Course
<1>6. CASE EndOffline
  <2>1. /\ stage = "check" /\ Accepts(line) /\ ~Asks(line) /\ UNCHANGED got
        /\ EndWith(OfflineResults(line))
    BY <1>6 DEF EndOffline, Asks, OfflineResults
  <2>2. /\ results' = OfflineResults(line) /\ stage' = "end"
        /\ exit' = IF all_pass(OfflineResults(line)) THEN "0" ELSE "1"
    BY <2>1 DEF EndWith
  <2>3. ExitOf(results)' = exit'
    BY <2>2 DEF ExitOf, all_pass
  <2>4. CliTypeOK'
    BY <1>1, <1>2, <1>3, <2>1, <2>2, OfflineAreStatuses DEF CliTypeOK
  <2>. QED
    BY <1>1, <1>2, <2>1, <2>2, <2>3, <2>4, SameLine DEF Course
<1>7. CASE GoOnline
  <2>1. CliTypeOK'
    BY <1>1, <1>3, <1>7 DEF GoOnline, CliTypeOK
  <2>. QED
    BY <1>1, <1>2, <1>7, <2>1, SameLine DEF GoOnline, Asks, Course
<1>8. CASE Answer
  <2>1. stage = "call" /\ Parses(line) /\ Accepts(line) /\ Asks(line)
    BY <1>8 DEF Answer, Course
  <2>2. PICK w \in Reachable :
          /\ got' = {w}
          /\ IF WritesOut(w)
               THEN stage' = "write" /\ results' = ResultsOf(line, w) /\ UNCHANGED exit
               ELSE EndWith(ResultsOf(line, w))
    BY <1>8 DEF Answer, Reachable, WritesOut
  <2>3. ResultsOf(line, w) \in Seq(Statuses) /\ w \in Worlds(RowsOf(line))
    BY <1>1, <2>1, ReachableAreWorlds, ResultsAreStatuses DEF Asks
  <2>4. results' = ResultsOf(line, w)
    BY <2>2 DEF EndWith
  <2>5. CASE WritesOut(w)
    <3>1. CliTypeOK'
      BY <1>1, <1>2, <1>3, <2>1, <2>2, <2>3, <2>4, <2>5 DEF CliTypeOK
    <3>. QED
      BY <1>1, <1>2, <2>1, <2>2, <2>4, <2>5, <3>1, SameLine DEF Course
  <2>6. CASE ~WritesOut(w)
    <3>1. stage' = "end" /\ exit' = IF all_pass(ResultsOf(line, w)) THEN "0" ELSE "1"
      BY <2>2, <2>6 DEF EndWith
    <3>2. ExitOf(results)' = exit'
      BY <2>4, <3>1 DEF ExitOf, all_pass
    <3>3. CliTypeOK'
      BY <1>1, <1>2, <1>3, <2>2, <2>3, <2>4, <3>1 DEF CliTypeOK
    <3>. QED
      BY <1>1, <1>2, <2>1, <2>2, <2>4, <2>6, <3>1, <3>2, <3>3, SameLine DEF Course
  <2>. QED
    BY <2>5, <2>6
<1>9. CASE WriteOut
  <2>1. CliTypeOK'
    BY <1>1, <1>3, <1>9 DEF WriteOut, CliTypeOK
  <2>. QED
    BY <1>1, <1>2, <1>9, <2>1, SameLine DEF WriteOut, Course
<1>10. CASE UNCHANGED cliVars
  <2>1. CliTypeOK'
    BY <1>1, <1>3, <1>10 DEF cliVars, CliTypeOK
  <2>2. ExitOf(results)' = ExitOf(results)
    BY <1>10 DEF cliVars, ExitOf, all_pass
  <2>. QED
    BY <1>1, <1>2, <1>10, <2>1, <2>2, SameLine DEF cliVars, Course
<1>. QED
  BY <1>4, <1>5, <1>6, <1>7, <1>8, <1>9, <1>10 DEF CliNext

LEMMA CourseInit == CliInit => Course
  BY CliTypeInit DEF CliInit, Course

\* The command's state is well typed: it has an exit code exactly when it ended,
\* and the world it met has a row for each account of its reconcile.
THEOREM CliTypeCorrect == CliSpec => []CliTypeOK
<1>1. Course => CliTypeOK
  BY DEF Course
<1>. QED
  BY <1>1, CourseInit, CourseStep, PTL DEF CliSpec

\* What the results of a command that made its calls say of the world, command
\* by command.
LEMMA PassedInWorld ==
  ASSUME CliTypeOK, Parses(line), Accepts(line), Asks(line), NEW w \in Reachable
  PROVE  /\ line.command = "reconcile" =>
              (all_pass(ResultsOf(line, w)) =>
                 \A i \in DOMAIN w.rows : w.rows[i].answer = "same bytes")
         /\ line.command = "account" =>
              (all_pass(ResultsOf(line, w)) <=> HasFetcher /\ w.rows[1].answer = "same bytes")
         /\ line.command = "inspect" =>
              (all_pass(ResultsOf(line, w)) <=>
                 w.found = "Pass" /\ (line.copies # << >> => w.rows[1].answer = "same bytes"))
         /\ line.command \in {"completeness", "orphans"} =>
              (all_pass(ResultsOf(line, w)) <=> w.found = "Pass")
         /\ line.command = "gaps" => (all_pass(ResultsOf(line, w)) <=> w.found # "Skipped")
<1>. DEFINE status(i) == RowStatus(w.rows[i], line.slots > 0)
<1>1. line \in Line /\ w \in Worlds(RowsOf(line))
  BY ReachableAreWorlds DEF CliTypeOK
<1>2. RowsOf(line) \in Nat /\ (line.command # "reconcile" => RowsOf(line) = 1)
  BY <1>1, RowsOfIsNat
<1>3. DOMAIN w.rows = 1..RowsOf(line) /\ w.found \in Statuses /\ \A i \in DOMAIN w.rows : w.rows[i] \in RowWorld
  BY <1>1, <1>2, WorldHasRows
<1>4. \A i \in DOMAIN w.rows : status(i) \in Statuses /\ (status(i) = "Pass" <=> w.rows[i].answer = "same bytes")
  BY <1>3, RowPasses
<1>5. line.command # "reconcile" => 1 \in DOMAIN w.rows
  BY <1>2, <1>3
<1>6. CASE line.command = "reconcile"
  <2>1. ResultsOf(line, w) = [i \in DOMAIN w.rows |-> status(i)]
    BY <1>6 DEF ResultsOf
  <2>. QED
    BY <1>4, <1>6, <2>1 DEF all_pass
<1>7. CASE line.command = "account"
  <2>1. ResultsOf(line, w) = check_account(line.data, HasFetcher, status(1))
    BY <1>7 DEF ResultsOf
  <2>2. check_shape(line.data) = "pass"
    BY <1>7 DEF Asks, AsksChain
  <2>3. HasFetcher \in BOOLEAN
    BY DEF HasFetcher
  <2>4. status(1) \in Statuses /\ (status(1) = "Pass" <=> w.rows[1].answer = "same bytes")
    BY <1>4, <1>5, <1>7
  <2>5. all_pass(check_account(line.data, HasFetcher, status(1))) <=>
          check_shape(line.data) = "pass" /\ HasFetcher /\ status(1) = "Pass"
    BY <2>3, <2>4, GatePasses
  <2>6. all_pass(ResultsOf(line, w)) <=> HasFetcher /\ w.rows[1].answer = "same bytes"
    BY <2>1, <2>2, <2>4, <2>5
  <2>. QED
    BY <1>7, <2>6
<1>8. CASE line.command = "inspect"
  <2>1. ResultsOf(line, w) =
          IF w.found = "Skipped" \/ line.copies = << >> THEN <<w.found>> ELSE <<w.found, status(1)>>
    BY <1>8 DEF ResultsOf
  <2>2. status(1) = "Pass" <=> w.rows[1].answer = "same bytes"
    BY <1>4, <1>5, <1>8
  <2>. DEFINE sound == w.found = "Pass" /\ (line.copies # << >> => w.rows[1].answer = "same bytes")
  <2>3. ASSUME w.found = "Skipped" \/ line.copies = << >>
        PROVE  all_pass(ResultsOf(line, w)) <=> sound
    <3>1. ResultsOf(line, w) = <<w.found>>
      BY <2>1, <2>3
    <3>2. all_pass(ResultsOf(line, w)) <=> w.found = "Pass"
      BY <3>1, AllPassOfOne
    <3>. QED
      BY <2>3, <3>2
  <2>4. ASSUME ~(w.found = "Skipped" \/ line.copies = << >>)
        PROVE  all_pass(ResultsOf(line, w)) <=> sound
    <3>1. ResultsOf(line, w) = <<w.found, status(1)>>
      BY <2>1, <2>4
    <3>2. all_pass(ResultsOf(line, w)) <=> w.found = "Pass" /\ status(1) = "Pass"
      BY <3>1, AllPassOfTwo
    <3>. QED
      BY <2>2, <2>4, <3>2
  <2>5. all_pass(ResultsOf(line, w)) <=> sound
    BY <2>3, <2>4
  <2>. QED
    BY <1>8, <2>5
<1>9. CASE line.command \in {"completeness", "orphans"}
  BY <1>9, AllPassOfOne DEF ResultsOf
<1>10. CASE line.command = "gaps"
  BY <1>10, AllPassOfOne DEF ResultsOf
<1>. QED
  BY <1>6, <1>7, <1>8, <1>9, <1>10

LEMMA GreenWorld ==
  ASSUME CliTypeOK, line \in Lines, Parses(line), Accepts(line), Asks(line),
         NEW w \in Reachable, got = {w},
         all_pass(ResultsOf(line, w)) \/ WritesOut(w)
  PROVE  Earned
<1>1. line \in Line /\ w \in Worlds(RowsOf(line)) /\ RowsOf(line) \in Nat
  BY ReachableAreWorlds, RowsOfIsNat DEF CliTypeOK
<1>2. DOMAIN w.rows = 1..RowsOf(line) /\ Len(w.rows) = RowsOf(line)
  BY <1>1, WorldHasRows
<1>3. line.copies \in Seq({"base64", "not base64"}) /\ line.accounts \in Nat /\ line.command \in Commands
  BY <1>1 DEF Line
<1>. DEFINE n == Len(line.copies)
<1>4. n \in Nat /\ DOMAIN line.copies = 1..n /\ (n = 0 <=> line.copies = << >>)
  <2>1. \A S : \A c \in Seq(S) : Len(c) \in Nat /\ DOMAIN c = 1..Len(c) /\ (Len(c) = 0 <=> c = << >>)
    OBVIOUS
  <2>. QED
    BY <1>3, <2>1
<1>. HIDE DEF n
<1>5. CASE line.command = "reconcile"
  <2>1. line.accounts = n /\ RowsOf(line) = n
    BY <1>3, <1>4, <1>5 DEF Accepts, RowsOf, n
  <2>2. all_pass(ResultsOf(line, w))
    BY <1>5 DEF WritesOut
  <2>. QED
    BY <1>2, <1>4, <1>5, <2>1, <2>2, PassedInWorld DEF Earned
<1>6. CASE line.command \in {"account", "inspect"}
  <2>1. n <= 1 /\ RowsOf(line) = 1 /\ (line.command = "account" => n = 1)
    <3>1. n <= 1 /\ (line.command = "account" => line.copies # << >>)
      BY <1>6 DEF Parses, n
    <3>2. RowsOf(line) = 1
      BY <1>1, <1>6, RowsOfIsNat
    <3>. QED
      BY <1>4, <3>1, <3>2
  <2>2. all_pass(ResultsOf(line, w))
    BY <1>6 DEF WritesOut
  <2>3. line.command = "account" => check_shape(line.data) = "pass"
    BY DEF Asks, AsksChain
  <2>4. n = 1 => w.rows[1].answer = "same bytes"
    <3>1. n = 1 => line.copies # << >>
      BY <1>4
    <3>. QED
      BY <1>6, <2>2, <3>1, PassedInWorld
  <2>5. \A i \in DOMAIN line.copies : i \in DOMAIN w.rows /\ w.rows[i].answer = "same bytes"
    <3>1. TAKE i \in DOMAIN line.copies
    <3>2. i = 1 /\ n = 1
      BY <1>4, <2>1
    <3>3. i \in DOMAIN w.rows
      BY <1>2, <2>1, <3>2
    <3>. QED
      BY <2>4, <3>2, <3>3
  <2>. QED
    BY <1>6, <2>2, <2>3, <2>5, PassedInWorld DEF Earned
<1>7. CASE line.command \in {"completeness", "orphans", "gaps"}
  <2>1. DOMAIN line.copies = {}
    BY <1>4, <1>7, CliAssumption DEF CliAssumption
  <2>2. line.command \in {"completeness", "orphans"} => w.found = "Pass"
    BY <1>7, PassedInWorld DEF WritesOut
  <2>3. line.command = "gaps" => w.found # "Skipped"
    BY <1>7, PassedInWorld DEF WritesOut
  <2>. QED
    BY <1>7, <2>1, <2>2, <2>3 DEF Earned
<1>. QED
  BY <1>3, <1>5, <1>6, <1>7 DEF Commands, Asks

\* Exit code 0 is earned and a report names the exit code there is, for every
\* command line, environment and registry, and whatever the calls come to.
THEOREM CliGreenIsEarned == CliSpec => []GreenIsEarned
<1>1. Course => GreenIsEarned
  <2>. SUFFICES ASSUME Course PROVE GreenIsEarned
    OBVIOUS
  <2>1. CliTypeOK /\ line \in Lines
    BY DEF Course
  <2>2. CASE stage # "end"
    BY <2>1, <2>2 DEF GreenIsEarned, CliTypeOK
  <2>3. CASE stage = "end" /\ results = << >>
    <3>1. exit # "0"
      <4>1. \A w : WritesOut(w) => ResultsOf(line, w) # << >>
        BY DEF WritesOut, ResultsOf
      <4>2. ExitOf(results) = "1"
        BY <2>3 DEF ExitOf, all_pass
      <4>. QED
        BY <2>3, <4>1, <4>2 DEF Course
    <3>. QED
      BY <2>3, <3>1 DEF GreenIsEarned
  <2>4. CASE stage = "end" /\ results # << >> /\ ~Asks(line)
    <3>1. results = OfflineResults(line) /\ exit = ExitOf(results)
      BY <2>4 DEF Course
    <3>2. CASE line.command = "shape"
      <4>1. results = <<IF check_shape(line.data) = "pass" THEN "Pass" ELSE "Fail">>
        BY <3>1, <3>2 DEF OfflineResults
      <4>2. all_pass(results) <=> check_shape(line.data) = "pass"
        BY <4>1, AllPassOfOne
      <4>3. exit = "0" => Earned
        BY <3>1, <3>2, <4>2 DEF ExitOf, Earned
      <4>4. SaidExit # "nothing" => exit = SaidExit
        BY <3>1, <3>2, <4>1, <4>2 DEF SaidExit, print_human, ExitOf
      <4>. QED
        BY <4>3, <4>4 DEF GreenIsEarned
    <3>3. CASE line.command = "account"
      <4>1. ~all_pass(results)
        <5>1. HasFetcher \in BOOLEAN /\ "Skipped" \in Statuses
          BY DEF HasFetcher, Statuses
        <5>. QED
          BY <3>1, <3>3, <5>1, GatePasses DEF OfflineResults
      <4>. QED
        BY <3>1, <3>3, <4>1 DEF GreenIsEarned, SaidExit, render_account, ExitOf
    <3>. QED
      BY <2>4, <3>2, <3>3 DEF Asks
  <2>5. CASE stage = "end" /\ results # << >> /\ Asks(line)
    <3>1. /\ Parses(line) /\ Accepts(line)
          /\ \E w \in Reachable :
               /\ got = {w} /\ results = ResultsOf(line, w)
               /\ IF WritesOut(w) THEN exit \in {"0", "1"} ELSE exit = ExitOf(results)
      BY <2>5 DEF Course
    <3>2. PICK w \in Reachable :
            /\ got = {w} /\ results = ResultsOf(line, w)
            /\ IF WritesOut(w) THEN exit \in {"0", "1"} ELSE exit = ExitOf(results)
      BY <3>1
    <3>3. exit = "0" => Earned
      <4>1. exit = "0" => all_pass(ResultsOf(line, w)) \/ WritesOut(w)
        BY <3>2 DEF ExitOf
      <4>. QED
        BY <2>1, <2>5, <3>1, <3>2, <4>1, GreenWorld
    <3>4. WritesOut(w) => SaidExit = "nothing"
      <4>1. WritesOut(w) => results = <<"Pass">>
        BY <3>2 DEF WritesOut, ResultsOf
      <4>. QED
        BY <4>1 DEF WritesOut, SaidExit
    <3>5. ~WritesOut(w) /\ SaidExit # "nothing" => exit = SaidExit
      <4>. SUFFICES ASSUME ~WritesOut(w) PROVE SaidExit # "nothing" => exit = SaidExit
        OBVIOUS
      <4>1. exit = ExitOf(results) /\ line.command \in Commands /\ line.command # "shape"
        BY <2>1, <2>5, <3>2 DEF CliTypeOK, Line, Asks
      <4>2. CASE line.command \in {"completeness", "orphans"}
        <5>1. results = <<w.found>>
          BY <3>2, <4>2 DEF ResultsOf
        <5>2. all_pass(results) <=> w.found = "Pass"
          BY <5>1, AllPassOfOne
        <5>. QED
          BY <4>1, <4>2, <5>1, <5>2 DEF SaidExit, print_completeness_human, print_orphans_human, ExitOf
      <4>3. CASE line.command = "gaps"
        <5>1. results = <<IF w.found = "Skipped" THEN "Skipped" ELSE "Pass">>
          BY <3>2, <4>3 DEF ResultsOf
        <5>2. all_pass(results) <=> w.found # "Skipped"
          BY <5>1, AllPassOfOne
        <5>. QED
          BY <4>1, <4>3, <5>1, <5>2 DEF SaidExit, ExitOf
      <4>4. CASE line.command \in {"account", "reconcile", "inspect"}
        BY <4>1, <4>4 DEF SaidExit, render_account, ExitOf
      <4>. QED
        BY <4>1, <4>2, <4>3, <4>4 DEF Commands
    <3>. QED
      BY <3>3, <3>4, <3>5 DEF GreenIsEarned
  <2>. QED
    BY <2>2, <2>3, <2>4, <2>5
<1>. QED
  BY <1>1, CourseInit, CourseStep, PTL DEF CliSpec
-----------------------------------------------------------------------------
(* The page.                                                               *)

LEMMA SpecsFound ==
  ASSUME NEW b, NEW name, NEW loaded
  PROVE  specOf(name, loaded) \subseteq Specs /\ findSpec(b, loaded) \subseteq Specs
  BY DEF specOf, findSpec

LEMMA CaseGivesBytes ==
  ASSUME NEW id \in Cases, id # "live", NEW loaded
  PROVE  CaseBytes(id, loaded) \in Bytes /\ CaseSpec(id, loaded) \subseteq Specs
<1>1. None \in Bytes
  BY DEF None, Bytes, Names
<1>2. ASSUME NEW len \in Nat PROVE payload("Obligation", len, loaded) \in Bytes
  BY DEF payload, specOf, Bytes, Names
<1>3. [name |-> "TransferHookPool", len |-> 424, body |-> "a"] \in Bytes
  BY DEF Bytes, Names
<1>4. CaseBytes(id, loaded) \in Bytes
  <2>1. CASE id = "healthy"
    BY <1>2, <2>1 DEF CaseBytes
  <2>2. CASE id = "empty"
    BY <1>1, <2>2 DEF CaseBytes
  <2>3. CASE id = "truncated"
    BY <1>2, <2>3 DEF CaseBytes
  <2>4. CASE id = "collision"
    BY <1>3, <2>4 DEF CaseBytes
  <2>. QED
    BY <2>1, <2>2, <2>3, <2>4 DEF Cases
<1>. QED
  BY <1>4, SpecsFound DEF CaseSpec

LEMMA DamageGivesBytes ==
  ASSUME NEW b \in Bytes, NEW d \in Damaged(b)
  PROVE  d \in Bytes
<1>1. b.len \in Nat /\ Truncated(b.len) \in Nat
  BY DEF Bytes, Truncated
<1>2. [b EXCEPT !.len = Truncated(b.len)] \in Bytes /\ [b EXCEPT !.len = 0] \in Bytes
  BY <1>1 DEF Bytes
<1>3. [b EXCEPT !.name = "flipped"] \in Bytes
  BY DEF Bytes, Names
<1>4. [b EXCEPT !.body = IF b.body = "a" THEN "b" ELSE "a"] \in Bytes
  BY DEF Bytes
<1>. QED
  BY <1>2, <1>3, <1>4 DEF Damaged

LEMMA FieldDrawn ==
  ASSUME NEW b \in Bytes, NEW fallback, NEW loaded, drawField(b, fallback, loaded)
  PROVE  /\ field' \in Seq(Drawing) /\ Len(field') <= 1 /\ field' # << >>
         /\ field'[1].of = b
         /\ field'[1].bar = "pass" <=> passesLength(b, DrawnSpec(b, fallback, loaded))
<1>. DEFINE drawn == [of |-> b, bar |-> IF passesLength(b, DrawnSpec(b, fallback, loaded))
                                         THEN "pass" ELSE "fail"]
<1>1. drawn \in Drawing /\ field' = <<drawn>>
  BY DEF drawField, Drawing
<1>2. drawn.of = b /\ (drawn.bar = "pass" <=> passesLength(b, DrawnSpec(b, fallback, loaded)))
  OBVIOUS
<1>. HIDE DEF drawn
<1>. QED
  BY <1>1, <1>2

\* The page's own length check and the crate's agree, whichever row the payload
\* falls back to: none is as short as a payload without a discriminator.
LEMMA BarIsShape ==
  ASSUME NEW b \in Bytes, NEW fallback \in SUBSET Specs
  PROVE  passesLength(b, DrawnSpec(b, fallback, TRUE)) <=> check_shape(b) = "pass"
<1>1. b.len \in Nat /\ \A s \in Specs : s.data_len \in Nat /\ s.data_len >= DiscLen
  BY ShapeAssumption, PageAssumption DEF ShapeAssumption, PageAssumption, Bytes
<1>2. CASE b.len < DiscLen
  <2>1. DrawnSpec(b, fallback, TRUE) = fallback
    BY <1>2 DEF DrawnSpec, findSpec
  <2>2. \A s \in fallback : ~Legal(s.len_rule, s.data_len, b.len)
    BY <1>1, <1>2 DEF Legal, DiscLen
  <2>. QED
    BY <1>2, <2>1, <2>2 DEF passesLength, check_shape
<1>3. CASE ~(b.len < DiscLen)
  <2>1. DrawnSpec(b, fallback, TRUE) = {s \in Specs : s.account_type = b.name}
    BY <1>3 DEF DrawnSpec, findSpec, specOf
  <2>2. CASE Registered(b.name)
    <3>. DEFINE spec == find_by_discriminator(b.name)
    <3>1. spec \in Specs /\ spec.account_type = b.name
      BY <2>2, RowOfType
    <3>2. DrawnSpec(b, fallback, TRUE) = {spec}
      BY <2>1, <3>1, ShapeAssumption DEF ShapeAssumption
    <3>3. check_shape(b) = "pass" <=> Legal(spec.len_rule, spec.data_len, b.len)
      BY <1>3, <2>2 DEF check_shape
    <3>. HIDE DEF spec
    <3>. QED
      BY <3>2, <3>3 DEF passesLength
  <2>3. CASE ~Registered(b.name)
    BY <1>3, <2>1, <2>3 DEF Registered, passesLength, check_shape
  <2>. QED
    BY <2>2, <2>3
<1>. QED
  BY <1>2, <1>3

\* What the exports return begins with the shape.
LEMMA ExportsBeginWithShape ==
  ASSUME NEW b \in Bytes, NEW row \in RowWorld, NEW withSlot
  PROVE  /\ shape_json(b) \in Seq(Statuses) /\ check_account_json(b, TRUE, row, withSlot) \in Seq(Statuses)
         /\ shape_json(b)[1] = "Pass" <=> check_shape(b) = "pass"
         /\ check_account_json(b, TRUE, row, withSlot)[1] = "Pass" <=> check_shape(b) = "pass"
<1>1. TRUE \in BOOLEAN /\ RowStatus(row, withSlot) \in Statuses
  BY RowPasses
<1>2. check_account_json(b, TRUE, row, withSlot) \in Seq(Statuses)
  BY <1>1, GatePasses DEF check_account_json
<1>3. check_account_json(b, TRUE, row, withSlot)[1] = "Pass" <=> check_shape(b) = "pass"
  BY DEF check_account_json, check_account
<1>4. shape_json(b) \in Seq(Statuses) /\ (shape_json(b)[1] = "Pass" <=> check_shape(b) = "pass")
  BY DEF shape_json, Statuses
<1>. QED
  BY <1>2, <1>3, <1>4

LEMMA PageTypeInit == PageInit => PageTypeOK
<1>. SUFFICES ASSUME PageInit PROVE PageTypeOK
  OBVIOUS
<1>1. None \in Bytes
  BY DEF None, Bytes, Names
<1>2. Idle \in Run
  BY <1>1 DEF Idle, Run
<1>3. field \in Seq(Drawing) /\ Len(field) = 0
  BY DEF PageInit
<1>4. Say("nothing") \in Output
  BY <1>1 DEF Say, Output
<1>5. case \in Cases /\ indexed \in Paste /\ run.step = "idle" /\ boot = "loading"
  BY <1>1 DEF PageInit, Cases, Paste, Idle
<1>. QED
  <2>1. run \in Run /\ shown \in Output /\ Len(field) <= 1
    BY <1>2, <1>3, <1>4 DEF PageInit
  <2>. QED
    BY <1>3, <1>5, <2>1 DEF PageTypeOK

\* The form is as given: what is drawn is typed, and no verdict stands.
LEMMA CaseChangedTyped ==
  ASSUME NEW id \in Cases, NEW paste \in Paste, NEW loaded, caseChanged(id, paste, loaded)
  PROVE  /\ field' \in Seq(Drawing) /\ Len(field') <= 1
         /\ shown' \in Output /\ shown'.says = "note"
<1>1. shown' \in Output /\ shown'.says = "note"
  <2>1. None \in Bytes /\ << >> \in Seq(Statuses)
    BY DEF None, Bytes, Names
  <2>2. shown' = Say("note")
    BY DEF caseChanged
  <2>. QED
    BY <2>1, <2>2 DEF Say, Output
<1>2. CASE id = "live"
  <2>1. field' = << >>
    BY <1>2 DEF caseChanged
  <2>. QED
    BY <1>1, <2>1
<1>3. CASE id # "live"
  <2>. DEFINE b == IF paste.state = "payload" THEN paste.bytes ELSE CaseBytes(id, loaded)
  <2>1. b \in Bytes
    BY <1>3, CaseGivesBytes DEF Paste
  <2>2. drawField(b, CaseSpec(id, loaded), loaded)
    BY <1>3 DEF caseChanged
  <2>. HIDE DEF b
  <2>. QED
    BY <1>1, <2>1, <2>2, FieldDrawn
<1>. QED
  BY <1>2, <1>3

\* The typing of the state and the property together are inductive: the run's
\* fallback is a row of the registry.
PageInv == PageTypeOK /\ FieldIsOfTheVerdict

LEMMA PageStep == PageInv /\ [PageNext]_pageVars => PageInv'
<1>. SUFFICES ASSUME PageInv, [PageNext]_pageVars PROVE PageInv'
  OBVIOUS
<1>1. /\ boot \in {"loading", "ready", "failed"} /\ case \in Cases /\ indexed \in Paste /\ run \in Run
      /\ field \in Seq(Drawing) /\ Len(field) <= 1 /\ shown \in Output
      /\ (run.step # "idle" => boot = "ready")
  BY DEF PageInv, PageTypeOK
<1>2. FieldIsOfTheVerdict
  BY DEF PageInv
<1>3. None \in Bytes /\ \A what : Say(what).says = what
  BY DEF None, Bytes, Names, Say
<1>4. Say("error") \in Output /\ Say("reading") \in Output /\ Idle \in Run /\ Idle.step = "idle"
  BY <1>3 DEF Say, Output, Idle, Run
<1>5. ASSUME renderError PROVE shown' \in Output /\ shown'.says = "error"
  BY <1>3, <1>4, <1>5 DEF renderError
<1>6. ASSUME Load PROVE PageInv'
  <2>1. CASE boot' = "ready" /\ caseChanged(case, indexed, TRUE)
    BY <1>1, <1>6, <2>1, CaseChangedTyped DEF Load, PageInv, PageTypeOK, FieldIsOfTheVerdict
  <2>2. CASE boot' = "failed" /\ renderError /\ UNCHANGED field
    BY <1>1, <1>5, <1>6, <2>2 DEF Load, PageInv, PageTypeOK, FieldIsOfTheVerdict
  <2>. QED
    BY <1>6, <2>1, <2>2 DEF Load
<1>7. ASSUME NEW id \in Cases, PickCase(id) PROVE PageInv'
  BY <1>1, <1>7, CaseChangedTyped DEF PickCase, PageInv, PageTypeOK, FieldIsOfTheVerdict
<1>8. ASSUME NEW paste \in Paste, PasteIn(paste) PROVE PageInv'
  BY <1>1, <1>8, CaseChangedTyped DEF PasteIn, PageInv, PageTypeOK, FieldIsOfTheVerdict
<1>9. ASSUME runConstructed PROVE PageInv'
  <2>1. UNCHANGED <<boot, case, indexed, run>> /\ case # "live"
    BY <1>9 DEF runConstructed
  <2>2. CASE indexed.state = "bad"
    BY <1>1, <1>5, <1>9, <2>1, <2>2 DEF runConstructed, PageInv, PageTypeOK, FieldIsOfTheVerdict
  <2>3. CASE indexed.state # "bad"
    <3>. DEFINE b == IF indexed.state = "payload" THEN indexed.bytes ELSE CaseBytes(case, TRUE)
    <3>1. b \in Bytes /\ CaseSpec(case, TRUE) \in SUBSET Specs
      BY <1>1, <2>1, CaseGivesBytes DEF Paste
    <3>2. drawField(b, CaseSpec(case, TRUE), TRUE) /\ renderResults(b, shape_json(b))
      BY <1>9, <2>3 DEF runConstructed
    <3>. HIDE DEF b
    <3>3. shape_json(b) \in Seq(Statuses) /\ (shape_json(b)[1] = "Pass" <=> check_shape(b) = "pass")
      BY DEF shape_json, Statuses
    <3>4. shown' \in Output /\ shown'.of = b /\ shown'.results = shape_json(b)
      BY <3>1, <3>2, <3>3 DEF renderResults, Output
    <3>5. /\ field' \in Seq(Drawing) /\ Len(field') <= 1 /\ field' # << >> /\ field'[1].of = b
          /\ field'[1].bar = "pass" <=> check_shape(b) = "pass"
      BY <3>1, <3>2, FieldDrawn, BarIsShape
    <3>. QED
      BY <1>1, <2>1, <3>3, <3>4, <3>5 DEF PageInv, PageTypeOK, FieldIsOfTheVerdict
  <2>. QED
    BY <2>2, <2>3
<1>10. ASSUME Refuse PROVE PageInv'
  BY <1>1, <1>5, <1>10 DEF Refuse, PageInv, PageTypeOK, FieldIsOfTheVerdict
<1>11. ASSUME runLive PROVE PageInv'
  <2>1. run' \in Run
    <3>1. PICK slot \in BOOLEAN :
            run' = IF indexed.state = "payload"
                     THEN [Idle EXCEPT !.step = "second read", !.bytes = indexed.bytes, !.slot = slot]
                     ELSE [Idle EXCEPT !.step = "first read", !.slot = slot]
      BY <1>11 DEF runLive
    <3>2. indexed.bytes \in Bytes
      BY <1>1 DEF Paste
    <3>. QED
      BY <1>4, <3>1, <3>2 DEF Run
  <2>2. shown' \in Output /\ shown'.says = "reading"
    BY <1>3, <1>4, <1>11 DEF runLive
  <2>3. boot = "ready" /\ UNCHANGED <<boot, case, indexed, field>>
    BY <1>11 DEF runLive
  <2>. QED
    BY <1>1, <2>1, <2>2, <2>3 DEF PageInv, PageTypeOK, FieldIsOfTheVerdict
<1>12. ASSUME NEW b \in Stored, FirstRead(b) PROVE PageInv'
  <2>1. PICK d \in Damaged(b) :
          run' = [run EXCEPT !.step = "second read", !.bytes = d, !.fallback = findSpec(b, TRUE)]
    BY <1>12 DEF FirstRead
  <2>2. d \in Bytes /\ findSpec(b, TRUE) \in SUBSET Specs
    BY PageAssumption, DamageGivesBytes, SpecsFound DEF PageAssumption
  <2>3. run' \in Run
    BY <1>1, <2>1, <2>2 DEF Run
  <2>4. run.step = "first read" /\ UNCHANGED <<boot, case, indexed, field, shown>>
    BY <1>12 DEF FirstRead
  <2>. QED
    BY <1>1, <1>2, <2>3, <2>4 DEF PageInv, PageTypeOK, FieldIsOfTheVerdict
<1>13. ASSUME ReadFails PROVE PageInv'
  BY <1>1, <1>4, <1>5, <1>13 DEF ReadFails, PageInv, PageTypeOK, FieldIsOfTheVerdict
<1>14. ASSUME NEW answer \in Answers, NEW excused \in BOOLEAN, SecondRead(answer, excused) PROVE PageInv'
  <2>. DEFINE row == [answer |-> answer, excused |-> excused]
              found == check_account_json(run.bytes, TRUE, row, run.slot)
  <2>1. row \in RowWorld
    BY DEF Answers, RowWorld
  <2>2. run.bytes \in Bytes /\ run.fallback \in SUBSET Specs
    BY <1>1 DEF Run
  <2>3. drawField(run.bytes, run.fallback, TRUE) /\ renderResults(run.bytes, found)
        /\ run' = Idle /\ UNCHANGED <<boot, case, indexed>>
    BY <1>14 DEF SecondRead
  <2>4. found \in Seq(Statuses) /\ (found[1] = "Pass" <=> check_shape(run.bytes) = "pass")
    BY <2>1, <2>2, ExportsBeginWithShape
  <2>. HIDE DEF row, found
  <2>5. shown' \in Output /\ shown'.of = run.bytes /\ shown'.results = found
    BY <2>2, <2>3, <2>4 DEF renderResults, Output
  <2>6. /\ field' \in Seq(Drawing) /\ Len(field') <= 1 /\ field' # << >> /\ field'[1].of = run.bytes
        /\ field'[1].bar = "pass" <=> check_shape(run.bytes) = "pass"
    BY <2>2, <2>3, FieldDrawn, BarIsShape
  <2>. QED
    BY <1>1, <1>4, <2>3, <2>4, <2>5, <2>6 DEF PageInv, PageTypeOK, FieldIsOfTheVerdict
<1>15. CASE UNCHANGED pageVars
  BY <1>1, <1>2, <1>15 DEF pageVars, PageInv, PageTypeOK, FieldIsOfTheVerdict
<1>16. ASSUME NEW b \in Pastes, NEW state \in {"none", "bad", "payload"}
       PROVE  [state |-> state, bytes |-> IF state = "payload" THEN b ELSE None] \in Paste
  BY <1>3, PageAssumption DEF PageAssumption, Paste
<1>. QED
  BY <1>6, <1>7, <1>8, <1>9, <1>10, <1>11, <1>12, <1>13, <1>14, <1>15, <1>16 DEF PageNext, Submit

LEMMA PageInitInv == PageInit => PageInv
  BY PageTypeInit DEF PageInv, PageInit, FieldIsOfTheVerdict, Say

\* The page's state is well typed: no run is out before the registry is there.
THEOREM PageTypeCorrect == PageSpec => []PageTypeOK
<1>1. PageInv => PageTypeOK
  BY DEF PageInv
<1>. QED
  BY <1>1, PageInitInv, PageStep, PTL DEF PageSpec

\* The bar next to a verdict is that of the verdict's bytes and says of them what
\* the shape does, for every registry and account and whatever is picked, pasted
\* or damaged while a run is out.
THEOREM PageDrawsItsVerdict == PageSpec => []FieldIsOfTheVerdict
<1>1. PageInv => FieldIsOfTheVerdict
  BY DEF PageInv
<1>. QED
  BY <1>1, PageInitInv, PageStep, PTL DEF PageSpec
-----------------------------------------------------------------------------
(* The front ends side by side.                                            *)

\* Each program runs as its own specification says, whatever the others do.
THEOREM EachAsSpecified == Spec => McpSpec /\ CliSpec /\ CarbonSpec /\ PageSpec
<1>1. Init => McpInit /\ CliInit /\ CarbonInit /\ PageInit
  BY DEF Init
<1>2. [Next]_vars =>
        [McpNext]_mcpVars /\ [CliNext]_cliVars /\ [CarbonNext]_carbonVars /\ [PageNext]_pageVars
  <2>. SUFFICES ASSUME [Next]_vars
                PROVE  [McpNext]_mcpVars /\ [CliNext]_cliVars /\ [CarbonNext]_carbonVars /\ [PageNext]_pageVars
    OBVIOUS
  <2>1. CASE McpRuns
    <3>1. UNCHANGED env
      BY <2>1 DEF McpRuns, McpNext, ServeStep, ClientWrites, ClientCloses, ClientGoes, ClientStalls, ClientReadsOn,
                  ReadBlank, ReadBad, ReadCut, ReadEof, ReadNote, ReadRequest, ReadCall, CallAnswered
    <3>. QED
      BY <2>1, <3>1 DEF McpRuns, onlyCli, cliVars
  <2>2. CASE CliRuns
    <3>1. UNCHANGED env
      BY <2>2 DEF CliRuns, CliNext, Parse, BailOut, EndOffline, GoOnline, Answer, WriteOut
    <3>. QED
      BY <2>2, <3>1 DEF CliRuns, onlyMcp, mcpVars
  <2>3. CASE CarbonRuns
    BY <2>3 DEF CarbonRuns, mcpVars, onlyCli, cliVars
  <2>4. CASE PageRuns
    BY <2>4 DEF PageRuns, mcpVars, onlyCli, cliVars
  <2>5. CASE UNCHANGED vars
    BY <2>5 DEF vars
  <2>. QED
    BY <2>1, <2>2, <2>3, <2>4, <2>5 DEF Next
<1>. QED
  BY <1>1, <1>2, PTL DEF Spec, McpSpec, CliSpec, CarbonSpec, PageSpec

\* The composition's state is well typed.
THEOREM FrontsTypeCorrect == Spec => []FrontsTypeOK
<1>1. Spec => []McpTypeOK /\ []CliTypeOK /\ []CarbonTypeOK /\ []PageTypeOK
  BY EachAsSpecified, McpTypeCorrect, CliTypeCorrect, CarbonTypeCorrect, PageTypeCorrect
<1>2. Init => surface \in {"mcp", "cli", "carbon", "page"}
  BY DEF Init
<1>3. surface \in {"mcp", "cli", "carbon", "page"} /\ [Next]_vars => (surface \in {"mcp", "cli", "carbon", "page"})'
  BY DEF Next, McpRuns, CliRuns, CarbonRuns, PageRuns, vars
<1>4. Spec => [](surface \in {"mcp", "cli", "carbon", "page"})
  BY <1>2, <1>3, PTL DEF Spec
<1>5. surface \in {"mcp", "cli", "carbon", "page"} /\ McpTypeOK /\ CliTypeOK /\ CarbonTypeOK /\ PageTypeOK
        => FrontsTypeOK
  BY DEF FrontsTypeOK
<1>. QED
  BY <1>1, <1>4, <1>5, PTL
-----------------------------------------------------------------------------
(* The tools and the commands.                                             *)

LEMMA OnlyUrlsAnswer ==
  ASSUME NEW e, NEW w \in WorldsAt(e, 1)
  PROVE  e # "url" => w.found = "Skipped" /\ w.rows[1].answer = "no answer"
<1>1. 1 \in 1..1
  OBVIOUS
<1>. QED
  BY <1>1 DEF WorldsAt

\* Where a command and its tool look for the endpoint.
LEMMA SameEndpoint ==
  ASSUME CliTypeOK, line.url # "blank"
  PROVE  /\ rpc_url_from(line.url) = "url" <=> UrlOf(line) = "url"
         /\ rpc_url_from(line.url) \in {"url", "none"}
         /\ UrlOf(line) = "url" => HasFetcher
<1>1. line.url \in Endpoints /\ env \in Endpoints
  BY DEF CliTypeOK, Line
<1>. QED
  BY <1>1 DEF rpc_url_from, UrlOf, HasFetcher, Endpoints

\* The tools' answers to what a command was given.
LEMMA ToolSaysOk ==
  ASSUME CliTypeOK, Shared(line), NEW w \in WorldsAt(UrlOf(line), 1)
  PROVE  ToolSays(AskOf(line), w) = "ok" <=>
           /\ UrlOf(line) = "url"
           /\ line.command = "account" =>
                Decodes(line) /\ check_shape(line.data) = "pass" /\ w.rows[1].answer = "same bytes"
           /\ line.command = "inspect" =>
                /\ Decodes(line) /\ w.found = "Pass"
                /\ line.copies # << >> => w.rows[1].answer = "same bytes"
           /\ line.command = "gaps" => line.window = "forward" /\ w.found # "Skipped"
<1>. DEFINE ask == AskOf(line)
            copy == IF line.copies = << >> THEN "none" ELSE line.copies[1]
            withSlot == ask.slot = "integer"
            url == rpc_url_from(line.url)
<1>1. line \in Line /\ line.command \in {"inspect", "account", "gaps"} /\ line.url # "blank"
  BY DEF CliTypeOK, Shared, ToolOf
<1>2. /\ ask.tool = ToolOf[line.command] /\ ask.object = TRUE /\ ask.account = (line.accounts = 1)
      /\ ask.copy = copy /\ ask.data = line.data /\ ask.slot \in {"integer", "none"} /\ ask.lag = "none"
      /\ ask.url = line.url /\ ask.range = line.window
  BY DEF AskOf
<1>3. url \in {"url", "none"} /\ (url = "url" <=> UrlOf(line) = "url")
  BY <1>1, SameEndpoint
<1>4. /\ w.rows[1] \in RowWorld /\ w.found \in Statuses
      /\ UrlOf(line) # "url" => w.found = "Skipped" /\ w.rows[1].answer = "no answer"
  <2>1. w \in Worlds(1)
    BY WorldsAtAreWorlds
  <2>2. 1 \in 1..1 /\ 1 \in Nat
    OBVIOUS
  <2>3. w.rows[1] \in RowWorld /\ w.found \in Statuses
    BY <2>1, <2>2, WorldHasRows
  <2>4. UrlOf(line) # "url" => w.found = "Skipped" /\ w.rows[1].answer = "no answer"
    BY OnlyUrlsAnswer
  <2>. QED
    BY <2>3, <2>4
<1>5. RowStatus(w.rows[1], withSlot) \in Statuses
      /\ (RowStatus(w.rows[1], withSlot) = "Pass" <=> w.rows[1].answer = "same bytes")
  BY <1>4, RowPasses
<1>6. line.command \in {"inspect", "account"} =>
        line.accounts = 1 /\ Len(line.copies) <= 1 /\ (line.command = "account" => line.copies # << >>)
  BY DEF Shared, Parses
<1>7. line.command \in {"inspect", "account"} =>
        (Decodes(line) <=> copy # "not base64") /\ copy \in {"none", "base64", "not base64"}
        /\ (copy = "none" <=> line.copies = << >>)
  <2>1. /\ line.copies \in Seq({"base64", "not base64"})
    BY <1>1 DEF Line
  <2>2. \A S : \A c \in Seq(S) : Len(c) <= 1 =>
          \/ c = << >> /\ DOMAIN c = {}
          \/ c # << >> /\ DOMAIN c = {1} /\ c[1] \in S
    <3>1. TAKE S
    <3>2. TAKE c \in Seq(S)
    <3>3. Len(c) \in Nat /\ DOMAIN c = 1..Len(c) /\ (c = << >> <=> Len(c) = 0) /\ \A i \in 1..Len(c) : c[i] \in S
      OBVIOUS
    <3>4. HAVE Len(c) <= 1
    <3>5. CASE Len(c) = 0
      BY <3>3, <3>5
    <3>6. CASE Len(c) = 1
      BY <3>3, <3>6
    <3>. QED
      BY <3>3, <3>4, <3>5, <3>6
  <2>3. Len(line.copies) <= 1 =>
          \/ line.copies = << >> /\ DOMAIN line.copies = {}
          \/ /\ line.copies # << >> /\ DOMAIN line.copies = {1}
             /\ line.copies[1] \in {"base64", "not base64"}
    BY <2>1, <2>2
  <2>. QED
    BY <1>6, <2>3 DEF Decodes
<1>. HIDE DEF ask, copy, withSlot, url
<1>8. CASE line.command = "account"
  <2>1. ask.tool = "check_account"
    BY <1>2, <1>8 DEF ToolOf
  <2>2. Refused(ask) <=> ~Decodes(line)
    BY <1>2, <1>6, <1>7, <1>8, <2>1 DEF Refused
  <2>. DEFINE checked == check_account(ask.data, url = "url", RowStatus(w.rows[1], withSlot))
  <2>3. all_pass(checked) <=>
          check_shape(line.data) = "pass" /\ url = "url" /\ RowStatus(w.rows[1], withSlot) = "Pass"
    <3>1. (url = "url") \in BOOLEAN
      OBVIOUS
    <3>. QED
      BY <1>2, <1>5, <3>1, GatePasses
  <2>. HIDE DEF checked
  <2>4. ToolSays(ask, w) = "ok" <=> ~Refused(ask) /\ all_pass(checked)
    <3>1. Refused(ask) => ToolSays(ask, w) = "error"
      BY DEF ToolSays
    <3>2. ~Refused(ask) => ToolSays(ask, w) = IF all_pass(checked) THEN "ok" ELSE "tool error"
      BY <1>2, <2>1 DEF ToolSays, checked, url, withSlot
    <3>. QED
      BY <3>1, <3>2
  <2>. QED
    BY <1>3, <1>5, <1>8, <2>2, <2>3, <2>4 DEF ask
<1>9. CASE line.command = "inspect"
  <2>1. ask.tool = "inspect_account"
    BY <1>2, <1>9 DEF ToolOf
  <2>2. Refused(ask) <=> ~Decodes(line) \/ url = "none"
    BY <1>2, <1>6, <1>7, <1>9, <2>1 DEF Refused, url
  <2>3. InspectOk(w, ask.copy = "base64", withSlot) <=>
          w.found = "Pass" /\ (copy = "base64" => w.rows[1].answer = "same bytes")
    BY <1>2, <1>5 DEF InspectOk
  <2>4. ToolSays(ask, w) = "ok" <=>
          ~Refused(ask) /\ w.found # "Skipped" /\ InspectOk(w, ask.copy = "base64", withSlot)
    BY <2>1 DEF ToolSays, withSlot
  <2>. QED
    BY <1>3, <1>7, <1>9, <2>2, <2>3, <2>4 DEF ask
<1>10. CASE line.command = "gaps"
  <2>1. ask.tool = "find_gaps"
    BY <1>2, <1>10 DEF ToolOf
  <2>2. Refused(ask) <=> line.window # "forward" \/ url = "none"
    BY <1>2, <2>1 DEF Refused, url
  <2>3. ToolSays(ask, w) = "ok" <=> ~Refused(ask) /\ w.found # "Skipped"
    BY <2>1 DEF ToolSays
  <2>. QED
    BY <1>3, <1>10, <2>2, <2>3 DEF ask
<1>. QED
  BY <1>1, <1>8, <1>9, <1>10

\* The tools, the commands and the page come to the same answer, for every line,
\* environment, registry and world.
THEOREM FrontsGiveTheSameAnswer == CliSpec => []SameAnswer
<1>1. Course => SameAnswer
  <2>. SUFFICES ASSUME Course, stage = "end",
                       NEW w \in IF got = {} THEN WorldsAt(UrlOf(line), 1) ELSE got
                PROVE  /\ Shared(line) => (ToolSays(AskOf(line), w) = "ok" <=> exit = "0")
                       /\ line.command \in {"shape", "account"} /\ Parses(line) /\ Accepts(line) =>
                            (PageIsGreen(line, w) <=> exit = "0")
    BY DEF SameAnswer
  <2>1. CliTypeOK /\ line \in Lines /\ line \in Line
    BY DEF Course, CliTypeOK
  <2>2. line.command \in {"shape", "account", "inspect", "gaps"} => RowsOf(line) = 1
    BY <2>1, RowsOfIsNat
  <2>3. line.command \in {"shape", "account", "inspect", "gaps"} => w \in WorldsAt(UrlOf(line), 1)
    <3>1. got = {} \/ \E x \in Reachable : got = {x}
      BY DEF Course
    <3>. QED
      BY <2>2, <3>1 DEF Reachable
  <2>4. ASSUME Shared(line) PROVE ToolSays(AskOf(line), w) = "ok" <=> exit = "0"
    <3>1. line.command \in {"account", "inspect", "gaps"} /\ Parses(line) /\ ~line.out /\ line.url # "blank"
      BY <2>4 DEF Shared, ToolOf
    <3>. DEFINE ok == ToolSays(AskOf(line), w) = "ok"
    <3>2. ok <=>
           /\ UrlOf(line) = "url"
           /\ line.command = "account" =>
                Decodes(line) /\ check_shape(line.data) = "pass" /\ w.rows[1].answer = "same bytes"
           /\ line.command = "inspect" =>
                /\ Decodes(line) /\ w.found = "Pass"
                /\ line.copies # << >> => w.rows[1].answer = "same bytes"
           /\ line.command = "gaps" => line.window = "forward" /\ w.found # "Skipped"
      BY <2>1, <2>3, <2>4, <3>1, ToolSaysOk
    <3>. HIDE DEF ok
    <3>3. Accepts(line) <=>
            /\ line.command \in {"account", "inspect"} => Decodes(line)
            /\ line.command = "gaps" => line.window = "forward"
      BY <3>1 DEF Accepts
    <3>4. CASE ~Accepts(line)
      <4>1. exit = "1"
        BY <3>1, <3>4 DEF Course
      <4>. QED
        BY <3>1, <3>2, <3>3, <3>4, <4>1 DEF ok
    <3>5. CASE Accepts(line) /\ ~Asks(line)
      <4>1. line.command = "account" /\ ~(check_shape(line.data) = "pass" /\ HasFetcher)
        BY <3>1, <3>5 DEF Asks, AsksChain
      <4>2. exit = ExitOf(OfflineResults(line))
        BY <3>1, <3>5 DEF Course
      <4>3. ~all_pass(OfflineResults(line))
        <5>1. HasFetcher \in BOOLEAN /\ "Skipped" \in Statuses
          BY DEF HasFetcher, Statuses
        <5>. QED
          BY <4>1, <5>1, GatePasses DEF OfflineResults
      <4>4. exit = "1"
        BY <4>2, <4>3 DEF ExitOf
      <4>. QED
        BY <2>1, <3>1, <3>2, <4>1, <4>4, SameEndpoint DEF ok
    <3>6. CASE Accepts(line) /\ Asks(line)
      <4>1. w \in Reachable /\ exit = ExitOf(ResultsOf(line, w))
        BY <3>1, <3>6 DEF Course, WritesOut
      <4>2. exit = "0" <=> all_pass(ResultsOf(line, w))
        BY <4>1 DEF ExitOf
      <4>3. UrlOf(line) # "url" => w.found = "Skipped" /\ w.rows[1].answer = "no answer"
        BY <2>3, <3>1, OnlyUrlsAnswer
      <4>4. line.command = "account" => check_shape(line.data) = "pass" /\ HasFetcher
        BY <3>6 DEF Asks, AsksChain
      <4>5. CASE line.command = "account"
        BY <2>1, <3>1, <3>2, <3>3, <3>6, <4>1, <4>2, <4>3, <4>4, <4>5, PassedInWorld DEF ok
      <4>6. CASE line.command = "inspect"
        BY <2>1, <3>1, <3>2, <3>3, <3>6, <4>1, <4>2, <4>3, <4>6, PassedInWorld DEF ok
      <4>7. CASE line.command = "gaps"
        BY <2>1, <3>1, <3>2, <3>3, <3>6, <4>1, <4>2, <4>3, <4>7, PassedInWorld DEF ok
      <4>. QED
        BY <3>1, <4>5, <4>6, <4>7
    <3>. QED
      BY <3>4, <3>5, <3>6
  <2>5. ASSUME line.command \in {"shape", "account"}, Parses(line), Accepts(line)
        PROVE  PageIsGreen(line, w) <=> exit = "0"
    <3>1. CASE line.command = "shape"
      <4>1. exit = ExitOf(OfflineResults(line))
        BY <2>5, <3>1 DEF Course, Asks
      <4>. QED
        BY <3>1, <4>1 DEF PageIsGreen, shape_json, OfflineResults, ExitOf
    <3>2. CASE line.command = "account"
      <4>1. w.rows[1] \in RowWorld
        <5>1. w \in Worlds(1) /\ 1 \in Nat /\ 1 \in 1..1
          BY <2>3, <3>2, WorldsAtAreWorlds
        <5>. QED
          BY <5>1, WorldHasRows
      <4>. DEFINE fetched == w.rows[1].answer # "no answer"
                  status == RowStatus(w.rows[1], line.slots > 0)
      <4>2. status \in Statuses /\ (status = "Pass" <=> w.rows[1].answer = "same bytes")
        BY <4>1, RowPasses
      <4>3. PageIsGreen(line, w) <=> all_pass(check_account(line.data, fetched, status))
        BY <3>2 DEF PageIsGreen, check_account_json
      <4>4. fetched \in BOOLEAN
        OBVIOUS
      <4>5. all_pass(check_account(line.data, fetched, status)) <=>
              check_shape(line.data) = "pass" /\ fetched /\ status = "Pass"
        BY <4>2, <4>4, GatePasses
      <4>6. PageIsGreen(line, w) <=> check_shape(line.data) = "pass" /\ w.rows[1].answer = "same bytes"
        BY <4>2, <4>3, <4>5
      <4>. HIDE DEF fetched, status
      <4>7. CASE ~Asks(line)
        <5>1. exit = ExitOf(OfflineResults(line))
          BY <2>5, <4>7 DEF Course
        <5>2. ~(check_shape(line.data) = "pass" /\ HasFetcher)
          BY <3>2, <4>7 DEF Asks, AsksChain
        <5>3. ~all_pass(OfflineResults(line))
          <6>1. HasFetcher \in BOOLEAN /\ "Skipped" \in Statuses
            BY DEF HasFetcher, Statuses
          <6>. QED
            BY <3>2, <5>2, <6>1, GatePasses DEF OfflineResults
        <5>4. ~HasFetcher => w.rows[1].answer = "no answer"
          <6>1. ~HasFetcher => UrlOf(line) # "url"
            BY DEF HasFetcher
          <6>2. w \in WorldsAt(UrlOf(line), 1)
            BY <2>3, <3>2
          <6>. QED
            BY <6>1, <6>2, OnlyUrlsAnswer
        <5>. QED
          BY <4>6, <5>1, <5>2, <5>3, <5>4 DEF ExitOf
      <4>8. CASE Asks(line)
        <5>1. w \in Reachable /\ exit = ExitOf(ResultsOf(line, w))
          BY <2>5, <3>2, <4>8 DEF Course, WritesOut
        <5>2. check_shape(line.data) = "pass" /\ HasFetcher
          BY <3>2, <4>8 DEF Asks, AsksChain
        <5>3. all_pass(ResultsOf(line, w)) <=> w.rows[1].answer = "same bytes"
          BY <2>1, <2>5, <3>2, <4>8, <5>1, <5>2, PassedInWorld
        <5>. QED
          BY <4>6, <5>1, <5>2, <5>3 DEF ExitOf
      <4>. QED
        BY <4>7, <4>8
    <3>. QED
      BY <2>5, <3>1, <3>2
  <2>. QED
    BY <2>4, <2>5
<1>. QED
  BY <1>1, CourseInit, CourseStep, PTL DEF CliSpec
=============================================================================
