-------------------------------- MODULE Shape --------------------------------
(***************************************************************************)
(* The account registry and check_shape over it.                           *)
(*                                                                         *)
(* A discriminator is sha256("account:<struct name>")[..8], for every row  *)
(* of the registry too, so the struct name stands for it: two programs     *)
(* that name a struct alike share it.  Of a payload, shape reads the       *)
(* discriminator and the length.                                           *)
(***************************************************************************)
EXTENDS Naturals, Sequences

CONSTANTS Programs,   \* PROGRAMS, by name
          Specs       \* the rows of all account tables

LenRules == {"Exact", "AtLeast"}

LenEra == [from_slot : Nat, data_len : Nat, len_rule : LenRules]

\* discriminators_are_unique_across_programs, every_spec_belongs_to_a_registered_program
ASSUME ShapeAssumption ==
  /\ \A s \in Specs : /\ s.program \in Programs
                      /\ s.data_len \in Nat /\ s.len_rule \in LenRules
                      /\ s.len_eras \in Seq(LenEra)
  /\ \A s, t \in Specs : s.account_type = t.account_type => s = t

Payload == [name : STRING, len : Nat]

\* The bytes of a discriminator.
DiscLen == 8

Registered(name) == \E s \in Specs : s.account_type = name

find_by_discriminator(name) == CHOOSE s \in Specs : s.account_type = name

Legal(rule, declared, len) ==
  IF rule = "Exact" THEN len = declared ELSE len >= declared

\* Slip: a minimum is taken for the one legal length.
check_shape_exact(data) ==
  IF data.len < DiscLen THEN "too short"
  ELSE IF ~Registered(data.name) THEN "unknown discriminator"
  ELSE IF data.len = find_by_discriminator(data.name).data_len THEN "pass" ELSE "wrong length"

check_shape(data) ==
  IF data.len < DiscLen THEN "too short"
  ELSE IF ~Registered(data.name) THEN "unknown discriminator"
  ELSE LET spec == find_by_discriminator(data.name) IN
       IF Legal(spec.len_rule, spec.data_len, data.len) THEN "pass" ELSE "wrong length"

Owned(program, name) ==
  \E s \in Specs : s.program = program /\ s.account_type = name

find_owned(program, name) ==
  CHOOSE s \in Specs : s.program = program /\ s.account_type = name
-----------------------------------------------------------------------------
(* A type whose length changed at upgrades has a list of eras, each from   *)
(* a slot on, in ascending order.  check_shape has no slot and judges by   *)
(* the row's own rule, which is the current one.                           *)

Begun(eras, slot) == {i \in DOMAIN eras : eras[i].from_slot <= slot}

\* The last era at or before the slot; before all of them, the first.
len_at(spec, slot) ==
  LET eras == spec.len_eras IN
  IF eras = << >> THEN [data_len |-> spec.data_len, len_rule |-> spec.len_rule]
  ELSE IF Begun(eras, slot) = {}
         THEN [data_len |-> eras[1].data_len, len_rule |-> eras[1].len_rule]
  ELSE LET i == CHOOSE i \in Begun(eras, slot) : \A j \in Begun(eras, slot) : j <= i IN
       [data_len |-> eras[i].data_len, len_rule |-> eras[i].len_rule]
=============================================================================
