-------------------------------- MODULE Layout --------------------------------
(***************************************************************************)
(* The field layouts, and what inspect_raw makes of an account's bytes by  *)
(* the row its owner has for them.                                         *)
(***************************************************************************)
EXTENDS Shape

CONSTANT Layouts     \* LAYOUTS, the fields of each as a set

FieldKinds == {"Pubkey", "U8", "U16", "I32", "U64", "U128"}

width(kind) ==
  CASE kind = "Pubkey" -> 32 [] kind = "U8" -> 1 [] kind = "U16" -> 2
    [] kind = "I32" -> 4 [] kind = "U64" -> 8 [] kind = "U128" -> 16

Field == [name : STRING, offset : Nat, kind : FieldKinds]

FieldEnd(field) == field.offset + width(field.kind)

LayoutOf(layout, spec) ==
  layout.program = spec.program /\ layout.account_type = spec.account_type

\* every_layout_names_a_registered_type_and_fits_inside_it,
\* fields_within_a_layout_do_not_overlap
ASSUME LayoutAssumption ==
  \A layout \in Layouts :
    /\ layout.fields \subseteq Field
    /\ \E spec \in Specs : LayoutOf(layout, spec)
    /\ \A spec \in Specs : LayoutOf(layout, spec) =>
         \A f \in layout.fields : DiscLen <= f.offset /\ FieldEnd(f) <= spec.data_len
    /\ \A f, g \in layout.fields : f # g => FieldEnd(f) <= g.offset \/ FieldEnd(g) <= f.offset

\* decode is Ok: every field lies within the bytes.
decode(layout, len) == \A f \in layout.fields : FieldEnd(f) <= len

\* The verdict the bytes alone support, for an account of a registered program
\* read at the slot; a type with no layout has no fields to decode.
ClassOf(program, data, slot) ==
  IF data.len < DiscLen \/ ~Owned(program, data.name) THEN "unknown_layout"
  ELSE LET spec == find_owned(program, data.name)
           rule == len_at(spec, slot)
       IN
       IF ~Legal(rule.len_rule, rule.data_len, data.len) THEN "layout_mismatch"
       ELSE IF \E l \in Layouts : LayoutOf(l, spec) /\ ~decode(l, data.len) THEN "layout_mismatch"
       ELSE "decodes"
=============================================================================
