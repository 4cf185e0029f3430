------------------------------ MODULE FfiDecode ------------------------------
(***************************************************************************)
(* The foreign-function boundary: what each handler of flash_api.cpp binds *)
(* and how the header it is built with (xla/ffi/api) decodes a call frame. *)
(*                                                                         *)
(* A buffer is its element type and dimensions.  A frame is a record of    *)
(* args and rets, sequences of buffers, and attrs, a sequence of records   *)
(* name, type, value, which the runtime passes in the order of the names.  *)
(***************************************************************************)
EXTENDS Integers, Sequences, FiniteSets

Buf(dtype, dims)        == [dtype |-> dtype, dims |-> dims]
Attr(name, type, value) == [name |-> name, type |-> type, value |-> value]
Bound(name, type)       == [name |-> name, type |-> type]

AttrOrder == <<"deterministic", "is_causal", "max_seqlen_k", "max_seqlen_q",
               "softmax_scale", "window_size_left", "window_size_right",
               "zero_tensors">>                       \* alphabetical
Rank(name) == CHOOSE i \in DOMAIN AttrOrder : AttrOrder[i] = name

-----------------------------------------------------------------------------
(* The bindings: "any" is AnyBuffer, a type a Buffer of that type.         *)
Window == <<Bound("window_size_left", "S64"), Bound("window_size_right", "S64")>>

MhaFwd ==
  [args |-> <<"any", "any", "any">>, optional |-> << >>,
   rets |-> <<"any", "F32", "F32", "F32">>,
   attrs |-> <<Bound("softmax_scale", "F64"), Bound("is_causal", "PRED")>> \o Window]

MhaBwd ==
  [args |-> <<"any", "any", "any", "any", "any", "F32">>, optional |-> << >>,
   rets |-> <<"any", "any", "any", "F32", "F32">>,
   attrs |-> <<Bound("softmax_scale", "F64"), Bound("is_causal", "PRED")>>
             \o Window \o <<Bound("deterministic", "PRED")>>]

MhaVarlenFwd ==
  [args |-> <<"any", "any", "any", "S32", "S32">>, optional |-> <<"S32">>,
   rets |-> <<"any", "F32", "F32", "F32">>,
   attrs |-> <<Bound("max_seqlen_q", "S32"), Bound("max_seqlen_k", "S32"),
               Bound("softmax_scale", "F64"), Bound("zero_tensors", "PRED"),
               Bound("is_causal", "PRED")>> \o Window]

MhaVarlenBwd ==
  [args |-> <<"any", "any", "any", "any", "any", "F32", "S32", "S32">>,
   optional |-> << >>,
   rets |-> <<"any", "any", "any", "F32", "F32">>,
   attrs |-> <<Bound("max_seqlen_q", "S64"), Bound("max_seqlen_k", "S64"),
               Bound("softmax_scale", "F32"), Bound("zero_tensors", "PRED"),
               Bound("is_causal", "PRED")>>
             \o Window \o <<Bound("deterministic", "PRED")>>]

-----------------------------------------------------------------------------
(* Handler::Call.  Without an optional argument the number is exact; with  *)
(* one it is a lower bound.                                                *)
CountsMatch(h, f) ==
  /\ IF h.optional = << >> THEN Len(f.args) = Len(h.args)
                           ELSE Len(f.args) >= Len(h.args)
  /\ Len(f.rets) = Len(h.rets)
  /\ Len(f.attrs) = Len(h.attrs)

Accepts(type, buf) == type \in {"any", buf.dtype}

(* An optional argument that does not decode counts as not passed: the     *)
(* result of its decoding, an empty optional, becomes the value of the     *)
(* engaged optional that says the operand has been decoded.                *)
OptionalGiven(h, f) ==
  /\ h.optional # << >> /\ Len(f.args) > Len(h.args)
  /\ Accepts(h.optional[1], f.args[Len(h.args) + 1])

(* Where the constructor expects the i-th bound attribute: its place among *)
(* the sorted names.                                                       *)
AttrIdx(h, i) ==
  1 + Cardinality({j \in DOMAIN h.attrs : Rank(h.attrs[j].name) < Rank(h.attrs[i].name)})

AttrDecodes(h, f, i) ==
  LET a == f.attrs[AttrIdx(h, i)]
  IN  a.name = h.attrs[i].name /\ a.type = h.attrs[i].type

(* The value the implementation receives for an attribute.                 *)
Value(h, f, name) ==
  LET i == CHOOSE j \in DOMAIN h.attrs : h.attrs[j].name = name
  IN  f.attrs[AttrIdx(h, i)].value

(* All operands are decoded, whichever fails, and the implementation is    *)
(* called only if none did.                                                *)
Decodes(h, f) ==
  /\ CountsMatch(h, f)
  /\ \A i \in DOMAIN h.args : Accepts(h.args[i], f.args[i])
  /\ \A i \in DOMAIN h.rets : Accepts(h.rets[i], f.rets[i])
  /\ \A i \in DOMAIN h.attrs : AttrDecodes(h, f, i)

(* AnyBuffer::element_count.                                               *)
Elements(buf) ==
  LET n[i \in 0 .. Len(buf.dims)] == IF i = 0 THEN 1 ELSE n[i - 1] * buf.dims[i]
  IN  n[Len(buf.dims)]
=============================================================================
