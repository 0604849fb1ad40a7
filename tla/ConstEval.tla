------------------------------- MODULE ConstEval -------------------------------
(***************************************************************************)
(* A constant in a pattern: rust-analyzer evaluates it to bytes, and       *)
(* consts.rs reads a value back out of them (kind, get_field, get,         *)
(* get_value), which the emitter writes as a C# pattern.                   *)
(*                                                                         *)
(* Types are records [k |-> kind, ...]; structs, tuples and enum variants  *)
(* list the types of their fields and, in "order", the fields in the order *)
(* the layout places them.  An allocation is [root, heap]: the bytes of    *)
(* the constant and those of what it points to.                            *)
(***************************************************************************)
EXTENDS Integers, Sequences, SequencesExt

CONSTANTS WordSize,   \* bytes of a usize: 8 in the code
          PadSize     \* bytes of the widest integer: 16 in the code

ASSUME WidthAssumption == WordSize \in Nat \ {0} /\ PadSize \in Nat \ {0}

NoMemory == <<-1>>
Unreadable == [p |-> "panic"]     \* the compiler panics

BoolTy == [k |-> "bool"]
IntTy(n) == [k |-> "int", size |-> n]
UintTy(n) == [k |-> "uint", size |-> n]
CharTy == [k |-> "char"]
StrTy == [k |-> "str"]
Ref(t) == [k |-> "ref", to |-> t]
Slice(t) == [k |-> "slice", elem |-> t]
Array(t, n) == [k |-> "array", elem |-> t, len |-> n]
Tuple(ts, order) == [k |-> "tuple", fields |-> ts, order |-> order]
Struct(ts, order) == [k |-> "struct", fields |-> ts, order |-> order]

(* An enum whose variants have the fields variants[i].  layout is "single" *)
(* (one variant is possible, no tag), "direct" (a tag of one byte that     *)
(* holds the discriminant) or "niche" (the tag is the first field of the   *)
(* variant untagged, whose values from nicheStart on mean the others).     *)
Single(fields) ==
  [k |-> "enum", layout |-> "single", variants |-> <<fields>>]
Direct(variants, discr) ==
  [k |-> "enum", layout |-> "direct", variants |-> variants, discr |-> discr]
Niche(variants, untagged, start) ==
  [k |-> "enum", layout |-> "niche", variants |-> variants, untagged |-> untagged,
   nicheStart |-> start]

--------------------------------------------------------------------------------
(* The layout that rustc computes, and the bytes of a value in it.         *)

TagSize(t) == IF t.k = "enum" /\ t.layout = "direct" THEN 1 ELSE 0

RECURSIVE SizeOf(_), Total(_)
Total(ts) == IF ts = <<>> THEN 0 ELSE SizeOf(Head(ts)) + Total(Tail(ts))
SizeOf(t) ==
  CASE t.k \in {"bool", "char"} -> 1       \* a char has 4 bytes in the code
    [] t.k \in {"int", "uint"} -> t.size
    [] t.k \in {"tuple", "struct"} -> Total(t.fields)
    [] t.k = "array" -> t.len * SizeOf(t.elem)
    [] t.k = "ref" -> WordSize
    [] t.k \in {"str", "slice"} -> 2 * WordSize
    [] t.k = "enum" ->
         TagSize(t) + CHOOSE n \in {Total(t.variants[i]) : i \in DOMAIN t.variants} :
                        \A i \in DOMAIN t.variants : Total(t.variants[i]) <= n

(* Where the layout puts field i, for fields placed in the given order.    *)
Declared(fields) == [i \in DOMAIN fields |-> i]
Offset(fields, order, i) ==
  LET before == SubSeq(order, 1, SelectInSeq(order, LAMBDA f : f = i) - 1)
  IN  Total([n \in DOMAIN before |-> fields[before[n]]])

RECURSIVE Bytes(_, _)
Bytes(n, size) ==
  IF size = 0 THEN <<>> ELSE <<n % 256>> \o Bytes(n \div 256, size - 1)

RECURSIVE Widen(_, _)
Widen(bytes, size) == IF Len(bytes) >= size THEN bytes ELSE Widen(Append(bytes, 0), size)

(* Niche encoding counts the variants from the first that is not           *)
(* untagged, the untagged one included if it lies between.                 *)
FirstTagged(t) == IF t.untagged = 1 THEN 2 ELSE 1
NicheTag(t, variant) == t.nicheStart + variant - FirstTagged(t)

PlaceAll(parts, order) == FlattenSeq([n \in DOMAIN parts |-> parts[order[n]]])

RECURSIVE Encode(_, _, _), EncodeAll(_, _, _)
ThenRest(first, ts, vs) ==
  LET rest == EncodeAll(ts, vs, first.heap)
  IN  [parts |-> <<first.bytes>> \o rest.parts, heap |-> rest.heap]
EncodeAll(ts, vs, heap) ==
  IF ts = <<>> THEN [parts |-> <<>>, heap |-> heap]
  ELSE ThenRest(Encode(Head(ts), Head(vs), heap), Tail(ts), Tail(vs))
Placed(all, order) == [bytes |-> PlaceAll(all.parts, order), heap |-> all.heap]
Pointing(target, meta) ==
  [bytes |-> Bytes(Len(target.heap), WordSize) \o meta,
   heap |-> Append(target.heap, target.bytes)]
InVariant(t, v, fields) ==
  [bytes |-> Widen(CASE t.layout = "single" -> fields.bytes
                     [] t.layout = "direct" -> Bytes(t.discr[v.variant], 1) \o fields.bytes
                     [] t.layout = "niche" /\ v.variant = t.untagged -> fields.bytes
                     [] OTHER -> Bytes(NicheTag(t, v.variant), 1),
                   SizeOf(t)),
   heap |-> fields.heap]
Repeated(t, n) == [i \in 1..n |-> t]

Encode(t, v, heap) ==
  CASE t.k = "bool" -> [bytes |-> <<v>>, heap |-> heap]
    [] t.k = "char" -> [bytes |-> Bytes(v, 1), heap |-> heap]
    [] t.k \in {"int", "uint"} -> [bytes |-> Bytes(v, t.size), heap |-> heap]
    [] t.k \in {"tuple", "struct"} -> Placed(EncodeAll(t.fields, v, heap), t.order)
    [] t.k = "array" -> Placed(EncodeAll(Repeated(t.elem, t.len), v, heap), Declared(v))
    [] t.k = "ref" -> Pointing(Encode(t.to, v, heap), <<>>)
    [] t.k = "str" -> Pointing([bytes |-> v, heap |-> heap], Bytes(Len(v), WordSize))
    [] t.k = "slice" ->
         Pointing(Placed(EncodeAll(Repeated(t.elem, Len(v)), v, heap), Declared(v)),
                  Bytes(Len(v), WordSize))
    [] t.k = "enum" ->
         InVariant(t, v, Placed(EncodeAll(t.variants[v.variant], v.fields, heap),
                              Declared(v.fields)))

(* What ConstExt::eval_value returns: the whole constant.                  *)
Alloc(encoded) == [root |-> encoded.bytes, heap |-> encoded.heap]
Root == -1                  \* the constant itself, no address
EvalValue(t) == [ty |-> t, addr |-> Root, from |-> 0, to |-> SizeOf(t)]

--------------------------------------------------------------------------------
(* Reading a ConstValue: the bytes [from, to) of the constant or of an     *)
(* address, seen as a type.                                                *)

Slot(bytes, from, to) ==
  IF from <= to /\ to <= Len(bytes) THEN SubSeq(bytes, from + 1, to) ELSE NoMemory

GetMemory(alloc, addr, from, to) ==
  IF addr = Root THEN Slot(alloc.root, from, to)
  ELSE IF from = to THEN <<>>
  ELSE IF addr \in 0..(Len(alloc.heap) - 1) THEN Slot(alloc.heap[addr + 1], from, to)
  ELSE NoMemory

NewSubAddr(alloc, addr, from, to, t) ==
  IF GetMemory(alloc, addr, from, to) = NoMemory THEN Unreadable
  ELSE [ty |-> t, addr |-> addr, from |-> from, to |-> to]

(* The two assertions: a part lies inside its whole.                       *)
NewSub(alloc, c, from, to, t) ==
  IF c.from <= from /\ from <= c.to /\ c.from <= to /\ to <= c.to
  THEN NewSubAddr(alloc, c.addr, from, to, t)
  ELSE Unreadable

RECURSIVE FromLe(_)
FromLe(b) == IF b = <<>> THEN 0 ELSE Head(b) + 256 * FromLe(Tail(b))
Padded(b, fill) == b \o [i \in 1..(PadSize - Len(b)) |-> fill]

AsUint(b) == FromLe(Padded(b, 0))

(* Two's complement of PadSize bytes, which the sign of the last byte      *)
(* has been carried into.                                                  *)
Signed(n) == IF n >= 128 * 256^(PadSize - 1) THEN n - 256^PadSize ELSE n
AsIntUnsigned(b) == Signed(FromLe(Padded(b, 0)))  \* a faulty variant: no sign extension
AsInt(b) ==
  LET negative == b # <<>> /\ Last(b) > 127
  IN  Signed(FromLe(Padded(b, IF negative THEN 255 ELSE 0)))

(* detect_variant_from_bytes: the number of the variant, 0 for none.       *)
DirectVariant(t, tag) ==
  LET fitting == {i \in DOMAIN t.variants : t.discr[i] = tag}
  IN  IF fitting = {} THEN 0 ELSE CHOOSE i \in fitting : \A j \in fitting : i <= j
NicheVariant(t, tag) ==
  LET candidate == tag - t.nicheStart
      others == SelectSeq([i \in DOMAIN t.variants |-> i], LAMBDA i : i # t.untagged)
  IN  IF candidate \in 0..(Len(others) - 1) THEN others[candidate + 1] ELSE t.untagged
DetectVariant(t, b) ==
  CASE t.layout = "single" -> 1
    [] t.layout = "direct" -> DirectVariant(t, AsUint(SubSeq(b, 1, 1)))
    [] t.layout = "niche" -> NicheVariant(t, AsUint(SubSeq(b, 1, 1)))

(* get_field of a struct or a variant; get of an array or a slice;         *)
(* get_value of a tuple.                                                   *)
GetFieldFromZero(alloc, c, fields, order, skip, i) ==  \* a faulty variant: from the start of the allocation
  LET start == skip + Offset(fields, order, i)
  IN  NewSub(alloc, c, start, start + SizeOf(fields[i]), fields[i])
GetField(alloc, c, fields, order, skip, i) ==
  LET start == c.from + skip + Offset(fields, order, i)
  IN  NewSub(alloc, c, start, start + SizeOf(fields[i]), fields[i])
GetElement(alloc, c, elem, index) ==
  LET offset == SizeOf(elem) * index
  IN  NewSub(alloc, c, offset, offset + SizeOf(elem), elem)
GetValue(alloc, c, i) ==
  LET offset == Offset(c.ty.fields, c.ty.order, i)
  IN  NewSub(alloc, c, offset, offset + SizeOf(c.ty.fields[i]), c.ty.fields[i])

--------------------------------------------------------------------------------
(* emit_const_pat and emit_const_constructable: the C# pattern, as a tree. *)

Lit(v) == [p |-> "lit", v |-> v]
Of(name, parts) == [p |-> name, parts |-> parts]
VariantOf(i, parts) == [p |-> "variant", variant |-> i, parts |-> parts]

\* What is not ASCII is written as \u{...}: here, as a negative number.
Escaped(text) == Of("text", [i \in DOMAIN text |-> IF text[i] > 127 THEN -text[i] ELSE text[i]])

RECURSIVE EmitConstPat(_, _)
EmitVariant(alloc, c, i) ==
  IF i = 0 THEN Unreadable
  ELSE VariantOf(i, [n \in DOMAIN c.ty.variants[i] |->
             EmitConstPat(alloc, GetField(alloc, c, c.ty.variants[i],
                                          Declared(c.ty.variants[i]), TagSize(c.ty), n))])
EmitElements(alloc, c, elem, count) ==
  Of("list", [n \in 1..count |-> EmitConstPat(alloc, GetElement(alloc, c, elem, n - 1))])
Word(b, i) == FromLe(SubSeq(b, (i - 1) * WordSize + 1, i * WordSize))

EmitStr(text) == IF text = NoMemory THEN Unreadable ELSE Escaped(text)
EmitSlice(alloc, elem, addr, count) ==
  LET size == count * SizeOf(elem)
      whole == NewSubAddr(alloc, addr, 0, size, Slice(elem))
  IN  IF whole = Unreadable THEN Unreadable ELSE EmitElements(alloc, whole, elem, count)

Emit(alloc, c, b) ==
  CASE b = NoMemory -> Unreadable
    [] c.ty.k = "bool" -> Lit(IF b[1] # 0 THEN 1 ELSE 0)
    [] c.ty.k = "char" -> Escaped(<<AsUint(b)>>)
    [] c.ty.k = "int" -> Lit(AsInt(b))
    [] c.ty.k = "uint" -> Lit(AsUint(b))
    [] c.ty.k = "struct" ->
         Of("struct", [i \in DOMAIN c.ty.fields |->
              EmitConstPat(alloc, GetField(alloc, c, c.ty.fields, c.ty.order, 0, i))])
    [] c.ty.k = "enum" -> EmitVariant(alloc, c, DetectVariant(c.ty, b))
    [] c.ty.k = "array" -> EmitElements(alloc, c, c.ty.elem, c.ty.len)
    [] c.ty.k = "tuple" ->
         Of("tuple", [i \in DOMAIN c.ty.fields |-> EmitConstPat(alloc, GetValue(alloc, c, i))])
    [] c.ty.k = "str" -> EmitStr(GetMemory(alloc, Word(b, 1), 0, Word(b, 2)))
    [] c.ty.k = "slice" -> EmitSlice(alloc, c.ty.elem, Word(b, 1), Word(b, 2))
    [] c.ty.k = "ref" ->
         EmitConstPat(alloc, NewSubAddr(alloc, Word(b, 1), 0, SizeOf(c.ty.to), c.ty.to))
EmitConstPat(alloc, c) ==
  IF c = Unreadable THEN Unreadable ELSE Emit(alloc, c, GetMemory(alloc, c.addr, c.from, c.to))

--------------------------------------------------------------------------------
(* The pattern a constant stands for, from its value alone.                *)
RECURSIVE PatternOf(_, _)
PatternOf(t, v) ==
  CASE t.k \in {"bool", "int", "uint"} -> Lit(v)
    [] t.k = "char" -> Of("text", <<v>>)
    [] t.k = "str" -> Of("text", v)
    [] t.k = "ref" -> PatternOf(t.to, v)
    [] t.k \in {"array", "slice"} -> Of("list", [i \in DOMAIN v |-> PatternOf(t.elem, v[i])])
    [] t.k \in {"tuple", "struct"} ->
         Of(t.k, [i \in DOMAIN v |-> PatternOf(t.fields[i], v[i])])
    [] t.k = "enum" ->
         VariantOf(v.variant, [i \in DOMAIN v.fields |-> PatternOf(t.variants[v.variant][i], v.fields[i])])
================================================================================
