----------------------------- MODULE MmioWords -----------------------------
(***************************************************************************)
(* The pure part of include/mmio.hpp: register words, fields, the typed    *)
(* tokens an application may write down (encoded values and masks), the    *)
(* usage flags that decide which operator accepts which token, and what    *)
(* each operator computes from the old word.                               *)
(*                                                                         *)
(* A register word is the set of the numbers of its one-bits, so & is      *)
(* intersection, | is union, ~ is the complement in Bits and ^ is the      *)
(* symmetric difference.  A payload (an unshifted field value) is a word   *)
(* too.                                                                    *)
(***************************************************************************)
EXTENDS Integers

CONSTANT W                        \* bits of Register::ValueType

ASSUME WidthAssumption == W \in Nat \ {0}

Bits == 0 .. W - 1
Word == SUBSET Bits

----------------------------------------------------------------------------
(* Access tags and the capabilities AccessMap gives them *)

AccessTags == {"Rw", "Ro", "Wo", "W1c", "W1s", "W1t", "W0c", "W0s", "Rc"}

Readable       == AccessTags \ {"Wo"}
ValueWritable  == AccessTags \ {"Ro", "Rc"}
RawSettable    == {"Rw"}
OrAssignable   == {"Rw"}
AndMaskable    == {"Rw"}
XorMaskable    == {"Rw"}
SymmetricValue == {"Rw", "Ro", "Wo", "Rc"}

If(cond, usage) == IF cond THEN {usage} ELSE {}

ReadUsage(access)  == If(access \in Readable, "predicate")
WriteUsage(access) == If(access \in ValueWritable, "assign")
                        \cup If(access \in OrAssignable, "or")
MaskUsage(access)  == If(access \in AndMaskable, "and")
                        \cup If(access \in XorMaskable, "xor")

----------------------------------------------------------------------------
(* Fields.  "bit" is a BitField, whose encodings are named states; "value"  *)
(* is a ValueField, whose payload first passes through a FieldType of       *)
(* rawBits bits.                                                            *)

FieldSpace == [offset : Bits, width : 1 .. W, access : AccessTags,
               kind : {"bit", "value"}, rawBits : 1 .. W]

WellFormed(f) == f.offset + f.width <= W

valueMask(f) == 0 .. f.width - 1
maskBits(f)  == f.offset .. f.offset + f.width - 1
FieldType(f, payload) == payload \cap (0 .. f.rawBits - 1)

ShiftLeft(payload, n) == {b \in Bits : b - n \in payload}
ShiftRight(word, n)   == {b \in Bits : b + n \in word}

extract(f, word) == ShiftRight(word \cap maskBits(f), f.offset)

\* get<Field>(): the payload in the type the application sees
Get(f, word) == IF f.kind = "value" THEN FieldType(f, extract(f, word))
                                    ELSE extract(f, word)

----------------------------------------------------------------------------
(* Encoded values: RegValue ("reg") and AssignValue ("assign") *)

Usages == {"assign", "or", "predicate"}

EncodedSpace == [value : Word, mask : Word, usage : SUBSET Usages,
                 form : {"reg", "assign"}]

encode_Untruncated(f, payload, usage) ==
  [value |-> ShiftLeft(payload, f.offset),
   mask  |-> maskBits(f),
   usage |-> IF f.kind = "value" THEN usage \ {"or"} ELSE usage,
   form  |-> IF f.kind = "value" THEN "assign" ELSE "reg"]

\* Field::encode, and for a value field encodeAssign, which strips "or"
encode(f, payload, usage) ==
  LET raw == IF f.kind = "value" THEN FieldType(f, payload) ELSE payload
  IN  [value |-> ShiftLeft(raw \cap valueMask(f), f.offset),
       mask  |-> maskBits(f),
       usage |-> IF f.kind = "value" THEN usage \ {"or"} ELSE usage,
       form  |-> IF f.kind = "value" THEN "assign" ELSE "reg"]

value(f, payload)  == encode(f, payload, ReadUsage(f.access) \cup WriteUsage(f.access))
state(f, payload)  == encode(f, payload, ReadUsage(f.access))
action(f, payload) == encode(f, payload, WriteUsage(f.access))

\* The encoding a map offers for reading (predicates) and for writing: one
\* value(...) where the access is symmetric, state(...) and action(...) where not.
ReadToken(f, payload)  == IF f.access \in SymmetricValue THEN value(f, payload)
                                                         ELSE state(f, payload)
WriteToken(f, payload) == IF f.access \in SymmetricValue THEN value(f, payload)
                                                         ELSE action(f, payload)

\* A chain of | over encodings of one register: the union of the values and of
\* the masks, the intersection of the usages, and an AssignValue as soon as one
\* part is an AssignValue.
Compose(parts) ==
  [value |-> UNION {e.value : e \in parts},
   mask  |-> UNION {e.mask : e \in parts},
   usage |-> {u \in Usages : \A e \in parts : u \in e.usage},
   form  |-> IF \A e \in parts : e.form = "reg" THEN "reg" ELSE "assign"]

----------------------------------------------------------------------------
(* Masks *)

MaskSpace == [bits : Word, usage : SUBSET {"and", "xor"}]

MASK(f) == [bits |-> maskBits(f), usage |-> MaskUsage(f.access)]
ComposeMask(parts) == [bits  |-> UNION {m.bits : m \in parts},
                       usage |-> {u \in {"and", "xor"} : \A m \in parts : u \in m.usage}]
Complement(mask) == [mask EXCEPT !.bits = Bits \ mask.bits]

----------------------------------------------------------------------------
(* What each operator makes of the word it read, and which token it takes *)

orAssign_Replaces(word, e)      == e.value
andAssign_Replaces(word, mask)  == mask.bits
writeMasked_KeepsField(word, e) == word \cup e.value

assignWord(e)         == e.value
orAssign(word, e)     == word \cup e.value
andAssign(word, mask) == word \cap mask.bits
xorAssign(word, mask) == (word \ mask.bits) \cup (mask.bits \ word)
writeMasked(word, e)  == (word \cap (Bits \ e.mask)) \cup e.value

predicate(word, e)    == word \cap e.mask = e.value

CanAssign(e)    == "assign" \in e.usage
CanOrAssign(e)  == "or" \in e.usage /\ e.form = "reg"
CanPredicate(e) == "predicate" \in e.usage
CanAnd(mask)    == "and" \in mask.usage
CanXor(mask)    == "xor" \in mask.usage
CanSetField(f)  == f.kind = "value" /\ f.access \in RawSettable
=============================================================================
