-------------------------- MODULE MmioWordsProofs --------------------------
(***************************************************************************)
(* What the field helpers of mmio.hpp compute, for registers of any width  *)
(* and fields of any offset, width and payload type.                       *)
(***************************************************************************)
EXTENDS MmioWords, TLAPS

\* The payload bits that survive the conversion to FieldType and to the field's width
Fitted(f, payload) ==
  (IF f.kind = "value" THEN FieldType(f, payload) ELSE payload) \cap valueMask(f)

----------------------------------------------------------------------------
(* Bits of fields *)

\* A field that fits into its register (the static_assert of mmio.hpp:527) has its mask
\* inside the word, and its payload is inside the word as well.
LEMMA FieldBitsInWord ==
  ASSUME NEW f \in FieldSpace, WellFormed(f)
  PROVE  /\ maskBits(f) \subseteq Bits
         /\ valueMask(f) \subseteq Bits
         /\ f.offset \in Nat /\ f.width \in Nat
  BY WidthAssumption DEF FieldSpace, WellFormed, maskBits, valueMask, Bits

\* Bit by bit, extract moves the bits under the mask down by the field's offset
\* (mmio.hpp:552-554).
LEMMA ExtractBit ==
  ASSUME NEW f \in FieldSpace, WellFormed(f), NEW word \in Word, NEW b \in Int
  PROVE  b \in extract(f, word) <=> b \in valueMask(f) /\ b + f.offset \in word
<1>1. f.offset \in Nat /\ f.width \in Nat /\ f.offset + f.width <= W /\ W \in Nat
  BY WidthAssumption, FieldBitsInWord DEF WellFormed
<1> QED
  BY <1>1 DEF extract, ShiftRight, maskBits, valueMask, Bits

\* Bit by bit, encode moves the payload that fits up by the field's offset, and nothing
\* of it leaves the field (mmio.hpp:559-564, 648-656).
LEMMA EncodeBit ==
  ASSUME NEW f \in FieldSpace, WellFormed(f), NEW payload \in Word, NEW usage, NEW b \in Int
  PROVE  b \in encode(f, payload, usage).value <=>
           b \in maskBits(f) /\ b - f.offset \in Fitted(f, payload)
<1>1. f.offset \in Nat /\ f.width \in Nat /\ f.offset + f.width <= W /\ W \in Nat
  BY WidthAssumption, FieldBitsInWord DEF WellFormed
<1>2. encode(f, payload, usage).value = ShiftLeft(Fitted(f, payload), f.offset)
  BY DEF encode, Fitted
<1>3. b - f.offset \in valueMask(f) <=> b \in maskBits(f)
  BY <1>1 DEF valueMask, maskBits
<1>4. b \in maskBits(f) => b \in Bits
  BY FieldBitsInWord
<1>5. Fitted(f, payload) \subseteq valueMask(f)
  BY DEF Fitted
<1> QED
  BY <1>2, <1>3, <1>4, <1>5 DEF ShiftLeft

\* The encoded value and its mask are words, the value inside the mask.
LEMMA EncodeInField ==
  ASSUME NEW f \in FieldSpace, WellFormed(f), NEW payload \in Word, NEW usage
  PROVE  /\ encode(f, payload, usage).mask = maskBits(f)
         /\ encode(f, payload, usage).value \subseteq maskBits(f)
<1>1. encode(f, payload, usage).value \subseteq Int
  BY DEF encode, ShiftLeft, Bits
<1> QED
  BY <1>1, EncodeBit DEF encode

----------------------------------------------------------------------------
(* What set<Field>(raw) and a predicate mean *)

\* set<Field>(raw) replaces the field by the payload, truncated to the field, and
\* leaves every other field of the register alone (mmio.hpp:938-948, 1083-1092).
THEOREM WriteMaskedReplacesOneField ==
  ASSUME NEW f \in FieldSpace, WellFormed(f), NEW payload \in Word, NEW usage,
         NEW word \in Word
  PROVE  LET new == writeMasked(word, encode(f, payload, usage))
         IN  /\ new \in Word
             /\ extract(f, new) = Fitted(f, payload)
             /\ \A g \in FieldSpace :
                  WellFormed(g) /\ maskBits(g) \cap maskBits(f) = {} =>
                    extract(g, new) = extract(g, word)
<1> DEFINE e   == encode(f, payload, usage)
           new == writeMasked(word, e)
<1>1. e.mask = maskBits(f) /\ e.value \subseteq maskBits(f) /\ maskBits(f) \subseteq Bits
  BY EncodeInField, FieldBitsInWord
<1>2. new \in Word
  BY <1>1 DEF writeMasked, Word
<1>3. \A b \in Bits : b \in new <=> IF b \in maskBits(f) THEN b \in e.value ELSE b \in word
  BY <1>1 DEF writeMasked
<1> HIDE DEF new, e
<1>4. extract(f, new) = Fitted(f, payload)
  <2>1. extract(f, new) \subseteq Int /\ Fitted(f, payload) \subseteq Int
    BY DEF extract, ShiftRight, Bits, Fitted, valueMask
  <2>2. ASSUME NEW b \in Int
        PROVE  b \in extract(f, new) <=> b \in Fitted(f, payload)
    <3>1. f.offset \in Nat /\ f.width \in Nat
      BY FieldBitsInWord
    <3>2. b \in valueMask(f) => b + f.offset \in maskBits(f)
      BY <3>1 DEF valueMask, maskBits
    <3>3. b \in valueMask(f) => (b + f.offset \in new <=> b + f.offset \in e.value)
      BY <1>1, <1>3, <3>2
    <3>4. b + f.offset \in e.value <=>
            b + f.offset \in maskBits(f) /\ (b + f.offset) - f.offset \in Fitted(f, payload)
      BY <3>1, EncodeBit DEF e
    <3>5. (b + f.offset) - f.offset = b
      BY <3>1
    <3>6. Fitted(f, payload) \subseteq valueMask(f)
      BY DEF Fitted
    <3> QED
      BY <1>2, <3>2, <3>3, <3>4, <3>5, <3>6, ExtractBit
  <2> QED
    BY <2>1, <2>2
<1>5. ASSUME NEW g \in FieldSpace, WellFormed(g), maskBits(g) \cap maskBits(f) = {}
      PROVE  extract(g, new) = extract(g, word)
  <2>1. extract(g, new) \subseteq Int /\ extract(g, word) \subseteq Int
    BY DEF extract, ShiftRight, Bits
  <2>2. ASSUME NEW b \in Int
        PROVE  b \in extract(g, new) <=> b \in extract(g, word)
    <3>1. g.offset \in Nat /\ g.width \in Nat /\ maskBits(g) \subseteq Bits
      BY <1>5, FieldBitsInWord
    <3>2. b \in valueMask(g) => b + g.offset \in maskBits(g)
      BY <3>1 DEF valueMask, maskBits
    <3>3. b \in valueMask(g) => (b + g.offset \in new <=> b + g.offset \in word)
      BY <1>3, <1>5, <3>1, <3>2
    <3> QED
      BY <1>2, <1>5, <3>3, ExtractBit
  <2> QED
    BY <2>1, <2>2
<1> QED
  BY <1>2, <1>4, <1>5 DEF new, e

\* A predicate compares exactly the named field, zero-valued states included
\* (mmio.hpp:1104-1120).
THEOREM PredicateIsExact ==
  ASSUME NEW f \in FieldSpace, WellFormed(f), NEW payload \in Word, NEW usage,
         NEW word \in Word
  PROVE  predicate(word, encode(f, payload, usage)) <=>
           extract(f, word) = Fitted(f, payload)
<1> DEFINE e == encode(f, payload, usage)
<1>1. e.mask = maskBits(f) /\ e.value \subseteq maskBits(f) /\ maskBits(f) \subseteq Bits
  BY EncodeInField, FieldBitsInWord
<1>2. f.offset \in Nat /\ f.width \in Nat
  BY FieldBitsInWord
<1>3. \A b \in Int : b \in e.value <=> b \in maskBits(f) /\ b - f.offset \in Fitted(f, payload)
  BY EncodeBit
<1>4. \A b \in Int : b \in extract(f, word) <=> b \in valueMask(f) /\ b + f.offset \in word
  BY ExtractBit
<1>5. Fitted(f, payload) \subseteq valueMask(f) /\ extract(f, word) \subseteq Int
  BY DEF Fitted, extract, ShiftRight, Bits
<1> HIDE DEF e
<1>6. \A b \in Int : b \in maskBits(f) <=> b - f.offset \in valueMask(f)
  BY <1>2 DEF maskBits, valueMask
<1>7. ASSUME predicate(word, e)
      PROVE  extract(f, word) = Fitted(f, payload)
  <2>1. \A b \in maskBits(f) : b \in word <=> b \in e.value
    BY <1>1, <1>7 DEF predicate
  <2>2. ASSUME NEW b \in valueMask(f)
        PROVE  b \in extract(f, word) <=> b \in Fitted(f, payload)
    <3>1. b \in Int /\ b + f.offset \in Int /\ (b + f.offset) - f.offset = b
      BY <1>2 DEF valueMask
    <3>2. b + f.offset \in maskBits(f)
      BY <1>6, <3>1
    <3> QED
      BY <1>3, <1>4, <2>1, <3>1, <3>2
  <2> QED
    BY <1>4, <1>5, <2>2
<1>8. ASSUME extract(f, word) = Fitted(f, payload)
      PROVE  predicate(word, e)
  <2>1. ASSUME NEW b \in maskBits(f)
        PROVE  b \in word <=> b \in e.value
    <3>1. b \in Int /\ b - f.offset \in Int /\ (b - f.offset) + f.offset = b
      BY <1>2 DEF maskBits
    <3>2. b - f.offset \in valueMask(f)
      BY <1>6, <3>1
    <3> QED
      BY <1>3, <1>4, <1>8, <3>1, <3>2
  <2> QED
    BY <1>1, <2>1 DEF predicate
<1> QED
  BY <1>7, <1>8 DEF e
=============================================================================
