------------------------- MODULE MmioRegisterProofs -------------------------
(***************************************************************************)
(* What the operators of mmio.hpp do to the fields of a register, for      *)
(* every word width, every layout of fields that do not overlap, every     *)
(* payload, and whatever an interrupt handler and the hardware do between  *)
(* two bus accesses; and that a register with masked operators implements  *)
(* the abstract store of independent fields.                               *)
(***************************************************************************)
EXTENDS MmioRegister, MmioWordsProofs

----------------------------------------------------------------------------
(* Bits of a layout *)

LayoutOK == program \in Programs /\ layout \in program.layouts

\* A layout consists of fields that fit into the word (mmio.hpp:527) and do
\* not overlap.
LEMMA LayoutFacts ==
  ASSUME LayoutOK
  PROVE  /\ layout \subseteq FieldSpace
         /\ \A f \in layout : /\ WellFormed(f) /\ maskBits(f) \subseteq Bits
                              /\ f.access \in AccessTags /\ f.offset \in Nat
         /\ \A f, g \in layout : f # g => maskBits(f) \cap maskBits(g) = {}
         /\ Payloads \subseteq Word
<1>1. /\ layout \subseteq FieldSpace /\ Payloads \subseteq Word
      /\ \A f \in layout : WellFormed(f)
      /\ \A f, g \in layout : f # g => maskBits(f) \cap maskBits(g) = {}
  BY RegisterAssumption DEF LayoutOK, Payloads
<1>2. \A f \in layout : f.access \in AccessTags /\ maskBits(f) \subseteq Bits /\ f.offset \in Nat
  BY <1>1, FieldBitsInWord DEF FieldSpace
<1> QED
  BY <1>1, <1>2

\* A bit of a field belongs to the fields of an access kind when its field has it.
LEMMA Owned ==
  ASSUME LayoutOK, NEW f \in layout, NEW b \in maskBits(f), NEW A
  PROVE  b \in FieldBits(A) <=> f.access \in A
BY LayoutFacts DEF FieldBits

LEMMA OwnedBySome ==
  ASSUME LayoutOK, NEW A
  PROVE  /\ FieldBits(A) \subseteq Bits
         /\ \A b \in FieldBits(A) : \E f \in layout : f.access \in A /\ b \in maskBits(f)
         /\ \A B : A \subseteq B => FieldBits(A) \subseteq FieldBits(B)
BY LayoutFacts DEF FieldBits

\* Bit by bit, what a store makes of a field
LEMMA BusWriteBit ==
  ASSUME LayoutOK, NEW f \in layout, NEW b \in maskBits(f), NEW word, NEW new
  PROVE  b \in BusWrite(word, new) <=>
           \/ f.access \in {"Ro", "Rc"} /\ b \in word
           \/ f.access = "Rw" /\ b \in new
           \/ f.access = "W1c" /\ b \in word /\ b \notin new
           \/ f.access = "W1s" /\ (b \in word \/ b \in new)
           \/ f.access = "W1t" /\ (b \in word <=> b \notin new)
           \/ f.access = "W0c" /\ b \in word /\ b \in new
           \/ f.access = "W0s" /\ (b \in word \/ b \notin new)
<1>1. b \in Bits
  BY LayoutFacts
<1>2. /\ b \in FieldBits({"Ro", "Rc"}) <=> f.access \in {"Ro", "Rc"}
      /\ b \in FieldBits({"Rw"}) <=> f.access = "Rw"
      /\ b \in FieldBits({"W1c"}) <=> f.access = "W1c"
      /\ b \in FieldBits({"W1s"}) <=> f.access = "W1s"
      /\ b \in FieldBits({"W1t"}) <=> f.access = "W1t"
      /\ b \in FieldBits({"W0c"}) <=> f.access = "W0c"
      /\ b \in FieldBits({"W0s"}) <=> f.access = "W0s"
  BY Owned
<1> QED
  BY <1>1, <1>2 DEF BusWrite, Differ

\* A store changes no reserved bit, and leaves nothing to be read in a write-only field.
LEMMA BusWriteTyped ==
  ASSUME LayoutOK, NEW word, NEW new
  PROVE  BusWrite(word, new) \subseteq FieldBits(AccessTags \ {"Wo"})
<1>1. \A A : A \subseteq AccessTags \ {"Wo"} => FieldBits(A) \subseteq FieldBits(AccessTags \ {"Wo"})
  BY OwnedBySome
<1>2. /\ FieldBits({"Ro", "Rc"}) \subseteq FieldBits(AccessTags \ {"Wo"})
      /\ FieldBits({"Rw"}) \subseteq FieldBits(AccessTags \ {"Wo"})
      /\ FieldBits({"W1c"}) \subseteq FieldBits(AccessTags \ {"Wo"})
      /\ FieldBits({"W1s"}) \subseteq FieldBits(AccessTags \ {"Wo"})
      /\ FieldBits({"W1t"}) \subseteq FieldBits(AccessTags \ {"Wo"})
      /\ FieldBits({"W0c"}) \subseteq FieldBits(AccessTags \ {"Wo"})
      /\ FieldBits({"W0s"}) \subseteq FieldBits(AccessTags \ {"Wo"})
  BY <1>1 DEF AccessTags
<1> QED
  BY <1>2 DEF BusWrite

----------------------------------------------------------------------------
(* Tokens of several fields, and what an operator makes of a word *)

\* An operation names fields of the layout, with words for payloads.
ArgOK(arg) == DOMAIN arg \subseteq layout /\ \A f \in DOMAIN arg : arg[f] \in Word

LEMMA ArgsTyped ==
  ASSUME LayoutOK, NEW op, NEW arg \in ArgsOf(op)
  PROVE  ArgOK(arg)
<1>1. CASE op \in CopyOps
  <2>1. arg = <<>>
    BY <1>1 DEF ArgsOf, CopyOps
  <2>2. DOMAIN arg = {}
    BY <2>1
  <2> QED
    BY <2>2 DEF ArgOK
<1>2. CASE op \notin CopyOps
  <2>1. arg \in Args
    BY <1>2 DEF ArgsOf
  <2>2. PICK F \in SUBSET layout : arg \in [F -> Payloads]
    BY <2>1 DEF Args
  <2> QED
    BY <1>2, <2>2, LayoutFacts DEF ArgOK
<1> QED
  BY <1>1, <1>2

\* The token of one field for writing, bit by bit (mmio.hpp:559-590, 648-688)
LEMMA TokenBit ==
  ASSUME LayoutOK, NEW f \in layout, NEW payload \in Word
  PROVE  /\ \A b \in maskBits(f) :
              b \in WriteToken(f, payload).value <=> b - f.offset \in Fitted(f, payload)
         /\ WriteToken(f, payload).value \subseteq maskBits(f)
         /\ WriteToken(f, payload).mask = maskBits(f)
         /\ "or" \in WriteToken(f, payload).usage => f.access = "Rw"
<1>1. PICK usage : WriteToken(f, payload) = encode(f, payload, usage)
                     /\ usage \in {WriteUsage(f.access), ReadUsage(f.access) \cup WriteUsage(f.access)}
  BY DEF WriteToken, value, action
<1>2. f \in FieldSpace /\ WellFormed(f) /\ maskBits(f) \subseteq Int
  BY LayoutFacts DEF Bits
<1>3. "or" \in encode(f, payload, usage).usage => f.access = "Rw"
  BY <1>1 DEF encode, WriteUsage, ReadUsage, If, OrAssignable
<1>4. \A b \in maskBits(f) :
        b \in encode(f, payload, usage).value <=> b - f.offset \in Fitted(f, payload)
  BY <1>2, EncodeBit
<1> QED
  BY <1>1, <1>2, <1>3, <1>4, EncodeInField

\* A composed token sets in each field it names the payload that fits, and nothing else.
LEMMA WriteValueBit ==
  ASSUME LayoutOK, NEW arg, ArgOK(arg)
  PROVE  /\ \A f \in layout : \A b \in maskBits(f) :
              b \in WriteValue(arg).value <=>
                f \in DOMAIN arg /\ b - f.offset \in Fitted(f, arg[f])
         /\ WriteValue(arg).value \subseteq FieldBits(AccessTags)
<1>1. WriteValue(arg).value = UNION {WriteToken(f, arg[f]).value : f \in DOMAIN arg}
  BY DEF WriteValue, Compose
<1>2. ASSUME NEW f \in layout, NEW b \in maskBits(f)
      PROVE  b \in WriteValue(arg).value <=>
               f \in DOMAIN arg /\ b - f.offset \in Fitted(f, arg[f])
  <2>1. \A g \in DOMAIN arg : b \in WriteToken(g, arg[g]).value => g = f
    BY LayoutFacts, TokenBit DEF ArgOK
  <2> QED
    BY <1>1, <2>1, TokenBit DEF ArgOK
<1>3. WriteValue(arg).value \subseteq FieldBits(AccessTags)
  <2>1. \A g \in DOMAIN arg : WriteToken(g, arg[g]).value \subseteq maskBits(g)
    BY TokenBit DEF ArgOK
  <2>2. \A g \in DOMAIN arg : \A b \in maskBits(g) : b \in FieldBits(AccessTags)
    BY Owned, LayoutFacts DEF ArgOK
  <2> QED
    BY <1>1, <2>1, <2>2
<1> QED
  BY <1>2, <1>3

\* A composed mask covers the fields it names.
LEMMA MaskBit ==
  ASSUME LayoutOK, NEW arg, ArgOK(arg)
  PROVE  /\ \A f \in layout : \A b \in maskBits(f) : b \in Mask(arg).bits <=> f \in DOMAIN arg
         /\ Mask(arg).bits \subseteq FieldBits(AccessTags)
<1>1. Mask(arg).bits = UNION {m.bits : m \in {MASK(f) : f \in DOMAIN arg}}
  BY DEF Mask, ComposeMask
<1>3. \A b : b \in Mask(arg).bits <=> \E f \in DOMAIN arg : b \in maskBits(f)
  <2>1. \A f : MASK(f).bits = maskBits(f)
    BY DEF MASK
  <2> QED
    BY <1>1, <2>1, Zenon
<1>2. \A g \in DOMAIN arg : \A b \in maskBits(g) : b \in FieldBits(AccessTags)
  BY Owned, LayoutFacts DEF ArgOK
<1> QED
  BY <1>3, <1>2, LayoutFacts DEF ArgOK

\* The operators that store back what they loaded take tokens of plain fields only
\* (AccessMap, mmio.hpp:104-142, and the static_asserts of mmio.hpp:785-835).
LEMMA NamesPlainFields ==
  ASSUME LayoutOK, NEW op \in WriteOps \ {"assign"}, NEW arg, ArgOK(arg), Compiles(op, arg)
  PROVE  \A f \in DOMAIN arg : f.access = "Rw"
<1>1. CASE op = "or"
  <2>1. "or" \in WriteValue(arg).usage
    BY <1>1 DEF Compiles, CanOrAssign
  <2>2. \A e \in {WriteToken(f, arg[f]) : f \in DOMAIN arg} : "or" \in e.usage
    BY <2>1 DEF WriteValue, Compose
  <2>3. \A f \in DOMAIN arg : "or" \in WriteToken(f, arg[f]).usage
    BY <2>2
  <2> QED
    BY <2>3, TokenBit DEF ArgOK
<1>2. CASE op \in {"clear", "keep", "toggle"}
  <2>1. "and" \in Mask(arg).usage \/ "xor" \in Mask(arg).usage
    BY <1>2 DEF Compiles, CanAnd, CanXor
  <2>2. PICK u \in {"and", "xor"} : \A m \in {MASK(f) : f \in DOMAIN arg} : u \in m.usage
    BY <2>1 DEF Mask, ComposeMask
  <2>3. \A f \in DOMAIN arg : u \in MASK(f).usage
    BY <2>2
  <2> QED
    BY <2>3 DEF MASK, MaskUsage, If, AndMaskable, XorMaskable
<1>3. CASE op = "set"
  <2>1. DOMAIN arg = {Only(arg)} /\ Only(arg).access \in RawSettable
    BY <1>3 DEF Compiles, CanSetField
  <2> QED
    BY <2>1 DEF RawSettable
<1> QED
  BY <1>1, <1>2, <1>3 DEF WriteOps

\* What a write operator makes, bit by bit, of a field it names and of one it does not.
NewBit(op, arg, f, b, word) ==
  IF f \in DOMAIN arg
  THEN \/ op \in {"assign", "set"} /\ b - f.offset \in Fitted(f, arg[f])
       \/ op = "or" /\ (b \in word \/ b - f.offset \in Fitted(f, arg[f]))
       \/ op = "keep" /\ b \in word
       \/ op = "toggle" /\ b \notin word
  ELSE op \notin {"assign", "keep"} /\ b \in word

LEMMA SetFieldBit ==
  ASSUME LayoutOK, NEW arg, ArgOK(arg), Compiles("set", arg), NEW word
  PROVE  /\ \A f \in layout : \A b \in maskBits(f) :
              b \in NewWord("set", arg, word) <=> NewBit("set", arg, f, b, word)
         /\ word \subseteq FieldBits(AccessTags) =>
              NewWord("set", arg, word) \subseteq FieldBits(AccessTags)
<1> DEFINE g == Only(arg)
           e == value(g, arg[g])
<1>1. DOMAIN arg = {g} /\ g \in layout /\ arg[g] \in Word
  BY DEF Compiles, ArgOK
<1>2. g \in FieldSpace /\ WellFormed(g) /\ maskBits(g) \subseteq Int
  BY <1>1, LayoutFacts DEF Bits
<1>3. /\ e.mask = maskBits(g) /\ e.value \subseteq maskBits(g)
      /\ \A b \in maskBits(g) : b \in e.value <=> b - g.offset \in Fitted(g, arg[g])
  BY <1>1, <1>2, EncodeBit, EncodeInField DEF value
<1>4. NewWord("set", arg, word) = (word \cap (Bits \ e.mask)) \cup e.value
  BY DEF NewWord, writeMasked
<1>5. ASSUME NEW f \in layout, NEW b \in maskBits(f)
      PROVE  b \in NewWord("set", arg, word) <=> NewBit("set", arg, f, b, word)
  <2>1. b \in Bits
    BY LayoutFacts
  <2>2. CASE f = g
    BY <2>1, <2>2, <1>1, <1>3, <1>4 DEF NewBit
  <2>3. CASE f # g
    <3>1. b \notin maskBits(g)
      BY <2>3, <1>1, LayoutFacts
    <3> QED
      BY <2>1, <2>3, <3>1, <1>1, <1>3, <1>4 DEF NewBit
  <2> QED
    BY <2>2, <2>3
<1>6. maskBits(g) \subseteq FieldBits(AccessTags)
  BY <1>1, Owned, LayoutFacts
<1> QED
  BY <1>3, <1>4, <1>5, <1>6

LEMMA NewWordBit ==
  ASSUME LayoutOK, NEW op \in WriteOps, NEW arg, ArgOK(arg), Compiles(op, arg), NEW word
  PROVE  /\ \A f \in layout : \A b \in maskBits(f) :
              b \in NewWord(op, arg, word) <=> NewBit(op, arg, f, b, word)
         /\ word \subseteq FieldBits(AccessTags) =>
              NewWord(op, arg, word) \subseteq FieldBits(AccessTags)
<1> DEFINE fields == FieldBits(AccessTags)
<1>1. \A f \in layout : \A b \in maskBits(f) : b \in Bits
  BY LayoutFacts
<1>2. CASE op = "assign"
  <2>1. NewWord(op, arg, word) = WriteValue(arg).value
    BY <1>2 DEF NewWord, assignWord
  <2> QED
    BY <2>1, <1>2, WriteValueBit DEF NewBit
<1>3. CASE op = "or"
  <2>1. NewWord(op, arg, word) = word \cup WriteValue(arg).value
    BY <1>3 DEF NewWord, orAssign
  <2> QED
    BY <2>1, <1>3, WriteValueBit DEF NewBit
<1>4. CASE op = "clear"
  <2>1. NewWord(op, arg, word) = word \cap (Bits \ Mask(arg).bits)
    <3>1. Complement(Mask(arg)).bits = Bits \ Mask(arg).bits
      BY DEF Complement, Mask, ComposeMask
    <3> QED
      BY <1>4, <3>1 DEF NewWord, andAssign
  <2> QED
    BY <2>1, <1>1, <1>4, MaskBit DEF NewBit
<1>5. CASE op = "keep"
  <2>1. NewWord(op, arg, word) = word \cap Mask(arg).bits
    BY <1>5 DEF NewWord, andAssign
  <2> QED
    BY <2>1, <1>5, MaskBit DEF NewBit
<1>6. CASE op = "toggle"
  <2>1. NewWord(op, arg, word) = (word \ Mask(arg).bits) \cup (Mask(arg).bits \ word)
    BY <1>6 DEF NewWord, xorAssign
  <2> QED
    BY <2>1, <1>6, MaskBit DEF NewBit
<1>7. CASE op = "set"
  BY <1>7, SetFieldBit
<1> QED
  BY <1>2, <1>3, <1>4, <1>5, <1>6, <1>7 DEF WriteOps

----------------------------------------------------------------------------
(* The bus, bit by bit *)

LEMMA ReadBits ==
  ASSUME LayoutOK, NEW f \in layout, NEW b \in maskBits(f), NEW word
  PROVE  /\ b \in BusRead(word) <=> b \in word /\ f.access # "Wo"
         /\ b \in AfterRead(word) <=> b \in word /\ f.access # "Rc"
<1>1. /\ b \in FieldBits({"Wo"}) <=> f.access = "Wo"
      /\ b \in FieldBits({"Rc"}) <=> f.access = "Rc"
  BY Owned
<1> QED
  BY <1>1 DEF BusRead, AfterRead

\* The hardware's status bits are no bits of a plain field.
LEMMA StatusBits ==
  ASSUME LayoutOK, NEW bit \in FieldBits(AccessTags \ {"Rw", "Wo"})
  PROVE  /\ bit \notin FieldBits({"Rw"}) /\ bit \in Bits
         /\ bit \in FieldBits(AccessTags \ {"Wo"})
<1>1. PICK f \in layout : f.access \in AccessTags \ {"Rw", "Wo"} /\ bit \in maskBits(f)
  BY OwnedBySome
<1> QED
  BY <1>1, Owned, OwnedBySome

----------------------------------------------------------------------------
(* The parts of the invariant *)

\* What TypeOK says of the state, and what it says of the operation in progress
StateTyped ==
  /\ LayoutOK
  /\ live \subseteq FieldBits(AccessTags \ {"Wo"})
  /\ shadow \subseteq FieldBits(AccessTags)
  /\ res \in Word /\ window \in Word /\ staging \in Word

FgTyped ==
  /\ fg.word \in Word
  /\ fg.pc \in {"idle", "load", "store"} /\ (fg.pc = "idle" <=> fg = None)
  /\ fg.target \in Targets
  /\ DOMAIN fg.arg \subseteq layout

Parts == StateTyped /\ Requested /\ Loaded /\ CopyKnown

\* The operation in progress has the fields of its record.
LEMMA RequestFields ==
  ASSUME LayoutOK, Requested, fg # None
  PROVE  /\ fg.op \in WriteOps \cup ReadOps \cup CopyOps
         /\ fg.target \in Targets /\ fg.arg \in ArgsOf(fg.op)
         /\ fg.pc \in {"load", "store"} /\ fg.word \in Word
         /\ ArgOK(fg.arg) /\ Compiles(fg.op, fg.arg)
         /\ fg = [op |-> fg.op, target |-> fg.target, arg |-> fg.arg, pc |-> fg.pc,
                  word |-> fg.word]
<1>1. fg \in [op : WriteOps \cup ReadOps \cup CopyOps, target : Targets,
              arg : ArgsOf(fg.op), pc : {"load", "store"}, word : Word]
  BY DEF Requested
<1>2. fg.arg \in ArgsOf(fg.op)
  BY <1>1
<1>3. ArgOK(fg.arg)
  BY <1>2, ArgsTyped
<1>4. Compiles(fg.op, fg.arg)
  BY DEF Requested
<1> QED
  BY <1>1, <1>2, <1>3, <1>4

LEMMA NoneFields ==
  /\ None.op = "none" /\ None.target = "live" /\ None.pc = "idle" /\ None.word = {}
  /\ DOMAIN None.arg = {}
  /\ None.op \notin WriteOps \cup ReadOps \cup CopyOps
<1>1. None.arg = <<>>
  BY DEF None
<1>2. DOMAIN None.arg = {}
  BY <1>1
<1> QED
  BY <1>2 DEF None, WriteOps, ReadOps, CopyOps

LEMMA RequestTyped ==
  ASSUME LayoutOK, Requested
  PROVE  FgTyped
<1>1. CASE fg = None
  BY <1>1, NoneFields DEF FgTyped, Targets, Word
<1>2. CASE fg # None
  <2>1. fg.pc # "idle"
    BY <1>2, RequestFields
  <2> QED
    BY <1>2, <2>1, RequestFields DEF FgTyped, ArgOK
<1> QED
  BY <1>1, <1>2

LEMMA PartsSuffice ==
  Parts => RegisterInv
<1> SUFFICES ASSUME Parts PROVE RegisterInv
  OBVIOUS
<1>1. StateTyped /\ FgTyped
  BY RequestTyped DEF Parts, StateTyped
<1>2. TypeOK
  BY <1>1 DEF StateTyped, LayoutOK, FgTyped, TypeOK
<1> QED
  BY <1>2 DEF Parts, RegisterInv

LEMMA InvParts ==
  ASSUME RegisterInv
  PROVE  Parts
BY DEF Parts, RegisterInv, TypeOK, StateTyped, LayoutOK

\* The register of a behaviour never changes its layout.
LEMMA Frame ==
  ASSUME LayoutOK, UNCHANGED <<program, layout>>
  PROVE  /\ LayoutOK' /\ Targets' = Targets
         /\ \A A : FieldBits(A)' = FieldBits(A)
         /\ \A op : ArgsOf(op)' = ArgsOf(op)
<1>1. \A A : FieldBits(A)' = FieldBits(A)
  BY DEF FieldBits
<1>2. Args' = Args /\ Payloads' = Payloads
  BY DEF Args, Payloads
<1>3. \A op : ArgsOf(op)' = ArgsOf(op)
  BY <1>2 DEF ArgsOf
<1> QED
  BY <1>1, <1>3 DEF LayoutOK, Targets

\* A change of the live word is noted as long as a staged update is in progress.
LEMMA ChangesNoted ==
  ASSUME StateTyped, CopyKnown, UNCHANGED <<program, layout, shadow>>,
         NEW word, word \subseteq FieldBits(AccessTags \ {"Wo"}), Changes(word)
  PROVE  CopyKnown' /\ staging' \in Word /\ live' = word /\ live' \subseteq FieldBits(AccessTags \ {"Wo"})'
<1>1. FieldBits({"Rw"})' = FieldBits({"Rw"})
      /\ FieldBits(AccessTags \ {"Wo"})' = FieldBits(AccessTags \ {"Wo"})
  BY Frame DEF StateTyped
<1>2. live' = word /\ staging' = staging \cup Differ(live, word) /\ shadow' = shadow
  BY DEF Changes
<1>3. Differ(live, word) \subseteq Bits
  BY OwnedBySome DEF StateTyped, Differ
<1>4. staging' \in Word
  BY <1>2, <1>3 DEF StateTyped, Word
<1>5. Differ(live', shadow') \subseteq Differ(live, shadow) \cup Differ(live, word)
  BY <1>2 DEF Differ
<1>6. CopyKnown'
  BY <1>1, <1>2, <1>5 DEF CopyKnown
<1> QED
  BY <1>1, <1>2, <1>4, <1>6

\* A word that is read, and what a read leaves behind, are words of the register.
LEMMA ReadTyped ==
  ASSUME StateTyped
  PROVE  /\ BusRead(live) \subseteq FieldBits(AccessTags) /\ BusRead(live) \in Word
         /\ AfterRead(live) \subseteq FieldBits(AccessTags \ {"Wo"})
         /\ shadow \in Word /\ live \in Word
<1>1. /\ FieldBits(AccessTags \ {"Wo"}) \subseteq FieldBits(AccessTags)
      /\ FieldBits(AccessTags) \subseteq Bits
  BY OwnedBySome DEF StateTyped
<1> QED
  BY <1>1 DEF StateTyped, BusRead, AfterRead, Word

----------------------------------------------------------------------------
(* The steps *)

LEMMA InitParts ==
  Init => Parts
<1> SUFFICES ASSUME Init PROVE Parts
  OBVIOUS
<1>1. LayoutOK
  BY DEF Init, LayoutOK
<1>2. live \subseteq FieldBits(AccessTags \ {"Wo"})
  <2>1. live \subseteq FieldBits(AccessTags) /\ live \cap FieldBits({"Wo"}) = {}
    BY DEF Init
  <2>2. ASSUME NEW b \in live PROVE b \in FieldBits(AccessTags \ {"Wo"})
    <3>1. PICK f \in layout : f.access \in AccessTags /\ b \in maskBits(f)
      BY <1>1, <2>1, OwnedBySome
    <3>2. b \notin FieldBits({"Wo"})
      BY <2>1
    <3> QED
      BY <1>1, <3>1, <3>2, Owned
  <2> QED
    BY <2>2
<1>3. StateTyped
  BY <1>1, <1>2 DEF Init, StateTyped, Word, NotStaging
<1>4. Requested
  BY DEF Init, Requested
<1>5. Loaded
  BY NoneFields DEF Init, Loaded, InWindow
<1>6. CopyKnown
  BY <1>1, OwnedBySome DEF Init, CopyKnown, NotStaging
<1> QED
  BY <1>3, <1>4, <1>5, <1>6 DEF Parts

LEMMA CallParts ==
  ASSUME Parts, NEW op \in WriteOps \cup ReadOps \cup CopyOps, NEW target \in Targets,
         NEW arg \in ArgsOf(op), op \in CopyOps => program.keepsCopy /\ target = "live",
         Call(op, target, arg)
  PROVE  Parts'
<1> DEFINE pc0 == IF op \in {"assign", "commit"} THEN "store" ELSE "load"
<1>1. /\ fg' = [op |-> op, target |-> target, arg |-> arg, word |-> {}, pc |-> pc0]
      /\ UNCHANGED <<program, layout, live, shadow, window, staging>> /\ res' = {}
      /\ Compiles(op, arg)
  BY DEF Call
<1>2. LayoutOK' /\ Targets' = Targets /\ (\A A : FieldBits(A)' = FieldBits(A))
      /\ (\A o : ArgsOf(o)' = ArgsOf(o))
  BY <1>1, Frame DEF Parts, StateTyped
<1>3. StateTyped'
  BY <1>1, <1>2 DEF Parts, StateTyped, Word
<1>4. /\ fg'.op = op /\ fg'.target = target /\ fg'.arg = arg /\ fg'.word = {}
      /\ fg'.pc = pc0
  BY <1>1
<1>5. pc0 \in {"load", "store"} /\ (pc0 = "store" <=> op \in {"assign", "commit"})
  OBVIOUS
<1>6. Requested'
  <2>0. ArgsOf(fg.op)' = ArgsOf(op)
    BY <1>1, <1>4 DEF ArgsOf, Args, Payloads
  <2>1. (fg \in [op : WriteOps \cup ReadOps \cup CopyOps, target : Targets,
                 arg : ArgsOf(fg.op), pc : {"load", "store"}, word : Word])'
    BY <1>1, <1>2, <1>5, <2>0 DEF Word
  <2>2. /\ fg'.op \in {"assign", "commit"} => fg'.pc = "store"
        /\ fg'.op \in ReadOps \cup {"snapshot"} => fg'.pc = "load"
    BY <1>4 DEF ReadOps
  <2>3. fg'.op \in CopyOps => program'.keepsCopy /\ fg'.target = "live"
    BY <1>1, <1>4
  <2> QED
    BY <1>1, <1>2, <1>4, <2>1, <2>2, <2>3 DEF Requested
<1>7. Loaded'
  <2>1. fg'.pc = "store" => ~ IsRmw(fg'.op)
    BY <1>4, <1>5 DEF IsRmw, WriteOps
  <2> QED
    BY <2>1 DEF Loaded, InWindow
<1>8. CopyKnown'
  BY <1>1, <1>2 DEF Parts, CopyKnown
<1> QED
  BY <1>3, <1>6, <1>7, <1>8 DEF Parts

\* After an operation has ended nothing is requested and nothing is loaded.
LEMMA Ended ==
  ASSUME fg' = None
  PROVE  Requested' /\ Loaded'
<1>1. fg'.pc = "idle"
  BY NoneFields
<1> QED
  BY <1>1 DEF Requested, Loaded, InWindow, None

LEMMA LoadParts ==
  ASSUME Parts, Load
  PROVE  Parts'
<1> DEFINE word == IF fg.target = "live" THEN BusRead(live) ELSE shadow
<1>1. /\ fg.pc = "load" /\ fg.op \in WriteOps
      /\ fg' = [fg EXCEPT !.pc = "store", !.word = word]
      /\ UNCHANGED <<program, layout, shadow, res>> /\ window' = {}
      /\ IF fg.target = "live" THEN Changes(AfterRead(live)) ELSE UNCHANGED <<live, staging>>
      /\ StateTyped /\ Requested /\ Loaded /\ CopyKnown
  BY DEF Load, Parts
<1>2. fg # None
  BY <1>1, NoneFields
<1>3. LayoutOK /\ LayoutOK' /\ Targets' = Targets /\ (\A A : FieldBits(A)' = FieldBits(A))
      /\ (\A o : ArgsOf(o)' = ArgsOf(o))
  BY <1>1, Frame DEF StateTyped
<1>4. CopyKnown' /\ StateTyped'
  <2>1. CASE fg.target = "live"
    <3>1. CopyKnown' /\ staging' \in Word /\ live' \subseteq FieldBits(AccessTags \ {"Wo"})'
      BY <1>1, <2>1, ReadTyped, ChangesNoted
    <3> QED
      BY <1>1, <1>3, <3>1 DEF StateTyped, Word
  <2>2. CASE fg.target # "live"
    BY <1>1, <1>3, <2>2 DEF StateTyped, CopyKnown, Word
  <2> QED
    BY <2>1, <2>2
<1>5. /\ fg.target \in Targets /\ fg.arg \in ArgsOf(fg.op) /\ Compiles(fg.op, fg.arg)
      /\ fg = [op |-> fg.op, target |-> fg.target, arg |-> fg.arg, pc |-> fg.pc,
               word |-> fg.word]
  BY <1>1, <1>2, <1>3, RequestFields
<1>6. fg' = [op |-> fg.op, target |-> fg.target, arg |-> fg.arg, pc |-> "store", word |-> word]
  BY <1>1, <1>5
<1>7. /\ fg'.op = fg.op /\ fg'.target = fg.target /\ fg'.arg = fg.arg /\ fg'.pc = "store"
      /\ fg'.word = word
  BY <1>6
<1>8. fg.op \notin ReadOps \cup CopyOps /\ fg.op # "assign"
  BY <1>1, <1>2 DEF WriteOps, ReadOps, CopyOps, Requested
<1>9. word \in Word
  BY <1>1, ReadTyped
<1>10. Requested'
  <2>0. ArgsOf(fg.op)' = ArgsOf(fg.op)
    BY <1>1, <1>7 DEF ArgsOf, Args, Payloads
  <2>1. (fg \in [op : WriteOps \cup ReadOps \cup CopyOps, target : Targets,
                 arg : ArgsOf(fg.op), pc : {"load", "store"}, word : Word])'
    BY <1>1, <1>3, <1>5, <1>6, <1>9, <2>0
  <2>2. Compiles(fg'.op, fg'.arg)
    BY <1>5, <1>7
  <2>3. fg'.pc = "store" /\ fg'.op \notin ReadOps \cup {"snapshot"} /\ fg'.op \notin CopyOps
    BY <1>7, <1>8 DEF CopyOps
  <2> QED
    BY <2>1, <2>2, <2>3 DEF Requested
<1>11. Loaded'
  <2>1. ASSUME fg.target = "live"
        PROVE  Differ(live', word) \cap FieldBits({"Rw", "W1s", "W0c"}) = {}
    <3>1. live' = AfterRead(live) /\ word = BusRead(live)
      BY <1>1, <2>1 DEF Changes
    <3>2. SUFFICES ASSUME NEW b \in FieldBits({"Rw", "W1s", "W0c"})
                   PROVE  b \notin Differ(live', word)
      OBVIOUS
    <3>3. PICK f \in layout : f.access \in {"Rw", "W1s", "W0c"} /\ b \in maskBits(f)
      BY <1>3, OwnedBySome
    <3> QED
      BY <1>3, <3>1, <3>3, ReadBits DEF Differ
  <2>2. fg'.target # "live" => fg'.word = shadow'
    BY <1>1, <1>7
  <2>3. (InWindow => Differ(live, fg.word) \cap FieldBits({"Rw", "W1s", "W0c"}) \subseteq window)'
    BY <1>3, <1>7, <2>1 DEF InWindow
  <2>4. (window \cap FieldBits({"Rw"}) = {})'
    BY <1>1
  <2> QED
    BY <2>2, <2>3, <2>4 DEF Loaded
<1> QED
  BY <1>4, <1>10, <1>11 DEF Parts

LEMMA StoreLiveParts ==
  ASSUME Parts, StoreLive
  PROVE  Parts'
<1>1. /\ Changes(BusWrite(live, NewWord(fg.op, fg.arg, fg.word)))
      /\ fg' = None /\ window' = {} /\ UNCHANGED <<program, layout, shadow, res>>
      /\ StateTyped /\ CopyKnown /\ LayoutOK
  BY DEF StoreLive, Parts, StateTyped
<1>2. LayoutOK' /\ (\A A : FieldBits(A)' = FieldBits(A))
  BY <1>1, Frame
<1>3. CopyKnown' /\ staging' \in Word /\ live' \subseteq FieldBits(AccessTags \ {"Wo"})'
  BY <1>1, BusWriteTyped, ChangesNoted
<1>4. StateTyped'
  BY <1>1, <1>2, <1>3 DEF StateTyped, Word
<1> QED
  BY <1>1, <1>3, <1>4, Ended DEF Parts

\* The local copy a compound operator stores is the copy it loaded: nobody else has it.
LEMMA StoreShadowParts ==
  ASSUME Parts, StoreShadow
  PROVE  Parts'
<1> DEFINE new == NewWord(fg.op, fg.arg, fg.word)
<1>1. /\ shadow' = new /\ fg' = None /\ window' = {} /\ UNCHANGED <<program, layout, live, res>>
      /\ staging' = IF fg.op \in {"assign", "keep"} THEN NotStaging
                    ELSE staging \cup Mask(fg.arg).bits
      /\ fg.pc = "store" /\ fg.op \in WriteOps /\ fg.target = "shadow"
      /\ StateTyped /\ CopyKnown /\ Requested /\ Loaded /\ LayoutOK
  BY DEF StoreShadow, Parts, StateTyped
<1>2. LayoutOK' /\ (\A A : FieldBits(A)' = FieldBits(A))
  BY <1>1, Frame
<1>3. fg # None
  BY <1>1, NoneFields
<1>4. ArgOK(fg.arg) /\ Compiles(fg.op, fg.arg)
  BY <1>1, <1>3, RequestFields
<1>5. IsRmw(fg.op) => fg.word = shadow
  BY <1>1 DEF Loaded
<1>6. shadow' \subseteq FieldBits(AccessTags)
  <2>1. CASE fg.op = "assign"
    BY <1>1, <1>4, <2>1, WriteValueBit DEF NewWord, assignWord
  <2>2. CASE fg.op # "assign"
    <3>1. fg.word \subseteq FieldBits(AccessTags)
      BY <1>1, <1>5, <2>2 DEF IsRmw, StateTyped
    <3> QED
      BY <1>1, <1>4, <3>1, NewWordBit
  <2> QED
    BY <2>1, <2>2
<1>7. Mask(fg.arg).bits \subseteq Bits
  BY <1>1, <1>4, MaskBit, OwnedBySome
<1>8. staging' \in Word
  BY <1>1, <1>7 DEF StateTyped, Word, NotStaging
<1>9. StateTyped'
  BY <1>1, <1>2, <1>6, <1>8 DEF StateTyped, Word
<1>10. CopyKnown'
  <2>1. SUFFICES ASSUME NEW b \in FieldBits({"Rw"}), b \in Differ(live, shadow')
                 PROVE  b \in staging'
    BY <1>1, <1>2 DEF CopyKnown
  <2>2. PICK f \in layout : f.access = "Rw" /\ b \in maskBits(f) /\ b \in Bits
    BY <1>1, OwnedBySome
  <2>3. CASE fg.op \in {"assign", "keep"}
    BY <1>1, <2>2, <2>3 DEF NotStaging
  <2>4. CASE fg.op \notin {"assign", "keep"} /\ f \in DOMAIN fg.arg
    <3>1. b \in Mask(fg.arg).bits
      BY <1>1, <1>4, <2>2, <2>4, MaskBit
    <3> QED
      BY <1>1, <2>4, <3>1
  <2>5. CASE fg.op \notin {"assign", "keep"} /\ f \notin DOMAIN fg.arg
    <3>1. fg.word = shadow
      BY <1>1, <1>5, <2>5 DEF IsRmw
    <3>2. b \in shadow' <=> NewBit(fg.op, fg.arg, f, b, fg.word)
      BY <1>1, <1>4, <2>2, NewWordBit
    <3>3. b \in shadow' <=> b \in shadow
      BY <2>5, <3>1, <3>2 DEF NewBit
    <3>4. b \in Differ(live, shadow)
      BY <2>1, <3>3 DEF Differ
    <3> QED
      BY <1>1, <2>1, <2>5, <3>4 DEF CopyKnown
  <2> QED
    BY <2>3, <2>4, <2>5
<1> QED
  BY <1>1, <1>9, <1>10, Ended DEF Parts

LEMMA ResultTyped ==
  ASSUME NEW op, NEW arg, NEW word
  PROVE  Result(op, arg, word) \in Word
<1>1. \A f : Get(f, word) \in Word
  BY DEF Get, FieldType, extract, ShiftRight, Word
<1>2. 0 \in Bits
  BY WidthAssumption DEF Bits
<1> QED
  BY <1>1, <1>2 DEF Result, If, Word

LEMMA ReadParts ==
  ASSUME Parts, Read
  PROVE  Parts'
<1>1. /\ res' \in Word /\ fg' = None /\ window' = {} /\ UNCHANGED <<program, layout, shadow>>
      /\ IF fg.target = "live" THEN Changes(AfterRead(live)) ELSE UNCHANGED <<live, staging>>
      /\ StateTyped /\ CopyKnown /\ LayoutOK
  BY ResultTyped DEF Read, Parts, StateTyped
<1>2. LayoutOK' /\ (\A A : FieldBits(A)' = FieldBits(A))
  BY <1>1, Frame
<1>3. CopyKnown' /\ StateTyped'
  <2>1. CASE fg.target = "live"
    <3>1. CopyKnown' /\ staging' \in Word /\ live' \subseteq FieldBits(AccessTags \ {"Wo"})'
      BY <1>1, <2>1, ReadTyped, ChangesNoted
    <3> QED
      BY <1>1, <1>2, <3>1 DEF StateTyped, Word
  <2>2. CASE fg.target # "live"
    BY <1>1, <1>2, <2>2 DEF StateTyped, CopyKnown, Word
  <2> QED
    BY <2>1, <2>2
<1> QED
  BY <1>1, <1>3, Ended DEF Parts

LEMMA SnapshotParts ==
  ASSUME Parts, Snapshot
  PROVE  Parts'
<1>1. /\ shadow' = BusRead(live) /\ live' = AfterRead(live) /\ staging' = {}
      /\ fg' = None /\ window' = {} /\ UNCHANGED <<program, layout, res>>
      /\ StateTyped /\ LayoutOK
  BY DEF Snapshot, Parts, StateTyped
<1>2. LayoutOK' /\ (\A A : FieldBits(A)' = FieldBits(A))
  BY <1>1, Frame
<1>3. StateTyped'
  BY <1>1, <1>2, ReadTyped DEF StateTyped, Word
<1>4. CopyKnown'
  <2>1. SUFFICES ASSUME NEW b \in FieldBits({"Rw"}) PROVE b \notin Differ(live', shadow')
    BY <1>1, <1>2 DEF CopyKnown
  <2>2. PICK f \in layout : f.access = "Rw" /\ b \in maskBits(f)
    BY <1>1, OwnedBySome
  <2> QED
    BY <1>1, <2>2, ReadBits DEF Differ
<1> QED
  BY <1>1, <1>3, <1>4, Ended DEF Parts

LEMMA CommitParts ==
  ASSUME Parts, Commit
  PROVE  Parts'
<1>1. /\ live' = BusWrite(live, shadow) /\ staging' = Bits
      /\ fg' = None /\ window' = {} /\ UNCHANGED <<program, layout, shadow, res>>
      /\ StateTyped /\ LayoutOK
  BY DEF Commit, Parts, StateTyped, NotStaging
<1>2. LayoutOK' /\ (\A A : FieldBits(A)' = FieldBits(A))
  BY <1>1, Frame
<1>3. StateTyped'
  BY <1>1, <1>2, BusWriteTyped DEF StateTyped, Word
<1>4. CopyKnown'
  BY <1>1, <1>2, OwnedBySome DEF CopyKnown
<1> QED
  BY <1>1, <1>3, <1>4, Ended DEF Parts

\* The operation in progress, if it stays the same, stays as requested.
LEMMA RequestedStays ==
  ASSUME Requested, UNCHANGED <<program, layout, fg>>
  PROVE  Requested'
<1>1. Targets' = Targets /\ ArgsOf(fg.op)' = ArgsOf(fg.op)
  BY DEF Targets, ArgsOf, Args, Payloads
<1>2. CASE fg = None
  BY <1>2 DEF Requested
<1>3. CASE fg # None
  <2>1. (fg \in [op : WriteOps \cup ReadOps \cup CopyOps, target : Targets,
                 arg : ArgsOf(fg.op), pc : {"load", "store"}, word : Word])'
    BY <1>1, <1>3 DEF Requested
  <2>2. Compiles(fg'.op, fg'.arg)
    BY <1>3 DEF Requested
  <2>3. /\ fg'.op \in {"assign", "commit"} => fg'.pc = "store"
        /\ fg'.op \in ReadOps \cup {"snapshot"} => fg'.pc = "load"
        /\ fg'.op \in CopyOps => program'.keepsCopy /\ fg'.target = "live"
    BY <1>3 DEF Requested
  <2> QED
    BY <2>1, <2>2, <2>3 DEF Requested
<1> QED
  BY <1>2, <1>3

\* What an interrupt handler or the hardware changes between a load and a store is noted.
LEMMA InterferenceParts ==
  ASSUME Parts, UNCHANGED <<program, layout, shadow, fg, res>>,
         NEW word, word \subseteq FieldBits(AccessTags \ {"Wo"}), Changes(word),
         NEW bits, bits \in Word, Differ(live, word) \subseteq bits,
         window' = IF InWindow THEN window \cup bits ELSE {},
         InWindow /\ program.masks => bits \cap FieldBits({"Rw"}) = {}
  PROVE  Parts'
<1>1. StateTyped /\ Requested /\ Loaded /\ CopyKnown /\ LayoutOK
  BY DEF Parts, StateTyped
<1>2. LayoutOK' /\ (\A A : FieldBits(A)' = FieldBits(A))
  BY <1>1, Frame
<1>3. CopyKnown' /\ staging' \in Word /\ live' = word
      /\ live' \subseteq FieldBits(AccessTags \ {"Wo"})'
  BY <1>1, ChangesNoted
<1>4. window' \in Word
  BY <1>1 DEF StateTyped, Word
<1>5. StateTyped'
  BY <1>1, <1>2, <1>3, <1>4 DEF StateTyped
<1>6. InWindow' <=> InWindow
  BY DEF InWindow
<1>7. (InWindow => Differ(live, fg.word) \cap FieldBits({"Rw", "W1s", "W0c"}) \subseteq window)'
  <2>1. Differ(word, fg.word) \subseteq Differ(live, fg.word) \cup Differ(live, word)
    BY DEF Differ
  <2> QED
    BY <1>1, <1>2, <1>3, <1>6, <2>1 DEF Loaded
<1>8. (InWindow /\ program.masks => window \cap FieldBits({"Rw"}) = {})'
  BY <1>1, <1>2, <1>6 DEF Loaded
<1>9. (fg.pc = "store" /\ IsRmw(fg.op) /\ fg.target = "shadow" => fg.word = shadow)'
  BY <1>1 DEF Loaded
<1>10. Loaded'
  BY <1>7, <1>8, <1>9 DEF Loaded
<1> QED
  BY <1>1, <1>3, <1>5, <1>10, RequestedStays DEF Parts

LEMMA IsrWriteParts ==
  ASSUME Parts, NEW op, NEW arg, IsrWrite(op, arg)
  PROVE  Parts'
<1> DEFINE loaded == IF IsRmw(op) THEN AfterRead(live) ELSE live
           word   == BusWrite(loaded, NewWord(op, arg, BusRead(live)))
<1>1. /\ program.masks => ~ InWindow
      /\ Changes(word) /\ window' = IF InWindow THEN window \cup Differ(live, word) ELSE {}
      /\ UNCHANGED <<program, layout, shadow, fg, res>>
  BY DEF IsrWrite
<1>2. word \subseteq FieldBits(AccessTags \ {"Wo"})
  BY BusWriteTyped DEF Parts, StateTyped
<1>3. Differ(live, word) \in Word
  BY <1>2, ReadTyped, OwnedBySome DEF Parts, StateTyped, Differ, Word
<1> HIDE DEF word
<1> QED
  BY <1>1, <1>2, <1>3, InterferenceParts

LEMMA HardwareParts ==
  ASSUME Parts, NEW bit, Hardware(bit)
  PROVE  Parts'
<1> DEFINE word == Differ(live, {bit})
<1>1. /\ bit \in FieldBits(AccessTags \ {"Rw", "Wo"}) /\ Changes(word)
      /\ window' = IF InWindow THEN window \cup {bit} ELSE {}
      /\ UNCHANGED <<program, layout, shadow, fg, res>>
  BY DEF Hardware
<1>2. bit \notin FieldBits({"Rw"}) /\ bit \in Bits /\ bit \in FieldBits(AccessTags \ {"Wo"})
  BY <1>1, StatusBits DEF Parts, StateTyped
<1>3. word \subseteq FieldBits(AccessTags \ {"Wo"})
  BY <1>2 DEF Parts, StateTyped, Differ
<1>4. Differ(live, word) \subseteq {bit} /\ {bit} \in Word
  BY <1>2 DEF Differ, Word
<1> HIDE DEF word
<1> QED
  BY <1>1, <1>2, <1>3, <1>4, InterferenceParts

LEMMA NextParts ==
  ASSUME Parts, [Next]_vars
  PROVE  Parts'
<1>1. CASE UNCHANGED vars
  <2>1. UNCHANGED <<program, layout, live, shadow, fg, res, window, staging>>
    BY <1>1 DEF vars
  <2>2. StateTyped'
    BY <2>1, Frame DEF Parts, StateTyped
  <2>3. Requested'
    BY <2>1, RequestedStays DEF Parts
  <2>4. FieldBits({"Rw", "W1s", "W0c"})' = FieldBits({"Rw", "W1s", "W0c"})
        /\ FieldBits({"Rw"})' = FieldBits({"Rw"})
    BY <2>1, Frame DEF Parts, StateTyped
  <2>5. Loaded'
    BY <2>1, <2>4 DEF Parts, Loaded, InWindow
  <2>6. CopyKnown'
    BY <2>1, <2>4 DEF Parts, CopyKnown
  <2> QED
    BY <2>2, <2>3, <2>5, <2>6 DEF Parts
<1>2. ASSUME NEW op \in WriteOps \cup ReadOps, NEW target \in Targets,
             NEW arg \in ArgsOf(op), Call(op, target, arg)
      PROVE  Parts'
  <2>1. op \notin CopyOps
    BY DEF WriteOps, ReadOps, CopyOps
  <2> QED
    BY <1>2, <2>1, CallParts
<1>3. ASSUME program.keepsCopy, NEW op \in CopyOps, Call(op, "live", <<>>)
      PROVE  Parts'
  <2>1. <<>> \in ArgsOf(op) /\ "live" \in Targets
    BY DEF ArgsOf, CopyOps, Targets
  <2> QED
    BY <1>3, <2>1, CallParts
<1>4. ASSUME NEW op \in WriteOps, NEW arg \in IsrArgs(op), IsrWrite(op, arg)
      PROVE  Parts'
  BY <1>4, IsrWriteParts
<1>5. ASSUME NEW bit \in Bits, Hardware(bit)
      PROVE  Parts'
  BY <1>5, HardwareParts
<1>6. CASE Load \/ StoreLive \/ StoreShadow \/ Read \/ Snapshot \/ Commit
  BY <1>6, LoadParts, StoreLiveParts, StoreShadowParts, ReadParts, SnapshotParts, CommitParts
<1> QED
  BY <1>1, <1>2, <1>3, <1>4, <1>5, <1>6 DEF Next

----------------------------------------------------------------------------
(* The invariant *)

\* The word a compound operator has loaded, the local copy and the bookkeeping of what
\* others changed agree with the live word in every reachable state.
THEOREM RegisterInvariance ==
  Spec => []RegisterInv
<1>1. Init => Parts
  BY InitParts
<1>2. Parts /\ [Next]_vars => Parts'
  BY NextParts
<1>3. Parts => RegisterInv
  BY PartsSuffice
<1> QED
  BY <1>1, <1>2, <1>3, PTL DEF Spec

\* Reserved bits stay zero: no operator of Reg or Register (mmio.hpp:761-903, 958-1092)
\* writes outside the fields of the register, however they and interrupts are interleaved.
THEOREM RegisterTypeCorrect ==
  Spec => []TypeOK
<1>1. RegisterInv => TypeOK
  BY DEF RegisterInv
<1> QED
  BY <1>1, RegisterInvariance, PTL

----------------------------------------------------------------------------
(* What a store and a commit may do to fields the program did not name *)

\* One store, one field the operation does not name, one bit of it
LEMMA StoreKeepsBit ==
  ASSUME Parts, StoreLive, NEW f \in layout \ DOMAIN fg.arg, NEW b \in maskBits(f),
         b \in Differ(live, live')
  PROVE  IF fg.op \in {"assign", "keep"} THEN f.access \notin ZeroSafe
         ELSE f.access \in EchoSafe => b \in window
<1> DEFINE new == NewWord(fg.op, fg.arg, fg.word)
<1>1. /\ fg.pc = "store" /\ fg.op \in WriteOps /\ fg.target = "live"
      /\ live' = BusWrite(live, new)
      /\ StateTyped /\ Requested /\ Loaded /\ LayoutOK
  BY DEF StoreLive, Changes, Parts, StateTyped
<1>2. ArgOK(fg.arg) /\ Compiles(fg.op, fg.arg)
  BY <1>1, NoneFields, RequestFields
<1>3. b \in new <=> fg.op \notin {"assign", "keep"} /\ b \in fg.word
  BY <1>1, <1>2, NewWordBit DEF NewBit
<1>4. b \in live' <=>
        \/ f.access \in {"Ro", "Rc"} /\ b \in live
        \/ f.access = "Rw" /\ b \in new
        \/ f.access = "W1c" /\ b \in live /\ b \notin new
        \/ f.access = "W1s" /\ (b \in live \/ b \in new)
        \/ f.access = "W1t" /\ (b \in live <=> b \notin new)
        \/ f.access = "W0c" /\ b \in live /\ b \in new
        \/ f.access = "W0s" /\ (b \in live \/ b \notin new)
  BY <1>1, BusWriteBit
<1>5. b \in live <=> b \notin live'
  BY DEF Differ
<1>6. f.access = "Wo" => b \notin live /\ b \notin live'
  <2>1. b \in FieldBits(AccessTags \ {"Wo"}) <=> f.access \in AccessTags \ {"Wo"}
    BY <1>1, Owned
  <2> QED
    BY <1>1, <1>4, <2>1 DEF StateTyped
<1>7. CASE fg.op \in {"assign", "keep"}
  BY <1>3, <1>4, <1>5, <1>6, <1>7 DEF ZeroSafe
<1>8. CASE fg.op \notin {"assign", "keep"}
  <2>1. SUFFICES ASSUME f.access \in EchoSafe PROVE b \in window
    BY <1>8
  <2>2. InWindow
    BY <1>1, <1>8 DEF InWindow, IsRmw
  <2>3. f.access \in {"Rw", "W1s", "W0c"} /\ b \in Differ(live, fg.word)
    BY <1>3, <1>4, <1>5, <1>6, <1>8, <2>1 DEF EchoSafe, Differ
  <2>4. b \in FieldBits({"Rw", "W1s", "W0c"})
    BY <1>1, <2>3, Owned
  <2> QED
    BY <1>1, <2>2, <2>3, <2>4 DEF Loaded
<1> QED
  BY <1>7, <1>8

\* The operators that store a whole word back (|=, &=, ^=, set<Field>) change a field they
\* do not name only where an interrupt or the hardware changed it in between, and the
\* whole-register forms only where a stored zero means something.
THEOREM OtherFieldsKept ==
  Spec => StoresKeepOtherFields
<1> DEFINE Kept ==
      StoreLive =>
        \A f \in layout \ DOMAIN fg.arg :
          LET changed == Differ(live, live') \cap maskBits(f)
          IN  IF fg.op \in {"assign", "keep"}
              THEN f.access \in ZeroSafe => changed = {}
              ELSE f.access \in EchoSafe => changed \subseteq window
<1>1. RegisterInv /\ [Next]_vars => [Kept]_vars
  <2> SUFFICES ASSUME RegisterInv PROVE Kept
    OBVIOUS
  <2>1. Parts
    BY InvParts
  <2> QED
    BY <2>1, StoreKeepsBit
<1>2. Spec => [][Kept]_vars
  BY <1>1, RegisterInvariance, PTL DEF Spec
<1> QED
  BY <1>2 DEF StoresKeepOtherFields

\* A local copy committed to the register (mmio.hpp:982-985) undoes, in plain fields, only
\* what others changed after the snapshot.
THEOREM CommitLosesNothingElse ==
  Spec => CommitLosesOnlyWhatChanged
<1> DEFINE Lost == Commit => Differ(live, live') \cap FieldBits({"Rw"}) \subseteq staging
<1>1. RegisterInv /\ [Next]_vars => [Lost]_vars
  <2> SUFFICES ASSUME RegisterInv, Commit,
                      NEW b \in FieldBits({"Rw"}), b \in Differ(live, live')
               PROVE  b \in staging
    OBVIOUS
  <2>1. LayoutOK /\ CopyKnown /\ live' = BusWrite(live, shadow)
    BY InvParts DEF Parts, StateTyped, Commit
  <2>2. PICK f \in layout : f.access = "Rw" /\ b \in maskBits(f)
    BY <2>1, OwnedBySome
  <2>3. b \in live' <=> b \in shadow
    BY <2>1, <2>2, BusWriteBit
  <2>4. b \in Differ(live, shadow)
    BY <2>3 DEF Differ
  <2> QED
    BY <2>1, <2>4 DEF CopyKnown
<1>2. Spec => [][Lost]_vars
  BY <1>1, RegisterInvariance, PTL DEF Spec
<1> QED
  BY <1>2 DEF CommitLosesOnlyWhatChanged

----------------------------------------------------------------------------
(* The register as a family of fields *)

Stored == {f \in layout : f.access = "Rw"}

\* Words that agree on the bits of the plain fields hold the same payloads.
LEMMA SamePayloads ==
  ASSUME LayoutOK, NEW v, NEW w,
         \A f \in Stored : \A b \in maskBits(f) : b \in v <=> b \in w
  PROVE  [f \in Stored |-> extract(f, v)] = [f \in Stored |-> extract(f, w)]
<1>1. ASSUME NEW f \in Stored
      PROVE  extract(f, v) = extract(f, w)
  <2>1. v \cap maskBits(f) = w \cap maskBits(f)
    OBVIOUS
  <2> QED
    BY <2>1 DEF extract
<1> QED
  BY <1>1

\* The payload of a field, bit by bit
LEMMA PayloadBit ==
  ASSUME LayoutOK, NEW f \in layout, NEW word \in Word
  PROVE  /\ extract(f, word) \in Word
         /\ \A c : c \in extract(f, word) <=> c \in valueMask(f) /\ c + f.offset \in word
         /\ \A c \in valueMask(f) : /\ c + f.offset \in maskBits(f)
                                    /\ (c + f.offset) - f.offset = c
<1>1. /\ f \in FieldSpace /\ WellFormed(f) /\ f.offset \in Nat /\ f.width \in Nat
      /\ valueMask(f) \subseteq Int
  BY LayoutFacts, FieldBitsInWord DEF valueMask
<1>2. extract(f, word) \subseteq Int /\ extract(f, word) \in Word
  BY DEF extract, ShiftRight, Bits, Word
<1>3. \A c \in Int : c \in extract(f, word) <=> c \in valueMask(f) /\ c + f.offset \in word
  BY <1>1, ExtractBit
<1>4. \A c \in valueMask(f) : c + f.offset \in maskBits(f) /\ (c + f.offset) - f.offset = c
  BY <1>1 DEF valueMask, maskBits
<1> QED
  BY <1>1, <1>2, <1>3, <1>4

\* What a payload becomes when it is put into a field, here and in the abstract store
LEMMA FitIsFitted ==
  ASSUME NEW f, NEW payload
  PROVE  Store!Fit(f, payload) = Fitted(f, payload) /\ Fitted(f, payload) \subseteq valueMask(f)
BY DEF Store!Fit, Store!FieldType, Store!valueMask, Fitted, FieldType, valueMask

\* A word operation on the register is a field operation on the abstract store.
LEMMA AppliedToFields ==
  ASSUME LayoutOK, NEW op \in WriteOps, NEW arg, ArgOK(arg), Compiles(op, arg),
         NEW old \in Word, NEW word, NEW new \in Word,
         op # "assign" => \A f \in Stored : \A b \in maskBits(f) : b \in word <=> b \in old,
         \A f \in Stored : \A b \in maskBits(f) : b \in new <=> b \in NewWord(op, arg, word)
  PROVE  [f \in Stored |-> extract(f, new)]
           = Store!Applied(op, arg, [f \in Stored |-> extract(f, old)])
<1>1. ASSUME NEW f \in Stored
      PROVE  extract(f, new) =
               IF f \in DOMAIN arg
               THEN CASE op \in {"assign", "set"} -> Fitted(f, arg[f])
                      [] op = "or"                -> extract(f, old) \cup Fitted(f, arg[f])
                      [] op = "clear"             -> {}
                      [] op = "keep"              -> extract(f, old)
                      [] op = "toggle"            -> valueMask(f) \ extract(f, old)
               ELSE IF op \in {"assign", "keep"} THEN {} ELSE extract(f, old)
  <2>1. f \in layout
    BY DEF Stored
  <2>2. ASSUME NEW c \in valueMask(f)
        PROVE  /\ c \in extract(f, new) <=> NewBit(op, arg, f, c + f.offset, word)
               /\ c \in extract(f, old) <=> c + f.offset \in old
               /\ op # "assign" => (c + f.offset \in word <=> c + f.offset \in old)
               /\ (c + f.offset) - f.offset = c
    <3>1. c + f.offset \in maskBits(f) /\ (c + f.offset) - f.offset = c
      BY <2>1, PayloadBit
    <3>2. c + f.offset \in NewWord(op, arg, word) <=> NewBit(op, arg, f, c + f.offset, word)
      BY <2>1, <3>1, NewWordBit
    <3>3. /\ c \in extract(f, new) <=> c + f.offset \in new
          /\ c \in extract(f, old) <=> c + f.offset \in old
      BY <2>1, PayloadBit
    <3> QED
      BY <3>1, <3>2, <3>3
  <2>3. extract(f, new) \subseteq valueMask(f) /\ extract(f, old) \subseteq valueMask(f)
        /\ Fitted(f, arg[f]) \subseteq valueMask(f)
    BY <2>1, PayloadBit, FitIsFitted
  <2>4. CASE f \notin DOMAIN arg
    <3>1. \A c \in valueMask(f) :
            c \in extract(f, new) <=> op \notin {"assign", "keep"} /\ c \in extract(f, old)
      BY <2>2, <2>4 DEF NewBit
    <3> QED
      BY <2>3, <2>4, <3>1
  <2>5. CASE f \in DOMAIN arg
    <3>1. \A c \in valueMask(f) : c \in extract(f, new) <=>
            \/ op \in {"assign", "set"} /\ c \in Fitted(f, arg[f])
            \/ op = "or" /\ (c \in extract(f, old) \/ c \in Fitted(f, arg[f]))
            \/ op = "keep" /\ c \in extract(f, old)
            \/ op = "toggle" /\ c \notin extract(f, old)
      BY <2>2, <2>5 DEF NewBit
    <3>2. CASE op \in {"assign", "set"}
      BY <2>3, <2>5, <3>1, <3>2
    <3>3. CASE op = "or"
      BY <2>3, <2>5, <3>1, <3>3
    <3>4. CASE op = "clear"
      BY <2>3, <2>5, <3>1, <3>4
    <3>5. CASE op = "keep"
      BY <2>3, <2>5, <3>1, <3>5
    <3>6. CASE op = "toggle"
      BY <2>3, <2>5, <3>1, <3>6
    <3> QED
      BY <3>2, <3>3, <3>4, <3>5, <3>6 DEF WriteOps
  <2> QED
    BY <2>4, <2>5
<1> DEFINE before == [f \in Stored |-> extract(f, old)]
<1>2. Store!Stored = Stored /\ \A f : Store!valueMask(f) = valueMask(f)
  BY DEF Store!Stored, Stored, Store!valueMask, valueMask
<1>3. \A f \in Stored : before[f] = extract(f, old) /\ Store!Fit(f, arg[f]) = Fitted(f, arg[f])
  BY FitIsFitted
<1> HIDE DEF before
<1> DEFINE after(f) ==
      IF f \in DOMAIN arg
      THEN CASE op \in {"assign", "set"} -> Store!Fit(f, arg[f])
             [] op = "or"                -> before[f] \cup Store!Fit(f, arg[f])
             [] op = "clear"             -> {}
             [] op = "keep"              -> before[f]
             [] op = "toggle"            -> Store!valueMask(f) \ before[f]
      ELSE IF op \in {"assign", "keep"} THEN {} ELSE before[f]
<1>4. Store!Applied(op, arg, before) = [f \in Store!Stored |-> after(f)]
  BY DEF Store!Applied
<1>5. \A f \in Stored : after(f) = extract(f, new)
  <2>1. SUFFICES ASSUME NEW f \in Stored PROVE after(f) = extract(f, new)
    OBVIOUS
  <2>2. CASE f \notin DOMAIN arg
    BY <1>1, <1>3, <2>2
  <2>3. CASE f \in DOMAIN arg
    BY <1>1, <1>2, <1>3, <2>3
  <2> QED
    BY <2>2, <2>3
<1> HIDE DEF after
<1>6. Store!Applied(op, arg, before) = [f \in Stored |-> extract(f, new)]
  BY <1>2, <1>4, <1>5
<1> QED
  BY <1>6 DEF before

\* A predicate on a composed token holds when each of its fields holds what it names
\* (mmio.hpp:837-858, 1104-1120).
LEMMA PredicateOfFields ==
  ASSUME LayoutOK, NEW arg, ArgOK(arg), NEW word \in Word
  PROVE  predicate(word, ReadValue(arg)) <=>
           \A f \in DOMAIN arg : extract(f, word) = Fitted(f, arg[f])
<1> DEFINE tok(f) == ReadToken(f, arg[f])
<1>1. ASSUME NEW f \in DOMAIN arg
      PROVE  /\ tok(f).mask = maskBits(f) /\ tok(f).value \subseteq maskBits(f)
             /\ predicate(word, tok(f)) <=> extract(f, word) = Fitted(f, arg[f])
  <2>1. f \in FieldSpace /\ WellFormed(f) /\ arg[f] \in Word
    BY LayoutFacts DEF ArgOK
  <2>2. \E usage : tok(f) = encode(f, arg[f], usage)
    BY DEF ReadToken, value, state
  <2> QED
    BY <2>1, <2>2, EncodeInField, PredicateIsExact
<1>2. /\ ReadValue(arg).mask = UNION {tok(f).mask : f \in DOMAIN arg}
      /\ ReadValue(arg).value = UNION {tok(f).value : f \in DOMAIN arg}
  BY DEF ReadValue, Compose
<1>3. \A f, g \in DOMAIN arg : f # g => maskBits(f) \cap maskBits(g) = {}
  BY LayoutFacts DEF ArgOK
<1> HIDE DEF tok
<1>4. predicate(word, ReadValue(arg)) <=> \A f \in DOMAIN arg : predicate(word, tok(f))
  BY <1>1, <1>2, <1>3 DEF predicate
<1> QED
  BY <1>1, <1>4

\* Loads and stores leave plain fields what they are, and make them what is stored.
LEMMA PlainBits ==
  ASSUME LayoutOK, NEW word, NEW new
  PROVE  \A f \in Stored : \A b \in maskBits(f) :
           /\ b \in BusRead(word) <=> b \in word
           /\ b \in AfterRead(word) <=> b \in word
           /\ b \in BusWrite(word, new) <=> b \in new
BY ReadBits, BusWriteBit DEF Stored

\* A load sees the payloads of plain fields and leaves them there.
LEMMA LoadKeepsPayloads ==
  ASSUME LayoutOK, NEW word
  PROVE  /\ [f \in Stored |-> extract(f, BusRead(word))] = [f \in Stored |-> extract(f, word)]
         /\ [f \in Stored |-> extract(f, AfterRead(word))] = [f \in Stored |-> extract(f, word)]
<1>1. \A f \in Stored : \A b \in maskBits(f) : b \in BusRead(word) <=> b \in word
  BY PlainBits
<1>2. \A f \in Stored : \A b \in maskBits(f) : b \in AfterRead(word) <=> b \in word
  BY PlainBits
<1> QED
  BY <1>1, <1>2, SamePayloads

\* The state of the abstract store
Val  == [f \in Stored |-> extract(f, live)]
Copy == [f \in Stored |-> extract(f, shadow)]
Req  == [op |-> fg.op, target |-> fg.target, arg |-> fg.arg]

LEMMA StoreStutter ==
  ASSUME UNCHANGED <<layout, res>>, Val' = Val, Copy' = Copy, Req' = Req
  PROVE  UNCHANGED Store!vars
BY DEF Store!vars, Val, Copy, Req, Stored

\* An operation in progress is a request of the abstract store; without one there is none.
LEMMA RequestIsRequest ==
  ASSUME LayoutOK, Requested
  PROVE  /\ fg = None => Req = Store!None
         /\ fg # None => Req # Store!None /\ Store!IsRequest(Req)
         /\ Req.op = fg.op /\ Req.target = fg.target /\ Req.arg = fg.arg
<1>1. Req.op = fg.op /\ Req.target = fg.target /\ Req.arg = fg.arg
  BY DEF Req
<1>2. ASSUME fg = None PROVE Req = Store!None
  BY <1>2 DEF Req, None, Store!None
<1>3. ASSUME fg # None PROVE Req # Store!None /\ Store!IsRequest(Req)
  <2>1. /\ fg.op \in WriteOps \cup ReadOps \cup CopyOps
        /\ fg.target \in {"live", "shadow"} /\ DOMAIN fg.arg \subseteq layout
    BY <1>3, RequestFields DEF Targets, ArgOK
  <2>2. Store!None.op = "none"
    BY DEF Store!None
  <2>3. Req.op # "none"
    BY <1>1, <2>1 DEF WriteOps, ReadOps, CopyOps
  <2>4. Store!IsRequest(Req)
    BY <1>1, <2>1 DEF Store!IsRequest, Store!Ops, Store!WriteOps, Store!ReadOps, Store!CopyOps,
                       WriteOps, ReadOps, CopyOps
  <2> QED
    BY <2>2, <2>3, <2>4
<1> QED
  BY <1>1, <1>2, <1>3

LEMMA InitStore ==
  ASSUME Init
  PROVE  Store!Init
<1>1. LayoutOK /\ StateTyped /\ fg = None /\ shadow = {} /\ res = {}
  BY InitParts DEF Init, Parts, StateTyped
<1>2. Store!Stored = Stored /\ Store!Word = Word
  BY DEF Store!Stored, Stored, Store!Word, Store!Bits, Word, Bits
<1>3. ASSUME NEW f \in Stored
      PROVE  extract(f, live) \in Word /\ extract(f, shadow) = {}
  <2>1. extract(f, live) \in Word
    BY <1>1, ReadTyped, PayloadBit DEF Stored
  <2>2. extract(f, shadow) = {}
    BY <1>1 DEF extract, ShiftRight
  <2> QED
    BY <2>1, <2>2
<1>4. Val \in [Store!Stored -> Store!Word] /\ Copy = [f \in Store!Stored |-> {}]
  BY <1>2, <1>3 DEF Val, Copy
<1>5. Req = Store!None
  BY <1>1 DEF Req, None, Store!None
<1> QED
  BY <1>1, <1>4, <1>5 DEF Store!Init, Val, Copy, Req, Stored

LEMMA CallBegins ==
  ASSUME Parts, NEW op \in WriteOps \cup ReadOps \cup CopyOps, NEW target \in Targets,
         NEW arg \in ArgsOf(op), Call(op, target, arg)
  PROVE  Store!Begin
<1>1. /\ fg = None /\ res' = {} /\ UNCHANGED <<layout, live, shadow>>
      /\ fg' = [op |-> op, target |-> target, arg |-> arg, word |-> {},
                pc |-> IF op \in {"assign", "commit"} THEN "store" ELSE "load"]
  BY DEF Call
<1>2. Req = Store!None
  BY <1>1, RequestIsRequest DEF Parts, StateTyped
<1>3. /\ op \in Store!Ops /\ target \in {"live", "shadow"} /\ DOMAIN arg \subseteq layout
  BY ArgsTyped DEF Parts, StateTyped, ArgOK, Targets, Store!Ops, Store!WriteOps, Store!ReadOps,
                   Store!CopyOps, WriteOps, ReadOps, CopyOps
<1>4. Val' = Val /\ Copy' = Copy
  BY <1>1 DEF Val, Copy, Stored
<1>5. fg'.op = op /\ fg'.target = target /\ fg'.arg = arg
  BY <1>1
<1> QED
  BY <1>1, <1>2, <1>3, <1>4, <1>5 DEF Store!Begin, Store!IsRequest, Val, Copy, Req, Stored

\* The last step of an operation, seen from the abstract store
LEMMA Finishes ==
  ASSUME LayoutOK, Requested, fg # None, fg' = None, UNCHANGED layout,
         \/ /\ fg.op \in WriteOps /\ fg.target = "live"
            /\ Val' = Store!Applied(fg.op, fg.arg, Val) /\ UNCHANGED <<Copy, res>>
         \/ /\ fg.op \in WriteOps /\ fg.target = "shadow"
            /\ Copy' = Store!Applied(fg.op, fg.arg, Copy) /\ UNCHANGED <<Val, res>>
         \/ fg.op = "snapshot" /\ Copy' = Val /\ UNCHANGED <<Val, res>>
         \/ fg.op = "commit" /\ Val' = Copy /\ UNCHANGED <<Copy, res>>
  PROVE  Store!Finish
<1>1. Req # Store!None /\ Req.op = fg.op /\ Req.target = fg.target /\ Req.arg = fg.arg
  BY RequestIsRequest
<1>2. Req' = Store!None
  BY DEF Req, None, Store!None
<1>3. Store!WriteOps = WriteOps
  BY DEF Store!WriteOps, WriteOps
<1> QED
  BY <1>1, <1>2, <1>3 DEF Store!Finish, Val, Copy, Req, Stored

LEMMA LoadStutters ==
  ASSUME Parts, Load
  PROVE  UNCHANGED Store!vars
<1>1. /\ UNCHANGED <<layout, shadow, res>> /\ LayoutOK
      /\ live' \in {live, AfterRead(live)}
      /\ fg' = [fg EXCEPT !.pc = "store",
                          !.word = IF fg.target = "live" THEN BusRead(live) ELSE shadow]
      /\ fg # None /\ Requested
  BY NoneFields DEF Load, Parts, StateTyped, Changes
<1>2. Req' = Req
  BY <1>1, RequestFields DEF Req
<1>3. Val' = Val
  <2>1. CASE live' = live
    BY <1>1, <2>1 DEF Val, Stored
  <2>2. CASE live' = AfterRead(live)
    <3>1. [f \in Stored |-> extract(f, live')] = [f \in Stored |-> extract(f, live)]
      BY <1>1, <2>2, LoadKeepsPayloads
    <3> QED
      BY <1>1, <3>1 DEF Val, Stored
  <2> QED
    BY <1>1, <2>1, <2>2
<1>4. Copy' = Copy
  BY <1>1 DEF Copy, Stored
<1> QED
  BY <1>1, <1>2, <1>3, <1>4, StoreStutter

LEMMA HardwareStutters ==
  ASSUME Parts, NEW bit, Hardware(bit)
  PROVE  UNCHANGED Store!vars
<1>1. /\ UNCHANGED <<layout, shadow, fg, res>> /\ LayoutOK
      /\ live' = Differ(live, {bit}) /\ bit \in FieldBits(AccessTags \ {"Rw", "Wo"})
  BY DEF Hardware, Parts, StateTyped, Changes
<1>2. \A f \in Stored : \A b \in maskBits(f) : b # bit
  BY <1>1, StatusBits, Owned DEF Stored
<1>3. \A f \in Stored : \A b \in maskBits(f) : b \in live' <=> b \in live
  BY <1>1, <1>2 DEF Differ
<1>4. Val' = Val
  <2>1. [f \in Stored |-> extract(f, live')] = [f \in Stored |-> extract(f, live)]
    BY <1>1, <1>3, SamePayloads
  <2> QED
    BY <1>1, <2>1 DEF Val, Stored
<1>5. Copy' = Copy /\ Req' = Req
  BY <1>1 DEF Copy, Stored, Req
<1> QED
  BY <1>1, <1>4, <1>5, StoreStutter

\* With interrupts masked between load and store, what is stored is computed from what the
\* plain fields still hold.
LEMMA StoreLiveFinishes ==
  ASSUME Parts, StoreLive, program.masks
  PROVE  Store!Finish
<1> DEFINE stored == NewWord(fg.op, fg.arg, fg.word)
           new    == BusWrite(live, stored)
<1>1. /\ fg.pc = "store" /\ fg.op \in WriteOps /\ fg.target = "live" /\ live' = new
      /\ fg' = None /\ UNCHANGED <<layout, shadow, res>>
      /\ StateTyped /\ Requested /\ Loaded /\ LayoutOK /\ fg # None
  BY NoneFields DEF StoreLive, Changes, Parts, StateTyped
<1>2. ArgOK(fg.arg) /\ Compiles(fg.op, fg.arg)
  BY <1>1, RequestFields
<1>3. ASSUME fg.op # "assign", NEW f \in Stored, NEW b \in maskBits(f)
      PROVE  b \in fg.word <=> b \in live
  <2>1. InWindow
    BY <1>1, <1>3 DEF InWindow, IsRmw
  <2>2. b \in FieldBits({"Rw"}) /\ b \in FieldBits({"Rw", "W1s", "W0c"})
    BY <1>1, Owned DEF Stored
  <2>3. b \notin Differ(live, fg.word)
    BY <1>1, <2>1, <2>2 DEF Loaded
  <2> QED
    BY <2>3 DEF Differ
<1>4. \A f \in Stored : \A b \in maskBits(f) : b \in new <=> b \in stored
  BY <1>1, PlainBits
<1>5. live \in Word /\ new \in Word
  BY <1>1, ReadTyped, BusWriteTyped, OwnedBySome DEF Word
<1>6. [f \in Stored |-> extract(f, new)] = Store!Applied(fg.op, fg.arg, Val)
  <2> HIDE DEF new
  <2> QED
    BY <1>1, <1>2, <1>3, <1>4, <1>5, AppliedToFields DEF Val
<1>7. Val' = Store!Applied(fg.op, fg.arg, Val)
  BY <1>1, <1>6 DEF Val, Stored
<1>8. Copy' = Copy
  BY <1>1 DEF Copy, Stored
<1> QED
  BY <1>1, <1>7, <1>8, Finishes

LEMMA StoreShadowFinishes ==
  ASSUME Parts, Parts', StoreShadow
  PROVE  Store!Finish
<1> DEFINE new == NewWord(fg.op, fg.arg, fg.word)
<1>1. /\ fg.pc = "store" /\ fg.op \in WriteOps /\ fg.target = "shadow" /\ shadow' = new
      /\ fg' = None /\ UNCHANGED <<layout, live, res>>
      /\ StateTyped /\ Requested /\ Loaded /\ LayoutOK /\ fg # None
  BY NoneFields DEF StoreShadow, Parts, StateTyped
<1>2. ArgOK(fg.arg) /\ Compiles(fg.op, fg.arg)
  BY <1>1, RequestFields
<1>3. fg.op # "assign" => fg.word = shadow
  BY <1>1 DEF Loaded, IsRmw
<1>4. FieldBits(AccessTags)' = FieldBits(AccessTags)
  BY <1>1 DEF FieldBits
<1>5. shadow \in Word /\ new \in Word
  <2>1. shadow' \subseteq FieldBits(AccessTags)
    BY <1>4 DEF Parts, StateTyped
  <2> QED
    BY <1>1, <2>1, ReadTyped, OwnedBySome DEF Word
<1>6. [f \in Stored |-> extract(f, new)] = Store!Applied(fg.op, fg.arg, Copy)
  BY <1>1, <1>2, <1>3, <1>5, AppliedToFields DEF Copy
<1>7. Copy' = Store!Applied(fg.op, fg.arg, Copy)
  BY <1>1, <1>6 DEF Copy, Stored
<1>8. Val' = Val
  BY <1>1 DEF Val, Stored
<1> QED
  BY <1>1, <1>7, <1>8, Finishes

LEMMA SnapshotFinishes ==
  ASSUME Parts, Snapshot
  PROVE  Store!Finish
<1>1. /\ fg.op = "snapshot" /\ shadow' = BusRead(live) /\ live' = AfterRead(live)
      /\ fg' = None /\ UNCHANGED <<layout, res>> /\ Requested /\ LayoutOK /\ fg # None
  BY NoneFields DEF Snapshot, Parts, StateTyped
<1>2. /\ [f \in Stored |-> extract(f, shadow')] = [f \in Stored |-> extract(f, live)]
      /\ [f \in Stored |-> extract(f, live')] = [f \in Stored |-> extract(f, live)]
  BY <1>1, LoadKeepsPayloads
<1>3. Copy' = Val /\ Val' = Val
  BY <1>1, <1>2 DEF Val, Copy, Stored
<1> QED
  BY <1>1, <1>3, Finishes

LEMMA CommitFinishes ==
  ASSUME Parts, Commit
  PROVE  Store!Finish
<1>1. /\ fg.op = "commit" /\ live' = BusWrite(live, shadow) /\ shadow' = shadow
      /\ fg' = None /\ UNCHANGED <<layout, res>> /\ Requested /\ LayoutOK /\ fg # None
  BY NoneFields DEF Commit, Parts, StateTyped
<1>2. [f \in Stored |-> extract(f, live')] = [f \in Stored |-> extract(f, shadow)]
  BY <1>1, PlainBits, SamePayloads
<1>3. Val' = Copy /\ Copy' = Copy
  BY <1>1, <1>2 DEF Val, Copy, Stored
<1> QED
  BY <1>1, <1>3, Finishes

\* A read gives what the named fields hold, in the live register or in the local copy.
LEMMA ReadFinishes ==
  ASSUME Parts, Read
  PROVE  Store!Finish
<1> DEFINE word == IF fg.target = "live" THEN BusRead(live) ELSE shadow
           from == IF Req.target = "live" THEN Val ELSE Copy
           got  == IF Req.op = "get"
                   THEN UNION {IF f.kind = "value" THEN Store!FieldType(f, from[f]) ELSE from[f] :
                                 f \in DOMAIN Req.arg}
                   ELSE Store!If(\A f \in DOMAIN Req.arg : from[f] = Store!Fit(f, Req.arg[f]), 0)
<1>1. /\ fg.op \in ReadOps /\ res' = Result(fg.op, fg.arg, word)
      /\ live' \in {live, AfterRead(live)}
      /\ fg' = None /\ UNCHANGED <<layout, shadow>>
      /\ StateTyped /\ Requested /\ LayoutOK /\ fg # None
  BY NoneFields DEF Read, Changes, Parts, StateTyped
<1>8. Req # Store!None /\ Req.op = fg.op /\ Req.target = fg.target /\ Req.arg = fg.arg
  BY <1>1, RequestIsRequest
<1>2. ArgOK(fg.arg) /\ Compiles(fg.op, fg.arg)
  BY <1>1, RequestFields
<1>3. word \in Word
  BY <1>1, ReadTyped
<1>4. \A f \in Stored : from[f] = extract(f, word)
  <2>1. \A f \in Stored : extract(f, BusRead(live)) = extract(f, live)
    <3>1. [f \in Stored |-> extract(f, BusRead(live))] = [f \in Stored |-> extract(f, live)]
      BY <1>1, LoadKeepsPayloads
    <3>2. \A f \in Stored : [g \in Stored |-> extract(g, BusRead(live))][f] = extract(f, BusRead(live))
                             /\ [g \in Stored |-> extract(g, live)][f] = extract(f, live)
      OBVIOUS
    <3> QED
      BY <3>1, <3>2
  <2> QED
    BY <1>8, <2>1 DEF Val, Copy
<1>5. ASSUME DOMAIN Req.arg \subseteq Stored
      PROVE  res' = got
  <2>1. CASE fg.op = "get"
    <3>1. PICK g \in Stored : DOMAIN fg.arg = {g} /\ Only(fg.arg) = g
      BY <1>2, <1>5, <1>8, <2>1 DEF Compiles
    <3>2. res' = Get(g, word)
      BY <1>1, <2>1, <3>1 DEF Result
    <3>3. Get(g, word) = IF g.kind = "value" THEN Store!FieldType(g, from[g]) ELSE from[g]
      BY <1>4 DEF Get, FieldType, Store!FieldType
    <3> HIDE DEF word, from
    <3>4. got = IF g.kind = "value" THEN Store!FieldType(g, from[g]) ELSE from[g]
      BY <1>8, <2>1, <3>1
    <3> QED
      BY <3>2, <3>3, <3>4
  <2>2. CASE fg.op = "is"
    <3>1. predicate(word, ReadValue(fg.arg)) <=>
            \A f \in DOMAIN fg.arg : extract(f, word) = Fitted(f, fg.arg[f])
      BY <1>1, <1>2, <1>3, PredicateOfFields
    <3>2. predicate(word, ReadValue(fg.arg)) <=>
            \A f \in DOMAIN Req.arg : from[f] = Store!Fit(f, Req.arg[f])
      BY <1>4, <1>5, <1>8, <3>1, FitIsFitted
    <3>3. res' = If(predicate(word, ReadValue(fg.arg)), 0)
      BY <1>1, <2>2 DEF Result
    <3> HIDE DEF word, from
    <3> QED
      BY <1>8, <2>2, <3>2, <3>3 DEF If, Store!If
  <2> QED
    BY <1>1, <2>1, <2>2 DEF ReadOps
<1>6. Val' = Val
  <2>1. CASE live' = live
    BY <1>1, <2>1 DEF Val, Stored
  <2>2. CASE live' = AfterRead(live)
    <3>1. [f \in Stored |-> extract(f, live')] = [f \in Stored |-> extract(f, live)]
      BY <1>1, <2>2, LoadKeepsPayloads
    <3> QED
      BY <1>1, <3>1 DEF Val, Stored
  <2> QED
    BY <1>1, <2>1, <2>2
<1>7. Copy' = Copy
  BY <1>1 DEF Copy, Stored
<1>9. Req' = Store!None
  BY <1>1 DEF Req, None, Store!None
<1>10. Store!ReadOps = ReadOps /\ Store!Stored = Stored
  BY DEF Store!ReadOps, ReadOps, Store!Stored, Stored
<1> QED
  BY <1>1, <1>5, <1>6, <1>7, <1>8, <1>9, <1>10 DEF Store!Finish, Val, Copy, Req, Stored

\* An operation takes of a payload only what fits into the field.
LEMMA AppliedThroughFit ==
  ASSUME NEW op, NEW a, NEW c, NEW old, DOMAIN a = DOMAIN c,
         \A f \in DOMAIN a : Store!Fit(f, a[f]) = Store!Fit(f, c[f])
  PROVE  Store!Applied(op, a, old) = Store!Applied(op, c, old)
<1> DEFINE after(arg, f) ==
      IF f \in DOMAIN arg
      THEN CASE op \in {"assign", "set"} -> Store!Fit(f, arg[f])
             [] op = "or"                -> old[f] \cup Store!Fit(f, arg[f])
             [] op = "clear"             -> {}
             [] op = "keep"              -> old[f]
             [] op = "toggle"            -> Store!valueMask(f) \ old[f]
      ELSE IF op \in {"assign", "keep"} THEN {} ELSE old[f]
<1>1. /\ Store!Applied(op, a, old) = [f \in Store!Stored |-> after(a, f)]
      /\ Store!Applied(op, c, old) = [f \in Store!Stored |-> after(c, f)]
  BY DEF Store!Applied
<1>2. \A f \in Store!Stored : after(a, f) = after(c, f)
  <2>1. SUFFICES ASSUME NEW f \in Store!Stored PROVE after(a, f) = after(c, f)
    OBVIOUS
  <2>2. CASE f \notin DOMAIN a
    BY <2>2
  <2>3. CASE f \in DOMAIN a
    <3>1. Store!Fit(f, a[f]) = Store!Fit(f, c[f])
      BY <2>3
    <3>2. f \in DOMAIN c
      BY <2>3
    <3> QED
      BY <2>3, <3>1, <3>2
  <2> QED
    BY <2>2, <2>3
<1> HIDE DEF after
<1> QED
  BY <1>1, <1>2

\* An interrupt handler's operation on one field is one step of the abstract store, whatever
\* the foreground has loaded.
LEMMA IsrWritesField ==
  ASSUME Parts, NEW op \in WriteOps, NEW arg \in IsrArgs(op), IsrWrite(op, arg)
  PROVE  Store!IsrWrite
<1> DEFINE stored == NewWord(op, arg, BusRead(live))
           new    == BusWrite(IF IsRmw(op) THEN AfterRead(live) ELSE live, stored)
<1>1. /\ live' = new /\ Compiles(op, arg)
      /\ UNCHANGED <<layout, shadow, fg, res>> /\ LayoutOK /\ StateTyped
  BY DEF IsrWrite, Changes, Parts, StateTyped
<1>2. PICK f \in layout : DOMAIN arg = {f}
  BY DEF IsrArgs
<1>3. ArgOK(arg)
  BY <1>1, ArgsTyped DEF IsrArgs
<1>4. live \in Word /\ new \in Word
  BY <1>1, ReadTyped, BusWriteTyped, OwnedBySome DEF Word
<1>5. [g \in Stored |-> extract(g, new)] = Store!Applied(op, arg, Val)
  <2>1. /\ \A g \in Stored : \A b \in maskBits(g) : b \in BusRead(live) <=> b \in live
        /\ \A g \in Stored : \A b \in maskBits(g) : b \in new <=> b \in stored
    BY <1>1, PlainBits
  <2> HIDE DEF new
  <2> QED
    BY <1>1, <1>3, <1>4, <2>1, AppliedToFields DEF Val
<1>6. Val' = Store!Applied(op, arg, Val)
  BY <1>1, <1>5 DEF Val, Stored
<1> DEFINE p    == Fitted(f, arg[f])
           one  == [g \in {f} |-> p]
<1>7. p \in SUBSET Store!valueMask(f)
  BY FitIsFitted DEF Store!valueMask, valueMask
<1>8. Store!Fit(f, p) = Store!Fit(f, arg[f])
  BY DEF Store!Fit, Fitted, Store!FieldType, FieldType, Store!valueMask, valueMask
<1>9. DOMAIN one = DOMAIN arg /\ \A g \in DOMAIN arg : Store!Fit(g, one[g]) = Store!Fit(g, arg[g])
  BY <1>2, <1>8
<1>10. Store!Applied(op, one, Val) = Store!Applied(op, arg, Val)
  <2> HIDE DEF one
  <2> QED
    BY <1>9, AppliedThroughFit
<1>11. Store!WriteOps = WriteOps /\ UNCHANGED <<Copy, Req>>
  BY <1>1 DEF Store!WriteOps, WriteOps, Copy, Req, Stored
<1>12. Val' = Store!Applied(op, one, Val)
  BY <1>6, <1>10
<1> HIDE DEF p
<1> QED
  BY <1>1, <1>7, <1>11, <1>12 DEF Store!IsrWrite, Val, Copy, Req, Stored

\* Every step of a program that masks interrupts around load/store pairs is a step of the
\* abstract store, or none.
LEMMA NextStore ==
  ASSUME Parts, program.masks, [Next]_vars
  PROVE  Store!Next \/ UNCHANGED Store!vars
<1>1. Parts'
  BY NextParts
<1>2. CASE UNCHANGED vars
  <2>1. UNCHANGED <<layout, res>> /\ Val' = Val /\ Copy' = Copy /\ Req' = Req
    BY <1>2 DEF vars, Val, Copy, Req, Stored
  <2> QED
    BY <2>1, StoreStutter
<1>3. ASSUME NEW op \in WriteOps \cup ReadOps, NEW target \in Targets,
             NEW arg \in ArgsOf(op), Call(op, target, arg)
      PROVE  Store!Next
  BY <1>3, CallBegins DEF Store!Next
<1>4. ASSUME NEW op \in CopyOps, Call(op, "live", <<>>)
      PROVE  Store!Next
  <2>1. <<>> \in ArgsOf(op) /\ "live" \in Targets
    BY DEF ArgsOf, CopyOps, Targets
  <2> QED
    BY <1>4, <2>1, CallBegins DEF Store!Next
<1>5. ASSUME NEW op \in WriteOps, NEW arg \in IsrArgs(op), IsrWrite(op, arg)
      PROVE  Store!Next
  BY <1>5, IsrWritesField DEF Store!Next
<1>6. CASE StoreLive \/ StoreShadow \/ Read \/ Snapshot \/ Commit
  BY <1>1, <1>6, StoreLiveFinishes, StoreShadowFinishes, ReadFinishes, SnapshotFinishes,
     CommitFinishes DEF Store!Next
<1>7. CASE Load
  BY <1>7, LoadStutters
<1>8. ASSUME NEW bit \in Bits, Hardware(bit)
      PROVE  UNCHANGED Store!vars
  BY <1>8, HardwareStutters
<1> QED
  BY <1>2, <1>3, <1>4, <1>5, <1>6, <1>7, <1>8 DEF Next

\* A register whose program masks interrupts around load/store pairs is a family of
\* independent named fields: every operator of Reg and Register does to the fields it names
\* what its form says, and leaves the others alone.
THEOREM RegisterImplementsFieldStore ==
  Spec => ImplementsFieldStore
<1>1. Init => Store!Init
  BY InitStore
<1>2. RegisterInv /\ [Next]_vars => [program.masks => Store!Next]_<<Store!vars>>
  <2> SUFFICES ASSUME RegisterInv, [Next]_vars, program.masks
               PROVE  Store!Next \/ UNCHANGED <<Store!vars>>
    OBVIOUS
  <2>1. Store!Next \/ UNCHANGED Store!vars
    BY InvParts, NextStore
  <2> QED
    BY <2>1
<1>3. Spec => Store!Init /\ [][program.masks => Store!Next]_<<Store!vars>>
  BY <1>1, <1>2, RegisterInvariance, PTL DEF Spec
<1> QED
  BY <1>3 DEF ImplementsFieldStore
=============================================================================
