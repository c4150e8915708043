---------------------------- MODULE MmioRegister ----------------------------
(***************************************************************************)
(* One memory-mapped register as include/mmio.hpp lets a program use it:   *)
(* the live word behind Reg<Def, Address>, a local copy (Def itself), the  *)
(* program in the foreground, an interrupt handler that uses the same      *)
(* register, and the hardware that owns the status bits.                   *)
(*                                                                         *)
(* Every foreground operation is two bus steps where the code has two: the *)
(* compound operators and set<Field>(raw) load the word and store it back, *)
(* and an interrupt or the hardware may act in between.                    *)
(***************************************************************************)
EXTENDS MmioWords, FiniteSets

CONSTANTS Programs,     \* the programs and their registers, see RegisterAssumption
          MaxNamed      \* most fields one composed token names

\* layouts: the register definitions, sets of fields that do not overlap, as in all maps of
\* examples/; payloads: what the program writes down; keepsCopy: it works on a local copy
\* too; masks: it masks interrupts around load/store pairs
ASSUME RegisterAssumption ==
  /\ MaxNamed \in Nat
  /\ \A p \in Programs :
       /\ \A lay \in p.layouts :
            /\ lay \subseteq FieldSpace /\ \A f \in lay : WellFormed(f)
            /\ \A f, g \in lay : f # g => maskBits(f) \cap maskBits(g) = {}
       /\ p.payloads \subseteq Word
       /\ p.keepsCopy \in BOOLEAN /\ p.masks \in BOOLEAN

VARIABLES program,      \* the program of this behaviour
          layout,       \* the fields of its register
          live,         \* the word at the bus address
          shadow,       \* rawValue of the program's local copy
          fg,           \* the foreground operation in progress
          res,          \* what the last get or predicate returned
          window,       \* history: live bits others changed between fg's load and
                        \*   its store
          staging       \* history: bits changed in the live word or named in the local
                        \*   copy since the last snapshot; every bit without one

vars == <<program, layout, live, shadow, fg, res, window, staging>>

WriteOps == {"assign", "set", "or", "clear", "keep", "toggle"}
ReadOps  == {"get", "is"}
CopyOps  == {"snapshot", "commit"}
Targets  == IF program.keepsCopy THEN {"live", "shadow"} ELSE {"live"}
Payloads == program.payloads
None     == [op |-> "none", target |-> "live", arg |-> <<>>, pc |-> "idle", word |-> {}]

\* Reserved bits belong to no field; they read as zero and ignore writes.
FieldBits(access) == UNION {maskBits(f) : f \in {g \in layout : g.access \in access}}
Differ(v, w) == (v \ w) \cup (w \ v)

----------------------------------------------------------------------------
(* The bus: what the hardware makes of a load and of a store, per access.   *)
(* Not in the repository; taken from the tag comments of mmio.hpp.          *)

BusRead(word)   == word \ FieldBits({"Wo"})
AfterRead(word) == word \ FieldBits({"Rc"})
BusWrite(word, new) ==
  (word \cap FieldBits({"Ro", "Rc"}))
    \cup (new \cap FieldBits({"Rw"}))
    \cup ((word \ new) \cap FieldBits({"W1c"}))
    \cup ((word \cup new) \cap FieldBits({"W1s"}))
    \cup (Differ(word, new) \cap FieldBits({"W1t"}))
    \cup ((word \cap new) \cap FieldBits({"W0c"}))
    \cup ((word \cup (Bits \ new)) \cap FieldBits({"W0s"}))

----------------------------------------------------------------------------
(* The operations *)

\* The tokens of an operation: one field's token or a composition of several
WriteValue(arg) == Compose({WriteToken(f, arg[f]) : f \in DOMAIN arg})
ReadValue(arg)  == Compose({ReadToken(f, arg[f]) : f \in DOMAIN arg})
Mask(arg)       == ComposeMask({MASK(f) : f \in DOMAIN arg})
Only(arg)       == CHOOSE f \in DOMAIN arg : TRUE

\* The static_asserts and deleted overloads: which calls compile
Compiles(op, arg) ==
  /\ DOMAIN arg # {} \/ op \in CopyOps
  /\ CASE op = "assign" -> CanAssign(WriteValue(arg))
       [] op = "or"     -> CanOrAssign(WriteValue(arg))
       [] op \in {"clear", "keep"} -> CanAnd(Mask(arg))
       [] op = "toggle" -> CanXor(Mask(arg))
       [] op = "set"    -> DOMAIN arg = {Only(arg)} /\ CanSetField(Only(arg))
       [] op = "is"     -> CanPredicate(ReadValue(arg))
       [] op = "get"    -> DOMAIN arg = {Only(arg)} /\ Only(arg).access \in Readable
       [] OTHER         -> TRUE

\* The word a write operation stores, from the word it loaded
NewWord(op, arg, word) ==
  CASE op = "assign" -> assignWord(WriteValue(arg))
    [] op = "or"     -> orAssign(word, WriteValue(arg))
    [] op = "clear"  -> andAssign(word, Complement(Mask(arg)))
    [] op = "keep"   -> andAssign(word, Mask(arg))
    [] op = "toggle" -> xorAssign(word, Mask(arg))
    [] op = "set"    -> writeMasked(word, value(Only(arg), arg[Only(arg)]))

\* The result of a read operation; a predicate returns {0} for true, {} for false
Result(op, arg, word) ==
  IF op = "get" THEN Get(Only(arg), word) ELSE If(predicate(word, ReadValue(arg)), 0)

Args == {p \in UNION {[F -> Payloads] : F \in SUBSET layout} :
           Cardinality(DOMAIN p) \in 1 .. MaxNamed}

\* Masks name fields and carry no payload; get<Field> does not either
ArgsOf(op) == CASE op \in CopyOps -> {<<>>}
                [] op \in {"clear", "keep", "toggle", "get"} ->
                     {p \in Args : \A f \in DOMAIN p : p[f] = CHOOSE q \in Payloads : TRUE}
                [] OTHER -> Args

\* Whether an operation loads the live word before it stores it
IsRmw(op) == op \in WriteOps \ {"assign"}

----------------------------------------------------------------------------
(* The foreground *)

NotStaging == Bits

Init == /\ program \in Programs /\ layout \in program.layouts
        /\ live \in {w \in SUBSET FieldBits(AccessTags) : w \cap FieldBits({"Wo"}) = {}}
        /\ shadow = {}
        /\ fg = None
        /\ res = {}
        /\ window = {}
        /\ staging = NotStaging

\* The live word becomes word; a staged update in progress remembers which bits.
Changes(word) ==
  /\ live' = word
  /\ staging' = staging \cup Differ(live, word)

Call(op, target, arg) ==
  /\ fg = None
  /\ Compiles(op, arg)
  /\ fg' = [op |-> op, target |-> target, arg |-> arg, word |-> {},
            pc |-> IF op \in {"assign", "commit"} THEN "store" ELSE "load"]
  /\ res' = {}
  /\ UNCHANGED <<program, layout, live, shadow, window, staging>>

\* The load of a compound operator: of the live word, or of the local copy
Load ==
  /\ fg.pc = "load" /\ fg.op \in WriteOps
  /\ fg' = [fg EXCEPT !.pc = "store",
                      !.word = IF fg.target = "live" THEN BusRead(live) ELSE shadow]
  /\ IF fg.target = "live" THEN Changes(AfterRead(live)) ELSE UNCHANGED <<live, staging>>
  /\ window' = {}
  /\ UNCHANGED <<program, layout, shadow, res>>

StoreLive ==
  /\ fg.pc = "store" /\ fg.op \in WriteOps /\ fg.target = "live"
  /\ Changes(BusWrite(live, NewWord(fg.op, fg.arg, fg.word)))
  /\ fg' = None /\ window' = {}
  /\ UNCHANGED <<program, layout, shadow, res>>

StoreShadow ==
  /\ fg.pc = "store" /\ fg.op \in WriteOps /\ fg.target = "shadow"
  /\ shadow' = NewWord(fg.op, fg.arg, fg.word)
  /\ staging' = IF fg.op \in {"assign", "keep"} THEN NotStaging
                ELSE staging \cup Mask(fg.arg).bits
  /\ fg' = None /\ window' = {}
  /\ UNCHANGED <<program, layout, live, res>>

\* get<Field>() and operator& : one load, no store
Read ==
  /\ fg.pc = "load" /\ fg.op \in ReadOps
  /\ res' = Result(fg.op, fg.arg, IF fg.target = "live" THEN BusRead(live) ELSE shadow)
  /\ IF fg.target = "live" THEN Changes(AfterRead(live)) ELSE UNCHANGED <<live, staging>>
  /\ fg' = None /\ window' = {}
  /\ UNCHANGED <<program, layout, shadow>>

\* operator Def(): the local copy takes the live word
Snapshot ==
  /\ fg.pc = "load" /\ fg.op = "snapshot"
  /\ shadow' = BusRead(live)
  /\ live' = AfterRead(live)
  /\ staging' = {}
  /\ fg' = None /\ window' = {}
  /\ UNCHANGED <<program, layout, res>>

\* operator=(const Def&): the local copy is stored whole
Commit ==
  /\ fg.pc = "store" /\ fg.op = "commit"
  /\ live' = BusWrite(live, shadow)
  /\ staging' = NotStaging
  /\ fg' = None /\ window' = {}
  /\ UNCHANGED <<program, layout, shadow, res>>

----------------------------------------------------------------------------
(* The interrupt handler: a whole operation between two foreground steps *)

InWindow == fg.pc = "store" /\ IsRmw(fg.op) /\ fg.target = "live"

IsrWrite(op, arg) ==
  /\ program.masks => ~InWindow
  /\ Compiles(op, arg)
  /\ LET loaded == IF IsRmw(op) THEN AfterRead(live) ELSE live
         word   == BusWrite(loaded, NewWord(op, arg, BusRead(live)))
     IN  /\ Changes(word)
         /\ window' = IF InWindow THEN window \cup Differ(live, word) ELSE {}
  /\ UNCHANGED <<program, layout, shadow, fg, res>>

\* The hardware raises or drops one of its status bits.
Hardware(bit) ==
  /\ bit \in FieldBits(AccessTags \ {"Rw", "Wo"})
  /\ Changes(Differ(live, {bit}))
  /\ window' = IF InWindow THEN window \cup {bit} ELSE {}
  /\ UNCHANGED <<program, layout, shadow, fg, res>>

IsrArgs(op) == {p \in ArgsOf(op) : \E f \in layout : DOMAIN p = {f}}

Next == \/ \E op \in WriteOps \cup ReadOps, target \in Targets :
             \E arg \in ArgsOf(op) : Call(op, target, arg)
        \/ program.keepsCopy /\ \E op \in CopyOps : Call(op, "live", <<>>)
        \/ Load \/ StoreLive \/ StoreShadow \/ Read \/ Snapshot \/ Commit
        \/ \E op \in WriteOps : \E arg \in IsrArgs(op) : IsrWrite(op, arg)
        \/ \E bit \in Bits : Hardware(bit)

Spec == Init /\ [][Next]_vars

----------------------------------------------------------------------------
(* Properties *)

Store == INSTANCE FieldStore WITH
           val    <- [f \in {g \in layout : g.access = "Rw"} |-> extract(f, live)],
           staged <- [f \in {g \in layout : g.access = "Rw"} |-> extract(f, shadow)],
           req    <- [op |-> fg.op, target |-> fg.target, arg |-> fg.arg]

\* Every variable keeps its type, and reserved bits stay zero: every encoded value
\* stays inside its field (mmio.hpp:530-565), so that neither the live word nor a
\* local copy of it ever holds a bit of no field.
TypeOK ==
  /\ program \in Programs /\ layout \in program.layouts
  /\ live \subseteq FieldBits(AccessTags \ {"Wo"})
  /\ shadow \subseteq FieldBits(AccessTags)
  /\ res \in Word /\ window \in Word /\ staging \in Word /\ fg.word \in Word
  /\ fg.pc \in {"idle", "load", "store"} /\ (fg.pc = "idle" <=> fg = None)
  /\ fg.target \in Targets
  /\ DOMAIN fg.arg \subseteq layout

\* The operation in progress is one that compiles, at the bus step of its kind.
Requested ==
  \/ fg = None
  \/ /\ fg \in [op : WriteOps \cup ReadOps \cup CopyOps, target : Targets,
                 arg : ArgsOf(fg.op), pc : {"load", "store"}, word : Word]
     /\ Compiles(fg.op, fg.arg)
     /\ fg.op \in {"assign", "commit"} => fg.pc = "store"
     /\ fg.op \in ReadOps \cup {"snapshot"} => fg.pc = "load"
     /\ fg.op \in CopyOps => program.keepsCopy /\ fg.target = "live"

\* Between load and store the loaded word differs from the live one, in a field that keeps
\* what it is read as, only where somebody else changed it: nowhere in a plain field when
\* interrupts are masked.  Of the local copy nobody else is in charge.
Loaded ==
  /\ InWindow => Differ(live, fg.word) \cap FieldBits({"Rw", "W1s", "W0c"}) \subseteq window
  /\ InWindow /\ program.masks => window \cap FieldBits({"Rw"}) = {}
  /\ fg.pc = "store" /\ IsRmw(fg.op) /\ fg.target = "shadow" => fg.word = shadow

\* A local copy differs from the register, in plain fields, only where one of them was
\* changed since the snapshot.
CopyKnown == Differ(live, shadow) \cap FieldBits({"Rw"}) \subseteq staging

RegisterInv == TypeOK /\ Requested /\ Loaded /\ CopyKnown

\* With interrupts masked around load/store pairs the register is a family of
\* independent named fields, live and staged alike: every operator of Reg and
\* Register (mmio.hpp:761-913, 958-1120) does to each Rw field what its form says,
\* truncates a payload to the field, and leaves the other fields alone.
ImplementsFieldStore ==
  /\ Store!Init
  /\ [][program.masks => Store!Next]_<<Store!vars>>

\* Access kinds that survive having a bit that was just loaded stored back, and
\* kinds that survive a stored zero
EchoSafe == {"Rw", "Ro", "Wo", "Rc", "W1s", "W0c"}
ZeroSafe == {"Ro", "Wo", "Rc", "W1c", "W1s", "W1t"}

\* What the store of an operation may do to a field the operation does not name.
\* The operators that store the loaded word back (|=, &= ~, ^=, set<Field>)
\* change such a field only in bits an interrupt or the hardware changed between
\* the load and the store, if its access is in EchoSafe; the whole-register forms
\* never change it if its access is in ZeroSafe.
StoresKeepOtherFields ==
  [][StoreLive =>
       \A f \in layout \ DOMAIN fg.arg :
         LET changed == Differ(live, live') \cap maskBits(f)
         IN  IF fg.op \in {"assign", "keep"}
             THEN f.access \in ZeroSafe => changed = {}
             ELSE f.access \in EchoSafe => changed \subseteq window]_vars

\* Committing a local copy changes, in a plain field the program did not name in the
\* copy, only bits that somebody changed in the register after the snapshot.
CommitLosesOnlyWhatChanged ==
  [][Commit => Differ(live, live') \cap FieldBits({"Rw"}) \subseteq staging]_vars

\* mmio.hpp:43: |= is for "OR-safe encoded values": when nobody interferes, the
\* register is in the named state after |= has put that state into it.
OrEstablishesTheState ==
  [][StoreLive /\ fg.op = "or" /\ window = {} => predicate(live', ReadValue(fg.arg))]_vars
=============================================================================
