--------------------------- MODULE MCMmioRegister ---------------------------
(***************************************************************************)
(* Register layouts for TLC: the shapes of the maps in examples/, cut down *)
(* to four bits, and the mixes of access kinds the maps leave out.         *)
(***************************************************************************)
EXTENDS MmioRegister

Bit(offset, access) ==
  [offset |-> offset, width |-> 1, access |-> access, kind |-> "bit", rawBits |-> W]
Value(offset, width, rawBits, access) ==
  [offset |-> offset, width |-> width, access |-> access, kind |-> "value",
   rawBits |-> rawBits]

\* Storage registers, three bits: a numeric field (one bit, of a wider FieldType)
\* below an enable bit and a reserved bit; and an enable bit below a numeric field
\* wider than its FieldType (SPI_MR::PCS and DLY are of both sorts)
Control == {Value(0, 1, 3, "Rw"), Bit(1, "Rw")}
Narrow  == {Bit(0, "Rw"), Value(1, 2, 1, "Rw")}

\* ACCESS_STATUS, ACCESS_ZERO, and ACCESS_LATCH with a Wo command beside it
Status == {Bit(0, "Ro"), Bit(1, "W1c"), Bit(2, "W1c")}
Zero   == {Bit(0, "W0c"), Bit(1, "W0s")}
Latch  == {Bit(0, "W1s"), Bit(1, "Wo")}

\* Plain fields beside status fields of every kind
MixedOnes  == {Bit(0, "Rw"), Bit(1, "W1c"), Bit(2, "W1s"), Bit(3, "W1t")}
MixedZeros == {Bit(0, "Rw"), Bit(1, "W0c"), Bit(2, "W0s"), Bit(3, "Rc")}
MixedPlain == {Bit(0, "Rw"), Bit(1, "Rw"), Bit(2, "Ro"), Bit(3, "W0c")}

\* {0, 2} and {1} lose bits in a field that is too narrow for them
WidePayloads == {{0, 2}, {1}}
BitPayloads  == {{}, {0}}

Program(layouts, payloads, keepsCopy, masks) ==
  [layouts |-> layouts, payloads |-> payloads, keepsCopy |-> keepsCopy, masks |-> masks]

\* Operators on the register and on a copy, interrupts masked; an interrupt handler and
\* hardware between load and store; snapshot and commit
Masked == Program({Control, Narrow}, WidePayloads, TRUE, TRUE)
Shared == Program({Status, Zero, Latch, MixedOnes, MixedZeros, MixedPlain}, BitPayloads,
                  FALSE, FALSE)
Staged == Program({{Bit(0, "Rw"), Bit(1, "Rw")}, {Bit(0, "Rw"), Bit(1, "W1c")}}, BitPayloads,
                  TRUE, FALSE)
AllPrograms   == {Masked, Shared, Staged}
ControlBits   == {Program({Control}, BitPayloads, FALSE, FALSE)}
=============================================================================
