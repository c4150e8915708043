------------------------------ MODULE SpiBlock ------------------------------
(***************************************************************************)
(* One STM32 SPI peripheral as examples/stm32f429/spi_driver.hpp uses it:  *)
(* the enable bit, the three interrupt enables, the transmit buffer and    *)
(* shift register, the receive buffer, the overrun flag and the other      *)
(* error flags.  The peripheral itself is not in the repository: the       *)
(* registers are those of spi_registers.hpp, and the side effects are the  *)
(* ones the driver counts on (reading DR takes the received word, which is *)
(* how flushReceive terminates; OVR is cleared by reading DR and then SR). *)
(*                                                                         *)
(* A word is a number: the position in the transfer of the word the driver *)
(* wrote, or of the frame that arrived; Stale stands for every word of an  *)
(* earlier transfer.  The reply to a frame carries the number of the word  *)
(* that was shifted out, so loss, duplication and misalignment are visible.*)
(***************************************************************************)
EXTENDS Integers, Sequences

CONSTANTS MaxCount,     \* most words one transfer carries
          Faults        \* error flags other than overrun the hardware may raise

ASSUME BlockAssumption == MaxCount \in Nat \ {0} /\ "overrun" \notin Faults

Empty == -1
Stale == 0
WireWord == Stale .. MaxCount + 1
Slot     == {Empty} \cup WireWord

BusModeSet == {"fullDuplex", "receiveOnly", "halfDuplexTx", "halfDuplexRx"}
Enables    == {"ERRIE", "TXEIE", "RXNEIE"}

VARIABLES mode,         \* CR1.BIDIMODE, BIDIOE, RXONLY: the bus mode
          spe,          \* CR1.SPE
          ie,           \* CR2: which interrupts are enabled
          txb,          \* the word in the transmit buffer (TXE = empty)
          shift,        \* the word being shifted out
          rxb,          \* the word in the receive buffer (RXNE = not empty)
          ovr,          \* SR.OVR
          ovrSeq,       \* DR was read while OVR was set: the next SR read clears it
          flags,        \* SR.MODF, CRCERR, FRE
          sent,         \* history: words of this transfer put on the wire
          arrived       \* history: frames that arrived in this transfer on their own

rxVars   == <<rxb, ovr, ovrSeq>>
txVars   == <<txb, shift, sent>>
wireVars == <<rxb, ovr, ovrSeq, txb, shift, sent, arrived>>
blockVars == <<mode, spe, ie, txb, shift, rxb, ovr, ovrSeq, flags, sent, arrived>>

BlockTypeOK ==
  /\ mode \in BusModeSet
  /\ spe \in BOOLEAN
  /\ ie \subseteq Enables
  /\ txb \in Slot /\ shift \in Slot /\ rxb \in Slot
  /\ ovr \in BOOLEAN /\ ovrSeq \in BOOLEAN
  /\ flags \subseteq Faults
  /\ sent \in Seq(WireWord)
  /\ arrived \in 0 .. MaxCount + 1

BlockInit ==
  /\ mode = "fullDuplex"
  /\ spe = FALSE /\ ie = {}
  /\ txb = Empty /\ shift = Empty /\ rxb = Empty
  /\ ovr = FALSE /\ ovrSeq = FALSE /\ flags = {}
  /\ sent = <<>> /\ arrived = 0

TXE   == txb = Empty
RXNE  == rxb # Empty
Errors == flags \cup (IF ovr THEN {"overrun"} ELSE {})

\* The interrupt line of the block, a level
IrqLine == \/ "TXEIE" \in ie /\ TXE
           \/ "RXNEIE" \in ie /\ RXNE
           \/ "ERRIE" \in ie /\ Errors # {}

----------------------------------------------------------------------------
(* What one bus access does.  Each fragment sets the receive side.          *)

ReadSR == /\ ovr' = (ovr /\ ~ovrSeq)
          /\ ovrSeq' = FALSE
          /\ UNCHANGED rxb

ReadDR == /\ rxb' = Empty
          /\ ovrSeq' = (ovrSeq \/ ovr)
          /\ UNCHANGED ovr

\* The word a read of DR returns; an empty buffer returns what was there before
DataRead == IF RXNE THEN rxb ELSE Stale

\* DR.set<DATA>(word) is a read-modify-write (mmio.hpp:946, 1084): DR is read before
\* it is written.  What the hardware may do between the two accesses has the same
\* effect before or after both of them.
WriteDR(word) == /\ ReadDR
                 /\ txb' = word
                 /\ UNCHANGED <<shift, sent>>

----------------------------------------------------------------------------
(* What the peripheral does by itself *)

Transmits == mode \in {"fullDuplex", "halfDuplexTx"}
Listens   == mode \in {"receiveOnly", "halfDuplexRx"}

\* The receive side takes a complete frame, or drops it and raises OVR.
TakeFrame(word) == /\ rxb' = IF rxb = Empty /\ ~ovr THEN word ELSE rxb
                   /\ ovr' = (ovr \/ rxb # Empty)
                   /\ UNCHANGED ovrSeq

LoadShift == /\ spe /\ Transmits /\ txb # Empty /\ shift = Empty
             /\ shift' = txb /\ txb' = Empty
             /\ sent' = IF txb = Stale THEN sent ELSE Append(sent, txb)
             /\ UNCHANGED <<mode, spe, ie, rxb, ovr, ovrSeq, flags, arrived>>

FrameDone == /\ shift # Empty
             /\ shift' = Empty
             /\ IF mode = "fullDuplex" THEN TakeFrame(shift) ELSE UNCHANGED rxVars
             /\ UNCHANGED <<mode, spe, ie, txb, flags, sent, arrived>>

\* In the listening modes frames arrive whether or not anyone asked for them.
FrameArrives == /\ spe /\ Listens
                /\ arrived' = IF arrived > MaxCount THEN arrived ELSE arrived + 1
                /\ TakeFrame(arrived')
                /\ UNCHANGED <<mode, spe, ie, txb, shift, flags, sent>>

RaiseFault == /\ spe
              /\ \E f \in Faults \ flags : flags' = flags \cup {f}
              /\ UNCHANGED <<mode, spe, ie, wireVars>>

\* The driver has no operation that clears MODF, CRCERR or FRE; whoever does it is
\* outside.
ClearFault == /\ \E f \in flags : flags' = flags \ {f}
              /\ UNCHANGED <<mode, spe, ie, wireVars>>

BlockStep == LoadShift \/ FrameDone \/ FrameArrives \/ RaiseFault \/ ClearFault
=============================================================================
