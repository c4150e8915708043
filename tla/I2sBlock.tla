------------------------------ MODULE I2sBlock ------------------------------
(***************************************************************************)
(* The pair of STM32 blocks examples/stm32f429/i2s_driver.hpp drives: the  *)
(* main SPI/I2S block and, for full duplex, its I2Sext companion, which    *)
(* shares the main block's clock.  External hardware, modelled as the      *)
(* driver counts on it: reading DR takes the received word, OVR is cleared *)
(* by reading DR and then SR, UDR by reading SR (the comments at lines 152 *)
(* and 160 of the driver).                                                 *)
(*                                                                         *)
(* Each block works in one direction.  A transmitted word is the number of *)
(* its place in the buffer, a received one the number of its frame since   *)
(* the operation began; Stale is a word of an earlier operation.           *)
(***************************************************************************)
EXTENDS Integers, Sequences

CONSTANTS MaxCount,     \* most words one operation carries
          Faults        \* {"frameFormat"}, or {} to leave frame errors out

ASSUME BlockAssumption == MaxCount \in Nat \ {0} /\ Faults \subseteq {"frameFormat"}

Blocks   == {"main", "ext"}
ModeSet  == {"masterTx", "slaveTx", "masterRx", "slaveRx"}
Enables  == {"ERRIE", "TXEIE", "RXNEIE"}
Empty    == -1
Stale    == 0
FrameCap == MaxCount + 2        \* bound: the highest frame number
Slot     == {Empty} \cup (Stale .. FrameCap)

VARIABLES mode,         \* I2SCFGR.I2SCFG of the main block; the companion has the opposite
          on,           \* per block, I2SCFGR.I2SE
          ie,           \* per block, CR2: which interrupts are enabled
          txb,          \* the word in the transmitter's buffer (TXE = empty)
          rxb,          \* the word in the receiver's buffer (RXNE = not empty)
          ovr,          \* SR.OVR of the receiver
          ovrSeq,       \* DR was read while OVR was set: the next SR read clears it
          udr,          \* SR.UDR of the transmitter
          fre,          \* the blocks with SR.FRE set
          frame,        \* a frame is on the wire (SR.BSY)
          sent,         \* history: words of this operation put on the wire
          arrived,      \* history: frames that ended since the operation began
          dry           \* history: words of this operation sent when the wire first ran
                        \*   dry after one of them, 0 as long as it did not

rxVars   == <<rxb, ovr, ovrSeq>>
txVars   == <<txb, udr>>
wireVars == <<rxVars, txVars, fre, frame, sent, arrived, dry>>
blockVars == <<mode, on, ie, wireVars>>

isTransmitMode == mode \in {"masterTx", "slaveTx"}
TxBlock == IF isTransmitMode THEN "main" ELSE "ext"
RxBlock == IF isTransmitMode THEN "ext" ELSE "main"

BlockTypeOK ==
  /\ mode \in ModeSet
  /\ on \in [Blocks -> BOOLEAN] /\ ie \in [Blocks -> SUBSET Enables]
  /\ txb \in Slot /\ rxb \in Slot
  /\ ovr \in BOOLEAN /\ ovrSeq \in BOOLEAN /\ udr \in BOOLEAN /\ frame \in BOOLEAN
  /\ fre \subseteq Blocks /\ (Faults = {} => fre = {})
  /\ sent \in Seq(0 .. FrameCap) /\ Len(sent) <= FrameCap
  /\ arrived \in 0 .. FrameCap
  /\ dry \in 0 .. FrameCap

BlockInit ==
  /\ mode = "masterTx"
  /\ on = [b \in Blocks |-> FALSE] /\ ie = [b \in Blocks |-> {}]
  /\ txb = Empty /\ rxb = Empty
  /\ ovr = FALSE /\ ovrSeq = FALSE /\ udr = FALSE /\ fre = {} /\ frame = FALSE
  /\ sent = <<>> /\ arrived = 0 /\ dry = 0

TXE(b)  == b = TxBlock /\ txb = Empty
RXNE(b) == b = RxBlock /\ rxb # Empty
OVR(b)  == b = RxBlock /\ ovr
UDR(b)  == b = TxBlock /\ udr
FRE(b)  == b \in fre

\* The interrupt line of one block, a level
IrqLine(b) == \/ "TXEIE" \in ie[b] /\ TXE(b)
              \/ "RXNEIE" \in ie[b] /\ RXNE(b)
              \/ "ERRIE" \in ie[b] /\ (OVR(b) \/ UDR(b) \/ FRE(b))

----------------------------------------------------------------------------
(* What one bus access does *)

\* Reads of SR, of the blocks in bs: both flags that reading clears are cleared.
ReadSR(bs) ==
  /\ ovr' = (ovr /\ ~(RxBlock \in bs /\ ovrSeq))
  /\ ovrSeq' = (ovrSeq /\ RxBlock \notin bs)
  /\ udr' = (udr /\ TxBlock \notin bs)

ReadDR(b) ==
  /\ rxb' = IF b = RxBlock THEN Empty ELSE rxb
  /\ ovrSeq' = (ovrSeq \/ (b = RxBlock /\ ovr))
  /\ UNCHANGED ovr

\* The word a read of DR returns; an empty buffer returns an old word
DataRead(b) == IF RXNE(b) THEN rxb ELSE Stale

\* DR.set<DATA>(word) reads DR and writes it (mmio.hpp:946).  The transmitter's DR
\* gives nothing away; the word is lost on a receiver.
WriteDR(b, word) ==
  /\ ReadDR(b)
  /\ txb' = IF b = TxBlock THEN word ELSE txb

----------------------------------------------------------------------------
(* What the blocks do by themselves *)

\* A master transmitter clocks while it has a word, a master receiver all the time, and
\* a slave is clocked by the other end.
Clocked == on["main"] /\ (mode = "masterTx" => txb # Empty)

\* A frame begins: the transmitter loads its word; a slave that has none underruns.
FrameStart ==
  /\ Clocked /\ ~frame
  /\ frame' = TRUE
  /\ IF on[TxBlock]
       THEN /\ txb' = Empty
            /\ sent' = IF txb \in {Empty, Stale} \/ Len(sent) >= FrameCap THEN sent
                       ELSE Append(sent, txb)
            /\ udr' = (udr \/ txb = Empty)
            /\ dry' = IF dry = 0 /\ txb = Empty THEN Len(sent) ELSE dry
       ELSE UNCHANGED <<txb, sent, udr, dry>>
  /\ UNCHANGED <<mode, on, ie, rxVars, fre, arrived>>

\* A frame ends: the receiver takes the word, or drops it and raises OVR.
FrameEnd ==
  /\ frame
  /\ frame' = FALSE
  /\ IF on[RxBlock]
       THEN /\ arrived' = IF arrived < FrameCap THEN arrived + 1 ELSE arrived
            /\ rxb' = IF rxb = Empty /\ ~ovr THEN arrived' ELSE rxb
            /\ ovr' = (ovr \/ rxb # Empty)
       ELSE UNCHANGED <<arrived, rxb, ovr>>
  /\ UNCHANGED <<mode, on, ie, ovrSeq, txVars, fre, sent, dry>>

\* The driver never clears FRE; it goes away by itself.
FrameError == /\ Faults # {}
              /\ \E b \in Blocks : on[b] /\ fre' = fre \cup {b}
              /\ UNCHANGED <<mode, on, ie, rxVars, txVars, frame, sent, arrived, dry>>
ClearFrameError == /\ \E b \in fre : fre' = fre \ {b}
                   /\ UNCHANGED <<mode, on, ie, rxVars, txVars, frame, sent, arrived, dry>>

BlockStep == FrameStart \/ FrameEnd \/ FrameError \/ ClearFrameError
=============================================================================
