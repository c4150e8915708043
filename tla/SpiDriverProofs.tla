-------------------------- MODULE SpiDriverProofs --------------------------
(***************************************************************************)
(* Proofs about SpiDriver for every buffer length, set of faults, bus      *)
(* modes and entry points.  IInv (module SpiDriver) is shown to hold       *)
(* initially and to be kept by every action, one lemma for each action,    *)
(* with one step for each conjunct of IInv; the safety properties follow   *)
(* from it.                                                                *)
(***************************************************************************)
EXTENDS SpiDriver, SequenceTheorems, TLAPS

----------------------------------------------------------------------------
(* The initial state *)

\* The initial state of the driver's members (spi_driver.hpp:390-399) over a block
\* after reset satisfies the inductive invariant.
LEMMA InitEstablishes == Init => IInv
<1> SUFFICES ASSUME Init PROVE IInv
  OBVIOUS
<1> USE BlockAssumption DEF Init
<1>1. BlockTypeOK
  <2>1. txb \in Slot /\ shift \in Slot /\ rxb \in Slot
    BY DEF BlockInit, Slot
  <2>2. sent \in Seq(WireWord)
    BY DEF BlockInit
  <2>3. arrived \in 0 .. MaxCount + 1
    BY DEF BlockInit
  <2>4. mode \in BusModeSet /\ flags \subseteq Faults /\ ie \subseteq Enables
    BY DEF BlockInit, BusModeSet
  <2> QED
    BY <2>1, <2>2, <2>3, <2>4 DEF BlockInit, BlockTypeOK
<1>2. MemberTypeOK
  <2>1. txRem \in 0 .. MaxCount /\ rxRem \in 0 .. MaxCount
    OBVIOUS
  <2>2. st \in States /\ op \in AsyncKinds \cup {"none"} /\ err \subseteq Faults \cup {"overrun"}
    BY DEF States
  <2>3. txBuf \in Nat /\ rxBuf \in Nat
    BY DEF Null
  <2> QED
    BY <2>1, <2>2, <2>3 DEF MemberTypeOK
<1>3. CallTypeOK
  <2>1. pc \in [Contexts -> FgLabels \cup IsrLabels]
    BY DEF FgLabels
  <2>2. pc["fg"] \in FgLabels /\ pc["isr"] \in IsrLabels
    BY DEF Contexts, FgLabels, IsrLabels
  <2>3. args \in [Contexts -> [kind : AsyncKinds \cup PollKinds \cup {"none"},
                               n : 0 .. MaxCount]]
    BY DEF NoArgs
  <2>4. at \in [Contexts -> 0 .. 5] /\ cr2 \in [Contexts -> SUBSET Enables]
    OBVIOUS
  <2>5. index \in 0 .. MaxCount
    OBVIOUS
  <2> QED
    BY <2>1, <2>2, <2>3, <2>4, <2>5 DEF CallTypeOK
<1>4. HistoryTypeOK
  <2>1. size \in 0 .. MaxCount
    OBVIOUS
  <2>2. got \in Seq(WireWord)
    OBVIOUS
  <2> QED
    BY <2>1, <2>2 DEF HistoryTypeOK
<1>5. \A c \in Contexts : pc[c] = "idle"
  OBVIOUS
<1>6. pc["fg"] = "idle" /\ pc["isr"] = "idle"
  BY <1>5 DEF Contexts
<1>7. CountersInStep
  BY <1>5, <1>6 DEF CountersInStep, Enabling, Polling
<1>8. Attribution
  BY <1>6 DEF BlockInit, Attribution, Enabling, Polling, Flushing
<1>9. Ledger
  BY DEF Ledger
<1> QED
  BY <1>1, <1>2, <1>3, <1>4, <1>7, <1>8, <1>9 DEF IInv, TypeOK

----------------------------------------------------------------------------
(* Calls that start interrupt-driven operations, and cancelInterrupt *)

\* The checks and beginAsync of a start call (spi_driver.hpp:276-338): no interrupt is
\* enabled and the handler is idle, or the call is made from a callback.
LEMMA StartKeeps ==
  ASSUME IInv, NEW c \in Contexts, NEW kind \in AsyncKinds, NEW n \in Counts,
         Start(c, kind, n)
  PROVE IInv'
<1> USE BlockAssumption DEF IInv, TypeOK, Counts
<1>1. BlockTypeOK'
  BY DEF Start, BlockTypeOK, BeginHistory, AsStale, Slot, WireWord, Empty
<1>2. MemberTypeOK'
  BY DEF Start, MemberTypeOK, BusyState, States
<1>3. CallTypeOK'
  BY DEF Start, CallTypeOK, Goto, FgLabels, IsrLabels
<1>4. HistoryTypeOK'
  BY DEF Start, HistoryTypeOK, BeginHistory
<1>5. CountersInStep'
  BY DEF Start, CountersInStep, CallTypeOK, Goto, Polling
<1>6. Attribution'
  <2>1. isBusy'
    BY DEF Start, isBusy, BusyState
  <2>2. CASE c = "fg"
    <3>1. pc["fg"] = "idle" /\ pc["isr"] = "idle" /\ ~isBusy
      BY <2>2 DEF Start, MayCall
    <3>2. ie' = ie /\ owed' /\ (~raced' => ie = {} \/ ~raced)
      BY <2>2 DEF Start, BeginHistory, HistoryTypeOK
    <3>3. pc'["fg"] = "arm" /\ pc'["isr"] = "idle"
      BY <2>2, <3>1 DEF Start, Goto, CallTypeOK
    <3>4. ~raced' => ie = {}
      BY <3>1, <3>2 DEF Attribution
    <3> QED
      BY <2>1, <3>2, <3>3, <3>4 DEF Attribution, Enabling, Polling, Flushing
  <2>3. CASE c = "isr"
    BY <2>1, <2>3 DEF Start, Attribution, CallTypeOK, Goto, Contexts, Enabling, Polling,
       Flushing, BeginHistory, MayCall, isBusy
  <2> QED
    BY <2>2, <2>3 DEF Contexts
<1>7. Ledger'
  <2>1. pc'[c] = "arm" /\ at'[c] = 1
    BY DEF Start, Goto, CallTypeOK
  <2>2. ASSUME ~raced', NEW d \in Contexts, pc'[d] = "arm"
        PROVE  d = c
    BY <1>6, <2>1, <2>2 DEF Attribution, Contexts
  <2> QED
    BY <2>1, <2>2 DEF Ledger, Armed
<1> QED
  BY <1>1, <1>2, <1>3, <1>4, <1>5, <1>6, <1>7

\* The members of a start call, one at a time (spi_driver.hpp:284-334).  The step that
\* sets the last one turns Armed into the ledger of pointers and counters.
LEMMA ArmKeeps ==
  ASSUME IInv, NEW c \in Contexts, Arm(c)
  PROVE  IInv'
<1> USE BlockAssumption DEF IInv, TypeOK
<1> DEFINE kind == args[c].kind
           n    == args[c].n
<1>0. /\ kind \in AsyncKinds /\ n \in 0 .. MaxCount
      /\ at[c] \in 1 .. 5 /\ pc[c] = "arm"
  BY DEF Arm, CountersInStep, CallTypeOK
<1>1. BlockTypeOK'
  BY DEF Arm, BlockTypeOK, blockVars
<1>2. MemberTypeOK'
  <2>1. txBuf' \in Nat /\ rxBuf' \in Nat
    BY DEF Arm, MemberTypeOK, Null
  <2>2. txRem' \in 0 .. MaxCount /\ rxRem' \in 0 .. MaxCount
    BY <1>0 DEF Arm, MemberTypeOK
  <2>3. op' \in AsyncKinds \cup {"none"}
    BY <1>0 DEF Arm, MemberTypeOK
  <2> QED
    BY <2>1, <2>2, <2>3 DEF Arm, MemberTypeOK
<1>3. CallTypeOK'
  <2>1. pc'[c] \in {"arm", "enable"} /\ pc' = [pc EXCEPT ![c] = pc'[c]]
    BY DEF Arm, Goto, CallTypeOK
  <2>2. /\ pc' \in [Contexts -> FgLabels \cup IsrLabels]
        /\ pc'["fg"] \in FgLabels /\ pc'["isr"] \in IsrLabels
    BY <2>1 DEF CallTypeOK, FgLabels, IsrLabels, Enabling, Contexts
  <2>3. at' \in [Contexts -> 0 .. 5]
    BY <1>0 DEF Arm, CallTypeOK
  <2>4. args' \in [Contexts -> [kind : AsyncKinds \cup PollKinds \cup {"none"},
                               n : 0 .. MaxCount]]
    BY DEF Arm, CallTypeOK, NoArgs
  <2> QED
    BY <2>2, <2>3, <2>4 DEF Arm, CallTypeOK
<1>4. HistoryTypeOK'
  BY DEF Arm, HistoryTypeOK, CallTypeOK
<1>5. CountersInStep'
  BY DEF Arm, CountersInStep, Enabling, Polling, Goto, Runs, CallTypeOK
<1>6. Attribution'
  BY DEF Arm, Goto, Attribution, Polling, Flushing, isBusy, blockVars
<1>7. Ledger'
  <2> SUFFICES ASSUME ~raced', owed' PROVE Ledger'
    BY DEF Ledger
  <2>1. ~raced /\ owed /\ Armed(c)
    BY <1>0 DEF Arm, Ledger
  <2>2. \A d \in Contexts : pc'[d] = "arm" => d = c
    BY <1>0, <1>6 DEF Arm, Goto, Attribution, Contexts
  <2>3. CASE at[c] = 5
    <3>1. txBuf # Null => txBuf = 1 /\ txRem = size
      BY <2>1, <2>3 DEF Armed
    <3>2. rxBuf' # Null => rxBuf' = 1 /\ rxRem' = size'
      BY <2>1, <2>3 DEF Armed, Arm
    <3>3. pc'[c] = "enable" /\ txBuf' = txBuf /\ txRem' = txRem /\ size' = size
      BY <2>3 DEF Arm, Goto, CallTypeOK
    <3> QED
      BY <2>2, <3>1, <3>2, <3>3 DEF Ledger, HistoryTypeOK
  <2>4. CASE at[c] < 5
    <3>1. pc'[c] = "arm" /\ at'[c] = at[c] + 1 /\ args'[c] = args[c]
      BY <1>0, <2>4 DEF Arm, Goto, CallTypeOK
    <3>2. Armed(c)'
      BY <1>0, <2>1, <2>4, <3>1 DEF Arm, Armed
    <3> QED
      BY <2>2, <3>1, <3>2 DEF Ledger
  <2> QED
    BY <1>0, <2>3, <2>4
<1> QED
  BY <1>1, <1>2, <1>3, <1>4, <1>5, <1>6, <1>7

\* enableAsyncInterrupts decides on the next enable (spi_driver.hpp:548-557).
LEMMA EnableCheckKeeps ==
  ASSUME IInv, NEW c \in Contexts, EnableCheck(c)
  PROVE  IInv'
<1> USE BlockAssumption DEF IInv, TypeOK
<1>1. BlockTypeOK'
  BY DEF EnableCheck, BlockTypeOK, blockVars
<1>2. MemberTypeOK'
  BY DEF EnableCheck, MemberTypeOK, memberVars
<1>3. CallTypeOK'
  BY DEF EnableCheck, CallTypeOK, FgLabels, IsrLabels, Enabling, Goto
<1>4. HistoryTypeOK'
  BY DEF EnableCheck, HistoryTypeOK, historyVars
<1>5. CountersInStep'
  BY DEF EnableCheck, CountersInStep, Enabling, Polling, memberVars, Goto, CallTypeOK
<1>6. Attribution'
  BY DEF EnableCheck, Attribution, Enabling, Polling, Flushing, isBusy, blockVars, memberVars,
     historyVars, Goto
<1>7. Ledger'
  BY <1>6 DEF EnableCheck, Ledger, Armed, memberVars, historyVars, Goto
<1> QED
  BY <1>1, <1>2, <1>3, <1>4, <1>5, <1>6, <1>7

\* enableAsyncInterrupts loads CR2.
LEMMA EnableLoadKeeps ==
  ASSUME IInv, NEW c \in Contexts, EnableLoad(c)
  PROVE  IInv'
<1> USE BlockAssumption DEF IInv, TypeOK
<1>1. BlockTypeOK'
  BY DEF EnableLoad, BlockTypeOK, blockVars
<1>2. MemberTypeOK'
  BY DEF EnableLoad, MemberTypeOK, memberVars
<1>3. CallTypeOK'
  BY DEF EnableLoad, CallTypeOK, FgLabels, IsrLabels, Enabling, BlockTypeOK, Goto
<1>4. HistoryTypeOK'
  BY DEF EnableLoad, HistoryTypeOK, historyVars
<1>5. CountersInStep'
  BY DEF EnableLoad, CountersInStep, Enabling, Polling, memberVars, Goto
<1>6. Attribution'
  BY DEF EnableLoad, Attribution, Enabling, Polling, Flushing, isBusy, blockVars, memberVars,
     historyVars, Goto
<1>7. Ledger'
  BY <1>6 DEF EnableLoad, Ledger, Armed, memberVars, historyVars, Goto
<1> QED
  BY <1>1, <1>2, <1>3, <1>4, <1>5, <1>6, <1>7

\* enableAsyncInterrupts stores CR2; unless raced, the operation is still owed.
LEMMA EnableStoreKeeps ==
  ASSUME IInv, NEW c \in Contexts, EnableStore(c)
  PROVE  IInv'
<1> USE BlockAssumption DEF IInv, TypeOK
<1>1. BlockTypeOK'
  <2>1. cr2[c] \subseteq Enables
    BY DEF CallTypeOK
  <2>2. EnableOrder[at[c]] \in Enables
    BY DEF EnableStore, EnableOrder, Enables, CountersInStep, Enabling
  <2> QED
    BY <2>1, <2>2 DEF EnableStore, BlockTypeOK, wireVars
<1>2. MemberTypeOK'
  BY DEF EnableStore, MemberTypeOK, memberVars
<1>3. CallTypeOK'
  BY DEF EnableStore, CallTypeOK, FgLabels, IsrLabels, Enabling, Goto
<1>4. HistoryTypeOK'
  BY DEF EnableStore, HistoryTypeOK, historyVars
<1>5. CountersInStep'
  BY DEF EnableStore, CountersInStep, Enabling, Polling, memberVars, Goto, CallTypeOK
<1>6. Attribution'
  BY DEF EnableStore, Attribution, Contexts, Enabling, Polling, Flushing, isBusy, memberVars,
     historyVars, Goto
<1>7. Ledger'
  BY <1>6 DEF EnableStore, Ledger, Armed, memberVars, historyVars, Goto
<1> QED
  BY <1>1, <1>2, <1>3, <1>4, <1>5, <1>6, <1>7

\* cancelInterrupt (spi_driver.hpp:340-348), from the application or a callback.
LEMMA CancelKeeps ==
  ASSUME IInv, NEW c \in Contexts, Cancel(c)
  PROVE  IInv'
<1> USE BlockAssumption DEF IInv, TypeOK
<1>1. BlockTypeOK'
  BY DEF Cancel, BlockTypeOK, wireVars, disableInterrupts
<1>2. MemberTypeOK'
  BY DEF Cancel, MemberTypeOK, States, Null
<1>3. CallTypeOK'
  BY DEF Cancel, CallTypeOK, IsrLabels, Goto, MayCall
<1>4. HistoryTypeOK'
  BY DEF Cancel, HistoryTypeOK, CallTypeOK, BlockTypeOK, Slot, WireWord, Stale, Empty,
     wireVars, Goto, disableInterrupts, MayCall, fgEnabling, Null
<1>5. CountersInStep'
  BY DEF Cancel, CountersInStep, Enabling, Goto, MayCall
<1>6. Attribution'
  BY DEF Cancel, Attribution, HistoryTypeOK, Enabling, Goto, disableInterrupts, MayCall
<1>7. Ledger'
  BY <1>6 DEF Cancel, Ledger
<1> QED
  BY <1>1, <1>2, <1>3, <1>4, <1>5, <1>6, <1>7

----------------------------------------------------------------------------
(* onInterrupt *)

\* The processor takes the interrupt; unless raced, the enables are owed.
LEMMA IsrEnterKeeps ==
  ASSUME IInv, IsrEnter
  PROVE  IInv'
<1> USE BlockAssumption DEF IInv, TypeOK
<1>1. BlockTypeOK'
  BY DEF IsrEnter, BlockTypeOK, blockVars
<1>2. MemberTypeOK'
  BY DEF IsrEnter, MemberTypeOK, memberVars
<1>3. CallTypeOK'
  BY DEF IsrEnter, CallTypeOK, IsrLabels, Contexts, Goto
<1>4. HistoryTypeOK'
  BY DEF IsrEnter, HistoryTypeOK, historyVars
<1>5. CountersInStep'
  BY DEF IsrEnter, CountersInStep, Enabling, Goto
<1>6. Attribution'
  BY DEF IsrEnter, Attribution, Enabling, isBusy, memberVars, historyVars, Goto, IrqLine
<1>7. Ledger'
  BY <1>6 DEF IsrEnter, Ledger, Armed, memberVars, historyVars, Goto
<1> QED
  BY <1>1, <1>2, <1>3, <1>4, <1>5, <1>6, <1>7

\* onInterrupt returns when no operation is in progress (spi_driver.hpp:353-355).
LEMMA IsrCheckBusyKeeps ==
  ASSUME IInv, IsrCheckBusy
  PROVE  IInv'
<1> USE BlockAssumption DEF IInv, TypeOK
<1>1. BlockTypeOK'
  BY DEF IsrCheckBusy, BlockTypeOK, blockVars
<1>2. MemberTypeOK'
  BY DEF IsrCheckBusy, MemberTypeOK, memberVars
<1>3. CallTypeOK'
  BY DEF IsrCheckBusy, CallTypeOK, IsrLabels, Contexts, Goto
<1>4. HistoryTypeOK'
  BY DEF IsrCheckBusy, HistoryTypeOK, historyVars
<1>5. CountersInStep'
  BY DEF IsrCheckBusy, CountersInStep, Enabling, Goto
<1>6. Attribution'
  BY DEF IsrCheckBusy, Attribution, Enabling, isBusy, memberVars, historyVars, Goto
<1>7. Ledger'
  BY <1>6 DEF IsrCheckBusy, Ledger, Armed, memberVars, historyVars, Goto
<1> QED
  BY <1>1, <1>2, <1>3, <1>4, <1>5, <1>6, <1>7

\* captureErrors in onInterrupt (spi_driver.hpp:357, 597-621).
LEMMA IsrCaptureKeeps ==
  ASSUME IInv, IsrCapture
  PROVE  IInv'
<1> USE BlockAssumption DEF IInv, TypeOK
<1>1. BlockTypeOK'
  BY DEF IsrCapture, BlockTypeOK, Slot, WireWord, Empty, Stale, CallTypeOK, MemberTypeOK,
     HistoryTypeOK, CountersInStep, historyVars, txVars, Goto, captureErrors, ReadSR, Errors
<1>2. MemberTypeOK'
  <2>1. err' \subseteq Faults \cup {"overrun"}
    BY DEF IsrCapture, captureErrors, Errors, BlockTypeOK, MemberTypeOK
  <2> QED
    BY <2>1 DEF IsrCapture, captureErrors, MemberTypeOK, States
<1>3. CallTypeOK'
  BY DEF IsrCapture, CallTypeOK, IsrLabels, Contexts, Goto
<1>4. HistoryTypeOK'
  BY DEF IsrCapture, HistoryTypeOK, historyVars
<1>5. CountersInStep'
  BY DEF IsrCapture, CountersInStep, Enabling, Goto
<1>6. Attribution'
  BY DEF IsrCapture, Attribution, CallTypeOK, Contexts, Enabling, isBusy, historyVars, Goto,
     captureErrors
<1>7. Ledger'
  BY <1>6 DEF IsrCapture, Ledger, Armed, historyVars, Goto
<1> QED
  BY <1>1, <1>2, <1>3, <1>4, <1>5, <1>6, <1>7

\* disableInterrupts and the error callback (spi_driver.hpp:358-360).
LEMMA IsrFailKeeps ==
  ASSUME IInv, IsrFail
  PROVE  IInv'
<1> USE BlockAssumption DEF IInv, TypeOK
<1>1. BlockTypeOK'
  BY DEF IsrFail, BlockTypeOK, wireVars, disableInterrupts
<1>2. MemberTypeOK'
  BY DEF IsrFail, MemberTypeOK, memberVars
<1>3. CallTypeOK'
  BY DEF IsrFail, CallTypeOK, IsrLabels, Contexts, Goto
<1>4. HistoryTypeOK'
  BY DEF IsrFail, HistoryTypeOK, CallTypeOK, BlockTypeOK, Slot, WireWord, Stale, Empty,
     memberVars, wireVars, Goto, disableInterrupts, Report, fgEnabling
<1>5. CountersInStep'
  BY DEF IsrFail, CountersInStep, Enabling, Goto
<1>6. Attribution'
  <2> SUFFICES ASSUME ~raced' PROVE Attribution'
    BY DEF Attribution
  <2>1. ~raced /\ pc["fg"] \notin Enabling
    BY DEF IsrFail, fgEnabling, HistoryTypeOK
  <2>2. pc["fg"] = "idle"
    BY <2>1 DEF Attribution, IsrFail, CallTypeOK, FgLabels
  <2>3. pc'["fg"] = "idle" /\ pc'["isr"] = "callback" /\ ~owed' /\ ie' = {}
    BY <2>2 DEF IsrFail, disableInterrupts, Goto, Report, CallTypeOK, Contexts
  <2> QED
    BY <2>3 DEF Attribution, Enabling, Polling, Flushing
<1>7. Ledger'
  BY <1>6 DEF IsrFail, Ledger, Report
<1> QED
  BY <1>1, <1>2, <1>3, <1>4, <1>5, <1>6, <1>7

\* The test before a word is written (spi_driver.hpp:363).
LEMMA IsrTxReadyKeeps ==
  ASSUME IInv, IsrTxReady
  PROVE  IInv'
<1> USE BlockAssumption DEF IInv, TypeOK
<1>1. BlockTypeOK'
  BY DEF IsrTxReady, BlockTypeOK, Slot, WireWord, Empty, Stale, CallTypeOK, MemberTypeOK,
     HistoryTypeOK, CountersInStep, memberVars, historyVars, rxVars, txVars, Goto, TxWanted,
     ReadSR, TXE
<1>2. MemberTypeOK'
  BY DEF IsrTxReady, MemberTypeOK, memberVars
<1>3. CallTypeOK'
  BY DEF IsrTxReady, CallTypeOK, IsrLabels, Contexts, Goto
<1>4. HistoryTypeOK'
  BY DEF IsrTxReady, HistoryTypeOK, historyVars
<1>5. CountersInStep'
  BY DEF IsrTxReady, CountersInStep, Enabling, memberVars, Goto, TxWanted
<1>6. Attribution'
  BY DEF IsrTxReady, Attribution, Enabling, isBusy, memberVars, historyVars, Goto
<1>7. Ledger'
  BY <1>6 DEF IsrTxReady, Ledger, Armed, memberVars, historyVars, Goto
<1> QED
  BY <1>1, <1>2, <1>3, <1>4, <1>5, <1>6, <1>7

\* writeNextAsyncWord (spi_driver.hpp:364-367, 584-587): txRemaining is positive and
\* the transmit pointer moves with it.
LEMMA IsrWriteKeeps ==
  ASSUME IInv, IsrWrite
  PROVE  IInv'
<1> USE BlockAssumption DEF IInv, TypeOK
<1>1. BlockTypeOK'
  BY DEF IsrWrite, BlockTypeOK, Slot, WireWord, Stale, HistoryTypeOK, WriteDR, ReadDR,
     NextWord
<1>2. MemberTypeOK'
  BY DEF IsrWrite, MemberTypeOK, CountersInStep, Advanced
<1>3. CallTypeOK'
  BY DEF IsrWrite, CallTypeOK, IsrLabels, Contexts, Goto
<1>4. HistoryTypeOK'
  BY DEF IsrWrite, HistoryTypeOK, historyVars
<1>5. CountersInStep'
  BY DEF IsrWrite, CountersInStep, Contexts, Enabling, Goto, CallTypeOK
<1>6. Attribution'
  BY DEF IsrWrite, Attribution, Enabling, isBusy, historyVars, Goto
<1>7. Ledger'
  BY <1>6 DEF IsrWrite, Ledger, Attribution, MemberTypeOK, Contexts, historyVars, Goto,
     Advanced
<1> QED
  BY <1>1, <1>2, <1>3, <1>4, <1>5, <1>6, <1>7

\* The test before a word is read (spi_driver.hpp:370).
LEMMA IsrRxReadyKeeps ==
  ASSUME IInv, IsrRxReady
  PROVE  IInv'
<1> USE BlockAssumption DEF IInv, TypeOK
<1>1. BlockTypeOK'
  BY DEF IsrRxReady, BlockTypeOK, Slot, WireWord, Empty, Stale, CallTypeOK, MemberTypeOK,
     HistoryTypeOK, CountersInStep, memberVars, historyVars, rxVars, txVars, Goto, ReadSR,
     RXNE
<1>2. MemberTypeOK'
  BY DEF IsrRxReady, MemberTypeOK, memberVars
<1>3. CallTypeOK'
  BY DEF IsrRxReady, CallTypeOK, IsrLabels, Contexts, Goto
<1>4. HistoryTypeOK'
  BY DEF IsrRxReady, HistoryTypeOK, historyVars
<1>5. CountersInStep'
  BY DEF IsrRxReady, CountersInStep, Enabling, memberVars, Goto
<1>6. Attribution'
  BY DEF IsrRxReady, Attribution, Enabling, isBusy, memberVars, historyVars, Goto
<1>7. Ledger'
  BY <1>6 DEF IsrRxReady, Ledger, Armed, memberVars, historyVars, Goto
<1> QED
  BY <1>1, <1>2, <1>3, <1>4, <1>5, <1>6, <1>7

\* A read of DR returns a word, from an empty buffer too.
LEMMA DataReadTyped == ASSUME BlockTypeOK PROVE DataRead \in WireWord
  BY BlockAssumption DEF BlockTypeOK, DataRead, RXNE, Slot, WireWord, Stale

\* readNextAsyncWord (spi_driver.hpp:371-374, 589-595): rxRemaining is positive and the
\* receive pointer moves with it.
LEMMA IsrReadKeeps ==
  ASSUME IInv, IsrRead
  PROVE  IInv'
<1> USE BlockAssumption DEF IInv, TypeOK
<1>1. BlockTypeOK'
  BY DEF IsrRead, BlockTypeOK, Slot, txVars, ReadDR
<1>2. MemberTypeOK'
  BY DEF IsrRead, MemberTypeOK, CountersInStep, Advanced
<1>3. CallTypeOK'
  BY DEF IsrRead, CallTypeOK, IsrLabels, Contexts, Goto
<1>4. HistoryTypeOK'
  <2>1. got' \in Seq(WireWord)
    BY DataReadTyped, AppendProperties DEF IsrRead, HistoryTypeOK
  <2> QED
    BY <2>1 DEF IsrRead, HistoryTypeOK
<1>5. CountersInStep'
  BY DEF IsrRead, CountersInStep, Contexts, Enabling, Goto, CallTypeOK
<1>6. Attribution'
  BY DEF IsrRead, Attribution, Enabling, isBusy, Goto
<1>7. Ledger'
  BY <1>6 DEF IsrRead, Ledger, Attribution, MemberTypeOK, Contexts, Goto, Advanced
<1> QED
  BY <1>1, <1>2, <1>3, <1>4, <1>5, <1>6, <1>7

\* Completion (spi_driver.hpp:377-384): the enables, the state and the debt of a report
\* go together.
LEMMA IsrCompleteKeeps ==
  ASSUME IInv, IsrComplete
  PROVE  IInv'
<1> USE BlockAssumption DEF IInv, TypeOK
<1>1. BlockTypeOK'
  BY DEF IsrComplete, BlockTypeOK, wireVars, disableInterrupts
<1>2. MemberTypeOK'
  BY DEF IsrComplete, MemberTypeOK, States
<1>3. CallTypeOK'
  BY DEF IsrComplete, CallTypeOK, IsrLabels, Contexts, Goto
<1>4. HistoryTypeOK'
  BY DEF IsrComplete, HistoryTypeOK, CallTypeOK, BlockTypeOK, Slot, WireWord, Stale, Empty,
     wireVars, Goto, disableInterrupts, AllDone, Report, fgEnabling
<1>5. CountersInStep'
  BY DEF IsrComplete, CountersInStep, Enabling, Goto
<1>6. Attribution'
  <2> SUFFICES ASSUME ~raced' PROVE Attribution'
    BY DEF Attribution
  <2>1. ~raced /\ pc["fg"] \notin Enabling
    BY DEF IsrComplete, fgEnabling, HistoryTypeOK
  <2>2. pc["fg"] = "idle"
    BY <2>1 DEF Attribution, IsrComplete, CallTypeOK, FgLabels
  <2>3. pc'["fg"] = "idle" /\ pc'["isr"] = "callback" /\ ~owed' /\ ie' = {}
    BY <2>2 DEF IsrComplete, disableInterrupts, Goto, Report, CallTypeOK, Contexts
  <2> QED
    BY <2>3 DEF Attribution, Enabling, Polling, Flushing
<1>7. Ledger'
  BY <1>6 DEF IsrComplete, Ledger, Report
<1> QED
  BY <1>1, <1>2, <1>3, <1>4, <1>5, <1>6, <1>7

\* onInterrupt returns (spi_driver.hpp:385).
LEMMA IsrReturnKeeps ==
  ASSUME IInv, IsrReturn
  PROVE  IInv'
<1> USE BlockAssumption DEF IInv, TypeOK
<1>1. BlockTypeOK'
  BY DEF IsrReturn, BlockTypeOK, blockVars
<1>2. MemberTypeOK'
  BY DEF IsrReturn, MemberTypeOK, memberVars
<1>3. CallTypeOK'
  BY DEF IsrReturn, CallTypeOK, IsrLabels, Contexts, Goto
<1>4. HistoryTypeOK'
  BY DEF IsrReturn, HistoryTypeOK, historyVars
<1>5. CountersInStep'
  BY DEF IsrReturn, CountersInStep, Enabling, Goto
<1>6. Attribution'
  BY DEF IsrReturn, Attribution, Enabling, isBusy, blockVars, memberVars, historyVars, Goto
<1>7. Ledger'
  BY <1>6 DEF IsrReturn, Ledger, Armed, memberVars, historyVars, Goto
<1> QED
  BY <1>1, <1>2, <1>3, <1>4, <1>5, <1>6, <1>7

----------------------------------------------------------------------------
(* Polling operations *)

\* A polling call begins (spi_driver.hpp:160-172): no report is owed, no interrupt is
\* enabled and the handler is idle.
LEMMA StartPollKeeps ==
  ASSUME IInv, NEW kind \in PollKinds, NEW n \in Counts, StartPoll(kind, n)
  PROVE  IInv'
<1> USE BlockAssumption DEF IInv, TypeOK
<1>1. BlockTypeOK'
  BY DEF StartPoll, BlockTypeOK, Slot, WireWord, Stale, BeginHistory, AsStale
<1>2. MemberTypeOK'
  BY DEF StartPoll, MemberTypeOK, States, BusyState
<1>3. CallTypeOK'
  BY DEF StartPoll, CallTypeOK, FgLabels, IsrLabels, Contexts, Polling, Goto, Counts
<1>4. HistoryTypeOK'
  <2>1. got' \in Seq(WireWord)
    BY DEF StartPoll, BeginHistory
  <2> QED
    BY <2>1 DEF StartPoll, BeginHistory, HistoryTypeOK
<1>5. CountersInStep'
  BY DEF StartPoll, CountersInStep, CallTypeOK, Enabling, Polling, Goto, MayCall, Counts
<1>6. Attribution'
  BY DEF StartPoll, Attribution, HistoryTypeOK, Enabling, Goto, MayCall, BeginHistory
<1>7. Ledger'
  BY <1>6 DEF StartPoll, Ledger
<1> QED
  BY <1>1, <1>2, <1>3, <1>4, <1>5, <1>6, <1>7

\* A wait for txReady in a polling loop, the last one of transmitPolling included.
LEMMA PollTxReadyKeeps ==
  ASSUME IInv, PollTxReady
  PROVE  IInv'
<1> USE BlockAssumption DEF IInv, TypeOK
<1>1. BlockTypeOK'
  BY DEF PollTxReady, BlockTypeOK, Slot, WireWord, Empty, Stale, CallTypeOK, MemberTypeOK,
     HistoryTypeOK, CountersInStep, historyVars, txVars, Goto, ReadSR, PollReturn, TXE, Last,
     Runs, NoArgs
<1>2. MemberTypeOK'
  BY DEF PollTxReady, MemberTypeOK, States, PollReturn
<1>3. CallTypeOK'
  BY DEF PollTxReady, CallTypeOK, FgLabels, IsrLabels, Contexts, Polling, Goto, PollReturn,
     NoArgs
<1>4. HistoryTypeOK'
  BY DEF PollTxReady, HistoryTypeOK, historyVars
<1>5. CountersInStep'
  BY DEF PollTxReady, CountersInStep, CallTypeOK, Contexts, Enabling, Polling, Goto,
     PollReturn, Last
<1>6. Attribution'
  BY DEF PollTxReady, Attribution, CallTypeOK, Contexts, Enabling, Polling, historyVars, Goto,
     PollReturn
<1>7. Ledger'
  BY <1>6 DEF PollTxReady, Ledger, Armed, CallTypeOK, historyVars, Goto, PollReturn
<1> QED
  BY <1>1, <1>2, <1>3, <1>4, <1>5, <1>6, <1>7

\* writeData in a polling loop.
LEMMA PollWriteKeeps ==
  ASSUME IInv, PollWrite
  PROVE  IInv'
<1> USE BlockAssumption DEF IInv, TypeOK
<1>1. BlockTypeOK'
  BY DEF PollWrite, BlockTypeOK, Slot, WireWord, Stale, CallTypeOK, WriteDR, ReadDR
<1>2. MemberTypeOK'
  BY DEF PollWrite, MemberTypeOK, memberVars
<1>3. CallTypeOK'
  BY DEF PollWrite, CallTypeOK, FgLabels, IsrLabels, Contexts, Polling, Goto
<1>4. HistoryTypeOK'
  BY DEF PollWrite, HistoryTypeOK, historyVars
<1>5. CountersInStep'
  BY DEF PollWrite, CountersInStep, Enabling, Polling, memberVars, Goto
<1>6. Attribution'
  BY DEF PollWrite, Attribution, Enabling, Polling, historyVars, Goto
<1>7. Ledger'
  BY <1>6 DEF PollWrite, Ledger, Armed, memberVars, historyVars, Goto
<1> QED
  BY <1>1, <1>2, <1>3, <1>4, <1>5, <1>6, <1>7

\* A wait for rxReady in a polling loop.
LEMMA PollRxReadyKeeps ==
  ASSUME IInv, PollRxReady
  PROVE  IInv'
<1> USE BlockAssumption DEF IInv, TypeOK
<1>1. BlockTypeOK'
  BY DEF PollRxReady, BlockTypeOK, Slot, WireWord, Empty, Stale, CallTypeOK, MemberTypeOK,
     HistoryTypeOK, CountersInStep, memberVars, historyVars, txVars, Goto, ReadSR, RXNE, Runs
<1>2. MemberTypeOK'
  BY DEF PollRxReady, MemberTypeOK, memberVars
<1>3. CallTypeOK'
  BY DEF PollRxReady, CallTypeOK, FgLabels, IsrLabels, Contexts, Polling, Goto
<1>4. HistoryTypeOK'
  BY DEF PollRxReady, HistoryTypeOK, historyVars
<1>5. CountersInStep'
  BY DEF PollRxReady, CountersInStep, Enabling, Polling, memberVars, Goto
<1>6. Attribution'
  BY DEF PollRxReady, Attribution, Enabling, Polling, historyVars, Goto
<1>7. Ledger'
  BY <1>6 DEF PollRxReady, Ledger, Armed, memberVars, historyVars, Goto
<1> QED
  BY <1>1, <1>2, <1>3, <1>4, <1>5, <1>6, <1>7

\* failTimeout (spi_driver.hpp:438-441).
LEMMA PollTimeoutKeeps ==
  ASSUME IInv, PollTimeout
  PROVE  IInv'
<1> USE BlockAssumption DEF IInv, TypeOK
<1>1. BlockTypeOK'
  BY DEF PollTimeout, BlockTypeOK, Slot, WireWord, Empty, Stale, CallTypeOK, MemberTypeOK,
     HistoryTypeOK, CountersInStep, historyVars, txVars, Goto, ReadSR, PollReturn, RXNE, TXE,
     Runs, NoArgs
<1>2. MemberTypeOK'
  BY DEF PollTimeout, MemberTypeOK, States, PollReturn
<1>3. CallTypeOK'
  BY DEF PollTimeout, CallTypeOK, FgLabels, IsrLabels, Contexts, Goto, PollReturn, NoArgs
<1>4. HistoryTypeOK'
  BY DEF PollTimeout, HistoryTypeOK, historyVars
<1>5. CountersInStep'
  BY DEF PollTimeout, CountersInStep, CallTypeOK, Contexts, Enabling, Polling, Goto,
     PollReturn
<1>6. Attribution'
  BY DEF PollTimeout, Attribution, Polling, historyVars, Goto, PollReturn
<1>7. Ledger'
  BY <1>6 DEF PollTimeout, Ledger, Armed, historyVars, Goto, PollReturn
<1> QED
  BY <1>1, <1>2, <1>3, <1>4, <1>5, <1>6, <1>7

\* readData in a polling loop.
LEMMA PollReadKeeps ==
  ASSUME IInv, PollRead
  PROVE  IInv'
<1> USE BlockAssumption DEF IInv, TypeOK
<1>1. BlockTypeOK'
  BY DEF PollRead, BlockTypeOK, Slot, txVars, ReadDR
<1>2. MemberTypeOK'
  BY DEF PollRead, MemberTypeOK, memberVars
<1>3. CallTypeOK'
  BY DEF PollRead, CallTypeOK, FgLabels, IsrLabels, Contexts, Polling, Goto
<1>4. HistoryTypeOK'
  <2>1. got' \in Seq(WireWord)
    BY DataReadTyped, AppendProperties DEF PollRead, HistoryTypeOK
  <2> QED
    BY <2>1 DEF PollRead, HistoryTypeOK
<1>5. CountersInStep'
  BY DEF PollRead, CountersInStep, Enabling, Polling, memberVars, Goto
<1>6. Attribution'
  BY DEF PollRead, Attribution, Enabling, Polling, Goto
<1>7. Ledger'
  BY <1>6 DEF PollRead, Ledger, Contexts, memberVars, Goto, Runs
<1> QED
  BY <1>1, <1>2, <1>3, <1>4, <1>5, <1>6, <1>7

\* captureErrors in a polling loop, and the end of the loop: index stays in range.
LEMMA PollCaptureKeeps ==
  ASSUME IInv, PollCapture
  PROVE  IInv'
<1> USE BlockAssumption DEF IInv, TypeOK
<1>1. BlockTypeOK'
  BY DEF PollCapture, BlockTypeOK, Slot, WireWord, Empty, Stale, CallTypeOK, MemberTypeOK,
     HistoryTypeOK, CountersInStep, historyVars, txVars, Goto, ReadSR, PollReturn, Errors,
     Writes, Runs, NoArgs
<1>2. MemberTypeOK'
  <2>1. err' \subseteq Faults \cup {"overrun"}
    BY DEF PollCapture, Errors, BlockTypeOK, MemberTypeOK
  <2>2. st' \in States
    BY DEF PollCapture, PollReturn, States, MemberTypeOK
  <2> QED
    BY <2>1, <2>2 DEF PollCapture, MemberTypeOK
<1>3. CallTypeOK'
  BY DEF PollCapture, CallTypeOK, FgLabels, IsrLabels, Contexts, Polling, CountersInStep,
     Goto, PollReturn, NoArgs
<1>4. HistoryTypeOK'
  BY DEF PollCapture, HistoryTypeOK, historyVars
<1>5. CountersInStep'
  BY DEF PollCapture, CountersInStep, Contexts, Enabling, Polling, Goto, PollReturn, Writes,
     CallTypeOK
<1>6. Attribution'
  BY DEF PollCapture, Attribution, CallTypeOK, Contexts, Enabling, Polling, historyVars, Goto,
     PollReturn
<1>7. Ledger'
  <2>1. ~raced => ~owed
    BY DEF PollCapture, Attribution, Polling
  <2> QED
    BY <2>1 DEF PollCapture, Ledger, historyVars
<1> QED
  BY <1>1, <1>2, <1>3, <1>4, <1>5, <1>6, <1>7

----------------------------------------------------------------------------
(* The other calls, and the block *)

\* configure (spi_driver.hpp:80-98).
LEMMA ConfigureKeeps ==
  ASSUME IInv, Configure
  PROVE  IInv'
<1> USE BlockAssumption DEF IInv, TypeOK
<1>1. BlockTypeOK'
  <2>1. mode' \in BusModeSet /\ ie' \subseteq Enables /\ spe' \in BOOLEAN
    BY DriverAssumption DEF Configure, disableInterrupts
  <2> QED
    BY <2>1 DEF Configure, BlockTypeOK, wireVars
<1>2. MemberTypeOK'
  BY DEF Configure, MemberTypeOK, States
<1>3. CallTypeOK'
  BY DEF Configure, CallTypeOK, IsrLabels, callVars
<1>4. HistoryTypeOK'
  BY DEF Configure, HistoryTypeOK, historyVars
<1>5. CountersInStep'
  BY DEF Configure, CountersInStep, callVars
<1>6. Attribution'
  BY DEF Configure, Attribution, callVars, historyVars, disableInterrupts
<1>7. Ledger'
  BY <1>6 DEF Configure, Ledger, Contexts, callVars, historyVars, MayCall
<1> QED
  BY <1>1, <1>2, <1>3, <1>4, <1>5, <1>6, <1>7

\* clearError (spi_driver.hpp:106-111).
LEMMA ClearErrorKeeps ==
  ASSUME IInv, ClearError
  PROVE  IInv'
<1> USE BlockAssumption DEF IInv, TypeOK
<1>1. BlockTypeOK'
  BY DEF ClearError, BlockTypeOK, blockVars
<1>2. MemberTypeOK'
  BY DEF ClearError, MemberTypeOK, States
<1>3. CallTypeOK'
  BY DEF ClearError, CallTypeOK, IsrLabels, callVars
<1>4. HistoryTypeOK'
  BY DEF ClearError, HistoryTypeOK, historyVars
<1>5. CountersInStep'
  BY DEF ClearError, CountersInStep, callVars
<1>6. Attribution'
  BY DEF ClearError, Attribution, isBusy, blockVars, callVars, historyVars
<1>7. Ledger'
  BY <1>6 DEF ClearError, Ledger, Contexts, callVars, historyVars, MayCall
<1> QED
  BY <1>1, <1>2, <1>3, <1>4, <1>5, <1>6, <1>7

\* clearOverrun (spi_driver.hpp:143-149).
LEMMA ClearOverrunKeeps ==
  ASSUME IInv, ClearOverrun
  PROVE  IInv'
<1> USE BlockAssumption DEF IInv, TypeOK
<1>1. BlockTypeOK'
  BY DEF ClearOverrun, BlockTypeOK, Slot, WireWord, Empty, Stale, CallTypeOK, MemberTypeOK,
     HistoryTypeOK, CountersInStep, memberVars, callVars, historyVars, txVars, MayCall
<1>2. MemberTypeOK'
  BY DEF ClearOverrun, MemberTypeOK, memberVars
<1>3. CallTypeOK'
  BY DEF ClearOverrun, CallTypeOK, IsrLabels, callVars
<1>4. HistoryTypeOK'
  BY DEF ClearOverrun, HistoryTypeOK, historyVars
<1>5. CountersInStep'
  BY DEF ClearOverrun, CountersInStep, callVars, MayCall
<1>6. Attribution'
  BY DEF ClearOverrun, Attribution, callVars, historyVars
<1>7. Ledger'
  BY <1>6 DEF ClearOverrun, Ledger, Contexts, memberVars, callVars, historyVars, MayCall
<1> QED
  BY <1>1, <1>2, <1>3, <1>4, <1>5, <1>6, <1>7

\* flushReceive begins (spi_driver.hpp:151).
LEMMA FlushStartKeeps ==
  ASSUME IInv, FlushStart
  PROVE  IInv'
<1> USE BlockAssumption DEF IInv, TypeOK
<1>1. BlockTypeOK'
  BY DEF FlushStart, BlockTypeOK, blockVars
<1>2. MemberTypeOK'
  BY DEF FlushStart, MemberTypeOK, memberVars
<1>3. CallTypeOK'
  BY DEF FlushStart, CallTypeOK, FgLabels, IsrLabels, Contexts, Flushing, Goto
<1>4. HistoryTypeOK'
  BY DEF FlushStart, HistoryTypeOK, historyVars
<1>5. CountersInStep'
  BY DEF FlushStart, CountersInStep, Enabling, Polling, Goto, MayCall
<1>6. Attribution'
  BY DEF FlushStart, Attribution, Enabling, blockVars, historyVars, Goto, MayCall
<1>7. Ledger'
  BY <1>6 DEF FlushStart, Ledger, Attribution, historyVars, MayCall
<1> QED
  BY <1>1, <1>2, <1>3, <1>4, <1>5, <1>6, <1>7

\* flushReceive looks at SR (spi_driver.hpp:153).
LEMMA FlushCheckKeeps ==
  ASSUME IInv, FlushCheck
  PROVE  IInv'
<1> USE BlockAssumption DEF IInv, TypeOK
<1>1. BlockTypeOK'
  BY DEF FlushCheck, BlockTypeOK, Slot, WireWord, Empty, Stale, CallTypeOK, MemberTypeOK,
     HistoryTypeOK, CountersInStep, memberVars, historyVars, txVars, Goto, ReadSR, RXNE, Runs
<1>2. MemberTypeOK'
  BY DEF FlushCheck, MemberTypeOK, memberVars
<1>3. CallTypeOK'
  BY DEF FlushCheck, CallTypeOK, FgLabels, IsrLabels, Contexts, Flushing, Goto
<1>4. HistoryTypeOK'
  BY DEF FlushCheck, HistoryTypeOK, historyVars
<1>5. CountersInStep'
  BY DEF FlushCheck, CountersInStep, Enabling, Polling, memberVars, Goto
<1>6. Attribution'
  BY DEF FlushCheck, Attribution, Enabling, Flushing, historyVars, Goto
<1>7. Ledger'
  BY <1>6 DEF FlushCheck, Ledger, Armed, memberVars, historyVars, Goto
<1> QED
  BY <1>1, <1>2, <1>3, <1>4, <1>5, <1>6, <1>7

\* flushReceive takes a word (spi_driver.hpp:154).
LEMMA FlushDropKeeps ==
  ASSUME IInv, FlushDrop
  PROVE  IInv'
<1> USE BlockAssumption DEF IInv, TypeOK
<1>1. BlockTypeOK'
  BY DEF FlushDrop, BlockTypeOK, Slot, txVars, ReadDR
<1>2. MemberTypeOK'
  BY DEF FlushDrop, MemberTypeOK, memberVars
<1>3. CallTypeOK'
  BY DEF FlushDrop, CallTypeOK, FgLabels, IsrLabels, Contexts, Flushing, Goto
<1>4. HistoryTypeOK'
  BY DEF FlushDrop, HistoryTypeOK, historyVars
<1>5. CountersInStep'
  BY DEF FlushDrop, CountersInStep, Enabling, Polling, memberVars, Goto
<1>6. Attribution'
  BY DEF FlushDrop, Attribution, Enabling, Flushing, historyVars, Goto
<1>7. Ledger'
  BY <1>6 DEF FlushDrop, Ledger, Armed, memberVars, historyVars, Goto
<1> QED
  BY <1>1, <1>2, <1>3, <1>4, <1>5, <1>6, <1>7

\* enable and disable (spi_driver.hpp:113-121).
LEMMA SetEnableKeeps ==
  ASSUME IInv, SetEnable
  PROVE  IInv'
<1> USE BlockAssumption DEF IInv, TypeOK
<1>1. BlockTypeOK'
  BY DEF SetEnable, BlockTypeOK, Slot, WireWord, Empty, Stale, CallTypeOK, MemberTypeOK,
     HistoryTypeOK, CountersInStep, memberVars, callVars, historyVars, wireVars, MayCall
<1>2. MemberTypeOK'
  BY DEF SetEnable, MemberTypeOK, memberVars
<1>3. CallTypeOK'
  BY DEF SetEnable, CallTypeOK, IsrLabels, callVars
<1>4. HistoryTypeOK'
  BY DEF SetEnable, HistoryTypeOK, historyVars
<1>5. CountersInStep'
  BY DEF SetEnable, CountersInStep, callVars, MayCall
<1>6. Attribution'
  BY DEF SetEnable, Attribution, callVars, historyVars
<1>7. Ledger'
  BY <1>6 DEF SetEnable, Ledger, Contexts, memberVars, callVars, historyVars, MayCall
<1> QED
  BY <1>1, <1>2, <1>3, <1>4, <1>5, <1>6, <1>7

\* Whatever the block does by itself leaves the driver's members alone.
LEMMA BlockActsKeeps ==
  ASSUME IInv, BlockActs
  PROVE  IInv'
<1> USE BlockAssumption DEF IInv, TypeOK
<1>1. BlockTypeOK'
  <2>1. CASE LoadShift
    <3>1. sent' \in Seq(WireWord)
      BY <2>1, AppendProperties DEF LoadShift, BlockTypeOK, Slot
    <3> QED
      BY <2>1, <3>1 DEF LoadShift, BlockTypeOK
  <2>2. CASE FrameDone
    BY <2>2 DEF FrameDone, TakeFrame, rxVars, BlockTypeOK, Slot
  <2>3. CASE FrameArrives
    <3>1. arrived' \in 0 .. MaxCount + 1
      BY <2>3 DEF FrameArrives, BlockTypeOK
    <3>2. arrived' \in Slot
      BY <3>1 DEF Slot, WireWord, Stale
    <3> QED
      BY <2>3, <3>1, <3>2 DEF FrameArrives, TakeFrame, BlockTypeOK
  <2>4. CASE RaiseFault
    BY <2>4 DEF RaiseFault, wireVars, BlockTypeOK
  <2>5. CASE ClearFault
    BY <2>5 DEF ClearFault, wireVars, BlockTypeOK
  <2> QED
    BY <2>1, <2>2, <2>3, <2>4, <2>5 DEF BlockActs, BlockStep
<1>2. MemberTypeOK'
  BY DEF BlockActs, MemberTypeOK, memberVars, ClearFault
<1>3. CallTypeOK'
  BY DEF BlockActs, CallTypeOK, IsrLabels, callVars, ClearFault
<1>4. HistoryTypeOK'
  BY DEF BlockActs, HistoryTypeOK, historyVars, ClearFault
<1>5. CountersInStep'
  BY DEF BlockActs, CountersInStep, memberVars, callVars, ClearFault
<1>6. Attribution'
  BY DEF BlockActs, Attribution, isBusy, memberVars, callVars, historyVars, BlockStep,
     LoadShift, FrameDone, FrameArrives, RaiseFault, ClearFault
<1>7. Ledger'
  BY <1>6 DEF BlockActs, Ledger, Armed, memberVars, callVars, historyVars, ClearFault
<1> QED
  BY <1>1, <1>2, <1>3, <1>4, <1>5, <1>6, <1>7

----------------------------------------------------------------------------
(* Every step, and the theorems *)

\* A stutter leaves every conjunct of IInv as it was.
LEMMA StutterKeeps ==
  ASSUME IInv, UNCHANGED vars
  PROVE  IInv'
<1> USE DEF vars, blockVars, memberVars, callVars, historyVars
<1>1. TypeOK'
  BY DEF IInv, TypeOK, BlockTypeOK, MemberTypeOK, CallTypeOK, HistoryTypeOK
<1>2. CountersInStep' /\ Attribution'
  BY DEF IInv, CountersInStep, Attribution, isBusy
<1>3. Ledger'
  BY DEF IInv, Ledger, Armed
<1> QED
  BY <1>1, <1>2, <1>3 DEF IInv

\* One case for each action of the application, the interrupt handler and the block
LEMMA NextKeeps ==
  ASSUME IInv, [Next]_vars
  PROVE  IInv'
<1>1. CASE BlockActs
  BY <1>1, BlockActsKeeps
<1>2. CASE AppCall
  <2>1. CASE \E kind \in AsyncKinds \cap Calls, n \in Counts : Start("fg", kind, n)
    BY <2>1, StartKeeps DEF Contexts
  <2>2. CASE \E kind \in PollKinds \cap Calls, n \in Counts : StartPoll(kind, n)
    BY <2>2, StartPollKeeps
  <2>3. CASE Cancel("fg")
    BY <2>3, CancelKeeps DEF Contexts
  <2> QED
    BY <1>2, <2>1, <2>2, <2>3, ConfigureKeeps, ClearErrorKeeps, ClearOverrunKeeps,
       FlushStartKeeps, SetEnableKeeps DEF AppCall
<1>3. CASE CallbackCall
  BY <1>3, StartKeeps, CancelKeeps DEF CallbackCall, Contexts
<1>4. CASE \E c \in Contexts : CallStep(c)
  BY <1>4, ArmKeeps, EnableCheckKeeps, EnableLoadKeeps, EnableStoreKeeps DEF CallStep
<1>5. CASE PollStep \/ PollTimeout
  BY <1>5, PollTxReadyKeeps, PollWriteKeeps, PollRxReadyKeeps, PollReadKeeps,
     PollCaptureKeeps, PollTimeoutKeeps DEF PollStep
<1>6. CASE FlushStep
  BY <1>6, FlushCheckKeeps, FlushDropKeeps DEF FlushStep
<1>7. CASE IsrEnter \/ IsrStep
  BY <1>7, IsrEnterKeeps, IsrCheckBusyKeeps, IsrCaptureKeeps, IsrFailKeeps, IsrTxReadyKeeps,
     IsrWriteKeeps, IsrRxReadyKeeps, IsrReadKeeps, IsrCompleteKeeps, IsrReturnKeeps
     DEF IsrStep
<1>8. CASE UNCHANGED vars
  BY <1>8, StutterKeeps
<1> QED
  BY <1>1, <1>2, <1>3, <1>4, <1>5, <1>6, <1>7, <1>8 DEF Next

\* The conjuncts of IInv hold in every reachable state, for every buffer length, fault
\* set, choice of modes and entry points, chaining or not.
THEOREM Invariance == Spec => []IInv
<1>1. Init => IInv
  BY InitEstablishes
<1>2. IInv /\ [Next]_vars => IInv'
  BY NextKeeps
<1> QED
  BY <1>1, <1>2, PTL DEF Spec

\* Type correctness: among the rest, txRemaining and rxRemaining never wrap below zero
\* (spi_driver.hpp:584-595), whatever interrupts, faults and cancellations come when.
THEOREM TypeCorrect == Spec => []TypeOK
<1>1. IInv => TypeOK
  BY DEF IInv
<1> QED
  BY <1>1, Invariance, PTL

\* The buffer pointers and the counters of an operation in progress move together, so
\* that no *txBuffer++ or *rxBuffer++ (spi_driver.hpp:585, 592) leaves its buffer.
THEOREM LedgerHolds == Spec => []BufferLedger
<1>1. IInv => BufferLedger
  BY DEF IInv, Ledger, BufferLedger, Contexts
<1> QED
  BY <1>1, Invariance, PTL

\* No interrupt stays enabled for an operation that was reported, failed or cancelled
\* (spi_driver.hpp:341, 358, 379).
THEOREM InterruptsAreAttributed == Spec => []InterruptsBelongToAnOperation
<1>1. IInv => InterruptsBelongToAnOperation
  BY DEF IInv, Attribution, InterruptsBelongToAnOperation
<1> QED
  BY <1>1, Invariance, PTL

\* A report nobody waits for is only ever made after a start call lost the race for
\* CR2 against the interrupt handler (spi_driver.hpp:352-385, 548-557).
THEOREM NoStrayReport == Spec => StrayReportOnlyAfterRace
<1> DEFINE StrayOnlyAfterRace == stray' /\ ~stray => raced
<1>1. ASSUME IInv, Next, stray', ~stray
      PROVE  raced
  <2>1. CASE IsrFail
    <3>1. pc["isr"] = "fail" /\ ~owed
      BY <1>1, <2>1 DEF IsrFail, Report, IInv, TypeOK, HistoryTypeOK
    <3> QED
      BY <1>1, <3>1 DEF IInv, Attribution
  <2>2. CASE IsrComplete
    <3>1. pc["isr"] = "done" /\ ~owed
      BY <1>1, <2>2 DEF IsrComplete, Report, IInv, TypeOK, HistoryTypeOK
    <3> QED
      BY <1>1, <3>1 DEF IInv, Attribution
  <2>3. CASE BlockActs \/ AppCall \/ CallbackCall
    BY <1>1, <2>3 DEF BlockActs, AppCall, CallbackCall, Start, StartPoll, Cancel, Configure,
       ClearError, ClearOverrun, FlushStart, SetEnable, historyVars
  <2>4. CASE (\E c \in Contexts : CallStep(c)) \/ PollStep \/ PollTimeout \/ FlushStep
    BY <1>1, <2>4 DEF CallStep, Arm, EnableCheck, EnableLoad, EnableStore, PollStep,
       PollTxReady, PollWrite, PollRxReady, PollRead, PollCapture, PollTimeout, FlushStep,
       FlushCheck, FlushDrop, historyVars
  <2>5. CASE IsrEnter \/ (IsrStep /\ ~IsrFail /\ ~IsrComplete)
    BY <1>1, <2>5 DEF IsrEnter, IsrStep, IsrCheckBusy, IsrCapture, IsrTxReady, IsrWrite,
       IsrRxReady, IsrRead, IsrReturn, historyVars
  <2> QED
    BY <1>1, <2>1, <2>2, <2>3, <2>4, <2>5 DEF Next, IsrStep
<1>2. IInv /\ [Next]_vars => [StrayOnlyAfterRace]_vars
  BY <1>1
<1>3. Spec => [][StrayOnlyAfterRace]_vars
  BY <1>2, Invariance, PTL DEF Spec
<1> QED
  BY <1>3 DEF StrayReportOnlyAfterRace
=============================================================================
