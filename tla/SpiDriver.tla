----------------------------- MODULE SpiDriver -----------------------------
(***************************************************************************)
(* SpiDriver<Block> of examples/stm32f429/spi_driver.hpp over the block of *)
(* module SpiBlock.  Two contexts run the driver: "fg", the application,   *)
(* and "isr", onInterrupt with the callbacks it makes.  The interrupt      *)
(* handler preempts the application between any two of its steps and runs  *)
(* to completion; a step is one access to the block together with the      *)
(* member updates around it.                                               *)
(*                                                                         *)
(* What the application is assumed to do: it configures the driver before  *)
(* it starts anything, makes one call at a time, and leaves DR, SPE and    *)
(* the configuration alone while an operation is in progress.              *)
(***************************************************************************)
EXTENDS SpiBlock, FiniteSets

CONSTANTS BusModes,     \* the bus modes the application configures
          Calls,        \* the entry points the application uses
          Chaining      \* TRUE: callbacks may start or cancel operations

AsyncKinds == {"tx", "rx", "transfer"}
PollKinds  == {"pollTx", "pollRx", "pollTransfer"}
OtherCalls == {"cancel", "clearError", "clearOverrun", "flush", "enable", "disable"}

ASSUME DriverAssumption ==
  /\ BusModes \subseteq BusModeSet /\ BusModes # {}
  /\ Calls \subseteq AsyncKinds \cup PollKinds \cup OtherCalls
  /\ Chaining \in BOOLEAN

Null == 0               \* nullptr; a buffer pointer is the position of the next word

VARIABLES st,           \* currentState
          err,          \* lastError
          op,           \* currentOperation
          txBuf, rxBuf, \* txBuffer, rxBuffer
          txRem, rxRem, \* txRemaining, rxRemaining
          pc,           \* where each context is
          args,         \* per context, the call in progress: its kind and count
          at,           \* per context, the next member or interrupt enable to set
          cr2,          \* per context, the word its read-modify-write of CR2 loaded
          index         \* the polling loops' index

VARIABLES size,         \* history: words in the buffers of the operation
          got,          \* history: words the driver stored in the receive buffer
          owed,         \* history: an accepted operation has not been reported yet
          stray,        \* history: a callback was made that no operation was owed
          clean,        \* history: the block held nothing when the operation began
          raced         \* history: interrupts were disabled by the interrupt handler
                        \*   while the application was enabling them

callVars    == <<pc, args, at, cr2, index>>
memberVars  == <<st, err, op, txBuf, rxBuf, txRem, rxRem>>
historyVars == <<size, got, owed, stray, clean, raced>>
vars == <<blockVars, memberVars, callVars, historyVars>>

Contexts == {"fg", "isr"}
Enabling == {"enable", "load", "store"}
Polling  == {"waitTx", "write", "waitRx", "read", "capture"}
Flushing == {"flush", "drop"}
FgLabels  == {"idle", "arm"} \cup Enabling \cup Polling \cup Flushing
IsrLabels == {"idle", "entry", "capture", "fail", "tx", "write", "rx", "read", "done",
              "callback", "arm"} \cup Enabling
States   == {"reset", "ready", "busyTx", "busyRx", "busyTransfer", "error"}
Counts   == 1 .. MaxCount

isBusy            == st \in {"busyTx", "busyRx", "busyTransfer"}
supportsTransmit  == mode \in {"fullDuplex", "halfDuplexTx"}
supportsReceive   == mode \in {"fullDuplex", "receiveOnly", "halfDuplexRx"}
supportsTransfer  == mode = "fullDuplex"

Supports(kind) == CASE kind \in {"tx", "pollTx"} -> supportsTransmit
                    [] kind \in {"rx", "pollRx"} -> supportsReceive
                    [] OTHER                     -> supportsTransfer

BusyState(kind) == CASE kind \in {"tx", "pollTx"} -> "busyTx"
                     [] kind \in {"rx", "pollRx"} -> "busyRx"
                     [] OTHER                     -> "busyTransfer"

NoArgs == [kind |-> "none", n |-> 0]

----------------------------------------------------------------------------
Init ==
  /\ BlockInit
  /\ st = "reset" /\ err = {} /\ op = "none"
  /\ txBuf = Null /\ rxBuf = Null /\ txRem = 0 /\ rxRem = 0
  /\ pc = [c \in Contexts |-> "idle"]
  /\ args = [c \in Contexts |-> NoArgs]
  /\ at = [c \in Contexts |-> 0]
  /\ cr2 = [c \in Contexts |-> {}]
  /\ index = 0
  /\ size = 0 /\ got = <<>> /\ owed = FALSE /\ stray = FALSE
  /\ clean = FALSE /\ raced = FALSE

\* The interrupt handler runs to completion; the application runs when it does not.
Runs(c) == c = "isr" \/ pc["isr"] = "idle"

\* A context is free to make an API call: the application between calls, the
\* interrupt handler inside a callback.
MayCall(c) == \/ c = "fg" /\ pc["fg"] = "idle" /\ pc["isr"] = "idle"
              \/ c = "isr" /\ Chaining /\ pc["isr"] = "callback"

Goto(c, label) == pc' = [pc EXCEPT ![c] = label]

fgEnabling == pc["fg"] \in Enabling

\* disableInterrupts.  Its read-modify-write stores {} whatever it loaded.
disableInterrupts_ErrorsStay == ie' = ie \cap {"ERRIE"}
disableInterrupts == ie' = {}

\* History: a new operation begins; whatever the block holds is of an earlier one,
\* and a race is over when the application begins with no interrupt left enabled.
AsStale(word) == IF word = Empty THEN Empty ELSE Stale
BeginHistory(c) ==
  /\ raced' = (raced /\ (c = "isr" \/ ie # {}))
  /\ txb' = AsStale(txb) /\ shift' = AsStale(shift) /\ rxb' = AsStale(rxb)
  /\ sent' = <<>> /\ arrived' = 0 /\ got' = <<>>
  /\ clean' = (txb = Empty /\ shift = Empty /\ rxb = Empty /\ ~ovr)

\* History: a callback reports the operation in progress, if one is owed.
Report == /\ owed' = FALSE
          /\ stray' = (stray \/ ~owed)

----------------------------------------------------------------------------
(* Interrupt-driven operations: startTransmitInterrupt, startReceive-       *)
(* Interrupt, startTransferInterrupt                                        *)

\* The argument and state checks and beginAsync
Start(c, kind, n) ==
  /\ MayCall(c)
  /\ st # "reset" /\ ~isBusy
  /\ Supports(kind)
  /\ err' = {} /\ st' = BusyState(kind) /\ spe' = TRUE
  /\ BeginHistory(c) /\ owed' = TRUE
  /\ args' = [args EXCEPT ![c] = [kind |-> kind, n |-> n]]
  /\ at' = [at EXCEPT ![c] = 1]
  /\ Goto(c, "arm")
  /\ UNCHANGED <<mode, ie, ovr, ovrSeq, flags, op, txBuf, rxBuf, txRem, rxRem, cr2, index,
                 size, stray>>

\* The transfer state, one member after the other in program order
Arm(c) ==
  LET kind   == args[c].kind
      n      == args[c].n
      duplex == mode = "fullDuplex"
  IN
  /\ pc[c] = "arm" /\ Runs(c)
  /\ txBuf' = IF at[c] = 1 THEN (IF kind = "rx" THEN Null ELSE 1) ELSE txBuf
  /\ txRem' = IF at[c] = 2 THEN (IF kind = "rx" /\ ~duplex THEN 0 ELSE n) ELSE txRem
  /\ rxBuf' = IF at[c] = 3 THEN (IF kind = "tx" THEN Null ELSE 1) ELSE rxBuf
  /\ rxRem' = IF at[c] = 4 THEN (IF kind = "tx" /\ ~duplex THEN 0 ELSE n) ELSE rxRem
  /\ op'    = IF at[c] = 5 THEN kind ELSE op
  /\ size'  = IF at[c] = 1 THEN n ELSE size
  /\ at' = [at EXCEPT ![c] = IF @ < 5 THEN @ + 1 ELSE 1]
  /\ args' = [args EXCEPT ![c] = IF at[c] < 5 THEN @ ELSE NoArgs]
  /\ Goto(c, IF at[c] < 5 THEN "arm" ELSE "enable")
  /\ UNCHANGED <<blockVars, st, err, cr2, index, got, owed, stray, clean, raced>>

\* enableAsyncInterrupts: ERRIE, TXEIE if there is something to send, RXNEIE if there
\* is something to receive, each by a read-modify-write of CR2
EnableOrder_Swapped == <<"ERRIE", "RXNEIE", "TXEIE">>
EnableOrder == <<"ERRIE", "TXEIE", "RXNEIE">>

EnableCheck(c) ==
  LET wanted == CASE at[c] = 1 -> TRUE [] at[c] = 2 -> txRem > 0 [] OTHER -> rxRem > 0
      label  == IF wanted THEN "load" ELSE IF at[c] < 3 THEN "enable" ELSE "idle"
  IN
  /\ pc[c] = "enable" /\ Runs(c)
  /\ at' = [at EXCEPT ![c] = IF wanted THEN @ ELSE IF @ < 3 THEN @ + 1 ELSE 0]
  /\ Goto(c, label)
  /\ UNCHANGED <<blockVars, memberVars, args, cr2, index, historyVars>>

EnableLoad(c) ==
  /\ pc[c] = "load" /\ Runs(c)
  /\ cr2' = [cr2 EXCEPT ![c] = ie]
  /\ Goto(c, "store")
  /\ UNCHANGED <<blockVars, memberVars, args, at, index, historyVars>>

EnableStore(c) ==
  /\ pc[c] = "store" /\ Runs(c)
  /\ ie' = cr2[c] \cup {EnableOrder[at[c]]}
  /\ cr2' = [cr2 EXCEPT ![c] = {}]
  /\ at' = [at EXCEPT ![c] = IF @ < 3 THEN @ + 1 ELSE 0]
  /\ Goto(c, IF at[c] < 3 THEN "enable" ELSE "idle")
  /\ UNCHANGED <<mode, spe, flags, wireVars, memberVars, args, index, historyVars>>

\* cancelInterrupt, from any state
Cancel(c) ==
  /\ MayCall(c)
  /\ disableInterrupts
  /\ txBuf' = Null /\ rxBuf' = Null /\ txRem' = 0 /\ rxRem' = 0
  /\ op' = "none" /\ st' = "ready"
  /\ owed' = FALSE
  /\ raced' = (raced \/ (c = "isr" /\ fgEnabling))
  /\ Goto(c, "idle")
  /\ UNCHANGED <<mode, spe, flags, wireVars, err, args, at, cr2, index, size, got, stray,
                 clean>>

----------------------------------------------------------------------------
(* onInterrupt *)

\* Entry, and the return when no operation is in progress
IsrEnter == /\ pc["isr"] = "idle" /\ IrqLine
            /\ Goto("isr", "entry")
            /\ UNCHANGED <<blockVars, memberVars, args, at, cr2, index, historyVars>>

IsrCheckBusy == /\ pc["isr"] = "entry"
                /\ Goto("isr", IF isBusy THEN "capture" ELSE "idle")
                /\ UNCHANGED <<blockVars, memberVars, args, at, cr2, index, historyVars>>

\* captureErrors: the first of its reads of SR is the one that can clear OVR
captureErrors == /\ err' = err \cup Errors
                 /\ st' = IF Errors # {} THEN "error" ELSE st
                 /\ ReadSR

IsrCapture == /\ pc["isr"] = "capture"
              /\ captureErrors
              /\ Goto("isr", IF Errors # {} THEN "fail" ELSE "tx")
              /\ UNCHANGED <<mode, spe, ie, txVars, flags, arrived, op, txBuf, rxBuf, txRem,
                             rxRem, args, at, cr2, index, historyVars>>

\* disableInterrupts and the error callback; the transfer state stays as it was
IsrFail == /\ pc["isr"] = "fail"
           /\ disableInterrupts
           /\ Report
           /\ raced' = (raced \/ fgEnabling)
           /\ Goto("isr", "callback")
           /\ UNCHANGED <<mode, spe, flags, wireVars, memberVars, args, at, cr2, index, size,
                          got, clean>>

\* The first half of the handler has a word to write and room for it.
TxWanted_NoCount == TXE
TxWanted_NoFlag == txRem > 0
TxWanted == txRem > 0 /\ TXE

IsrTxReady == /\ pc["isr"] = "tx"
              /\ IF txRem > 0 THEN ReadSR ELSE UNCHANGED rxVars
              /\ Goto("isr", IF TxWanted THEN "write" ELSE "rx")
              /\ UNCHANGED <<mode, spe, ie, txVars, flags, arrived, memberVars, args, at, cr2,
                             index, historyVars>>

\* *txBuffer++ and *rxBuffer++ leave nullptr alone.
Advanced_Stuck(buf) == buf
Advanced(buf) == IF buf # Null THEN buf + 1 ELSE Null

\* writeNextAsyncWord, and disableTxeInterrupt after the last word.  A fill word is
\* numbered by its turn; what lies beyond the buffer is Stale.
NextWord == LET n == IF txBuf # Null THEN txBuf ELSE size - txRem + 1
            IN  IF n \in 1 .. size THEN n ELSE Stale

IsrWrite == /\ pc["isr"] = "write"
            /\ WriteDR(NextWord)
            /\ txBuf' = Advanced(txBuf)
            /\ txRem' = txRem - 1
            /\ ie' = IF txRem = 1 THEN ie \ {"TXEIE"} ELSE ie
            /\ Goto("isr", "rx")
            /\ UNCHANGED <<mode, spe, flags, arrived, st, err, op, rxBuf, rxRem, args, at, cr2,
                           index, historyVars>>

IsrRxReady == /\ pc["isr"] = "rx"
              /\ IF rxRem > 0 THEN ReadSR ELSE UNCHANGED rxVars
              /\ Goto("isr", IF rxRem > 0 /\ RXNE THEN "read" ELSE "done")
              /\ UNCHANGED <<mode, spe, ie, txVars, flags, arrived, memberVars, args, at, cr2,
                             index, historyVars>>

\* readNextAsyncWord, and disableRxneInterrupt after the last word
IsrRead == /\ pc["isr"] = "read"
           /\ ReadDR
           /\ got' = IF rxBuf # Null THEN Append(got, DataRead) ELSE got
           /\ rxBuf' = Advanced(rxBuf)
           /\ rxRem' = rxRem - 1
           /\ ie' = IF rxRem = 1 THEN ie \ {"RXNEIE"} ELSE ie
           /\ Goto("isr", "done")
           /\ UNCHANGED <<mode, spe, txVars, flags, arrived, st, err, op, txBuf, txRem, args,
                          at, cr2, index, size, owed, stray, clean, raced>>

AllDone_TxOnly == txRem = 0 /\ op # "none"
AllDone == txRem = 0 /\ rxRem = 0 /\ op # "none"

\* Nothing left: disableInterrupts, ready, and the completion callback
IsrComplete == /\ pc["isr"] = "done"
               /\ AllDone
               /\ disableInterrupts
               /\ op' = "none" /\ st' = "ready"
               /\ Report
               /\ raced' = (raced \/ fgEnabling)
               /\ Goto("isr", "callback")
               /\ UNCHANGED <<mode, spe, flags, wireVars, err, txBuf, rxBuf, txRem, rxRem, args,
                              at, cr2, index, size, got, clean>>

IsrReturn == /\ \/ pc["isr"] = "done" /\ ~AllDone
                \/ pc["isr"] = "callback"
             /\ Goto("isr", "idle")
             /\ UNCHANGED <<blockVars, memberVars, args, at, cr2, index, historyVars>>

IsrStep == IsrCheckBusy \/ IsrCapture \/ IsrFail \/ IsrTxReady \/ IsrWrite \/ IsrRxReady
             \/ IsrRead \/ IsrComplete \/ IsrReturn

----------------------------------------------------------------------------
(* Polling operations, application only: transmitPolling, receivePolling,   *)
(* transferPolling.  Each wait is waitUntil; it gives up after pollLimit    *)
(* reads of SR that did not show the flag.                                  *)

Writes == args["fg"].kind # "pollRx" \/ mode = "fullDuplex"
Reads  == args["fg"].kind # "pollTx" \/ mode = "fullDuplex"
Last_Early == index + 1 = args["fg"].n
Last   == index = args["fg"].n

StartPoll(kind, n) ==
  /\ MayCall("fg")
  /\ st # "reset" /\ ~isBusy
  /\ Supports(kind)
  /\ st' = BusyState(kind) /\ err' = {} /\ spe' = TRUE
  /\ BeginHistory("fg") /\ owed' = FALSE
  /\ args' = [args EXCEPT !["fg"] = [kind |-> kind, n |-> n]]
  /\ index' = 0
  /\ Goto("fg", IF kind # "pollRx" \/ mode = "fullDuplex" THEN "waitTx" ELSE "waitRx")
  /\ UNCHANGED <<mode, ie, ovr, ovrSeq, flags, op, txBuf, rxBuf, txRem, rxRem, at, cr2, size,
                 stray>>

\* The polling function returns and leaves the driver in state `final`.
PollReturn(final) == /\ st' = final
                     /\ args' = [args EXCEPT !["fg"] = NoArgs]
                     /\ index' = 0
                     /\ Goto("fg", "idle")

\* The last wait of transmitPolling is for the transmit buffer to empty again.
PollTxReady ==
  /\ pc["fg"] = "waitTx" /\ Runs("fg")
  /\ ReadSR
  /\ IF TXE /\ Last THEN PollReturn("ready")
     ELSE /\ Goto("fg", IF TXE THEN "write" ELSE "waitTx")
          /\ UNCHANGED <<st, args, index>>
  /\ UNCHANGED <<mode, spe, ie, txVars, flags, arrived, err, op, txBuf, rxBuf, txRem, rxRem,
                 at, cr2, historyVars>>

PollWrite ==
  /\ pc["fg"] = "write" /\ Runs("fg")
  /\ WriteDR(index + 1)
  /\ Goto("fg", IF Reads THEN "waitRx" ELSE "capture")
  /\ UNCHANGED <<mode, spe, ie, flags, arrived, memberVars, args, at, cr2, index, historyVars>>

PollRxReady ==
  /\ pc["fg"] = "waitRx" /\ Runs("fg")
  /\ ReadSR
  /\ Goto("fg", IF RXNE THEN "read" ELSE "waitRx")
  /\ UNCHANGED <<mode, spe, ie, txVars, flags, arrived, memberVars, args, at, cr2, index,
                 historyVars>>

\* failTimeout: ready again, whatever is still in flight
PollTimeout ==
  /\ \/ pc["fg"] = "waitTx" /\ ~TXE
     \/ pc["fg"] = "waitRx" /\ ~RXNE
  /\ Runs("fg")
  /\ ReadSR
  /\ PollReturn("ready")
  /\ UNCHANGED <<mode, spe, ie, txVars, flags, arrived, err, op, txBuf, rxBuf, txRem, rxRem,
                 at, cr2, historyVars>>

PollRead ==
  /\ pc["fg"] = "read" /\ Runs("fg")
  /\ ReadDR
  /\ got' = IF args["fg"].kind # "pollTx" THEN Append(got, DataRead) ELSE got
  /\ Goto("fg", "capture")
  /\ UNCHANGED <<mode, spe, ie, txVars, flags, arrived, memberVars, args, at, cr2, index,
                 size, owed, stray, clean, raced>>

PollCapture ==
  /\ pc["fg"] = "capture" /\ Runs("fg")
  /\ ReadSR
  /\ err' = err \cup Errors
  /\ IF Errors # {} THEN PollReturn("error")
     ELSE IF index + 1 = args["fg"].n /\ args["fg"].kind # "pollTx" THEN PollReturn("ready")
     ELSE /\ index' = index + 1
          /\ Goto("fg", IF Writes THEN "waitTx" ELSE "waitRx")
          /\ UNCHANGED <<st, args>>
  /\ UNCHANGED <<mode, spe, ie, txVars, flags, arrived, op, txBuf, rxBuf, txRem, rxRem, at,
                 cr2, historyVars>>

----------------------------------------------------------------------------
(* The other calls of the application *)

\* configure: CR1 and CR2 are written whole, the transfer members are left alone.
Configure ==
  /\ MayCall("fg") /\ ~isBusy
  /\ mode' \in BusModes
  /\ disableInterrupts /\ spe' \in BOOLEAN
  /\ err' = {} /\ st' = "ready"
  /\ UNCHANGED <<flags, wireVars, op, txBuf, rxBuf, txRem, rxRem, callVars, historyVars>>

ClearError ==
  /\ MayCall("fg") /\ "clearError" \in Calls
  /\ err' = {}
  /\ st' = IF st = "error" THEN "ready" ELSE st
  /\ UNCHANGED <<blockVars, op, txBuf, rxBuf, txRem, rxRem, callVars, historyVars>>

\* DR, then SR
ClearOverrun ==
  /\ MayCall("fg") /\ "clearOverrun" \in Calls /\ ~isBusy
  /\ rxb' = Empty /\ ovr' = FALSE /\ ovrSeq' = FALSE
  /\ UNCHANGED <<mode, spe, ie, txVars, flags, arrived, memberVars, callVars, historyVars>>

\* flushReceive: reads DR as long as SR shows a word
FlushStart ==
  /\ MayCall("fg") /\ "flush" \in Calls /\ ~isBusy
  /\ Goto("fg", "flush")
  /\ UNCHANGED <<blockVars, memberVars, args, at, cr2, index, historyVars>>

FlushCheck ==
  /\ pc["fg"] = "flush" /\ Runs("fg")
  /\ ReadSR
  /\ Goto("fg", IF RXNE THEN "drop" ELSE "idle")
  /\ UNCHANGED <<mode, spe, ie, txVars, flags, arrived, memberVars, args, at, cr2, index,
                 historyVars>>

FlushDrop_Peek ==
  /\ pc["fg"] = "drop" /\ Runs("fg")
  /\ Goto("fg", "flush")
  /\ UNCHANGED <<blockVars, memberVars, args, at, cr2, index, historyVars>>

FlushDrop ==
  /\ pc["fg"] = "drop" /\ Runs("fg")
  /\ ReadDR
  /\ Goto("fg", "flush")
  /\ UNCHANGED <<mode, spe, ie, txVars, flags, arrived, memberVars, args, at, cr2, index,
                 historyVars>>

SetEnable ==
  /\ MayCall("fg") /\ ~isBusy
  /\ \/ "enable" \in Calls /\ spe' = TRUE
     \/ "disable" \in Calls /\ spe' = FALSE
  /\ UNCHANGED <<mode, ie, flags, wireVars, memberVars, callVars, historyVars>>

----------------------------------------------------------------------------
BlockActs == BlockStep /\ UNCHANGED <<memberVars, callVars, historyVars>>

\* What the application decides to do
AppCall == \/ \E kind \in AsyncKinds \cap Calls, n \in Counts : Start("fg", kind, n)
           \/ \E kind \in PollKinds \cap Calls, n \in Counts : StartPoll(kind, n)
           \/ "cancel" \in Calls /\ Cancel("fg")
           \/ Configure \/ ClearError \/ ClearOverrun \/ FlushStart \/ SetEnable

\* What a callback decides to do
CallbackCall == \/ \E kind \in AsyncKinds \cap Calls, n \in Counts : Start("isr", kind, n)
                \/ "cancel" \in Calls /\ Cancel("isr")

\* The steps of a call in progress
CallStep(c) == Arm(c) \/ EnableCheck(c) \/ EnableLoad(c) \/ EnableStore(c)
PollStep == PollTxReady \/ PollWrite \/ PollRxReady \/ PollRead \/ PollCapture
FlushStep == FlushCheck \/ FlushDrop

Next == \/ BlockActs
        \/ AppCall \/ CallbackCall
        \/ \E c \in Contexts : CallStep(c)
        \/ PollStep \/ PollTimeout \/ FlushStep
        \/ IsrEnter \/ IsrStep

Spec == Init /\ [][Next]_vars

\* The processor executes the code it has entered, takes an interrupt that is
\* requested, shifts a frame it has started, and gives up a wait whose limit is
\* reached.  It does not promise the application a step between two interrupts, nor
\* that the application makes a call, nor that a fault is ever raised or cleared.
Fairness == /\ WF_vars(CallStep("fg") \/ PollStep \/ FlushStep)
            /\ WF_vars(PollTimeout)
            /\ WF_vars(IsrEnter)
            /\ WF_vars(CallStep("isr") \/ IsrStep)
            /\ WF_vars(LoadShift /\ UNCHANGED <<memberVars, callVars, historyVars>>)
            /\ WF_vars(FrameDone /\ UNCHANGED <<memberVars, callVars, historyVars>>)
            /\ WF_vars(FrameArrives /\ UNCHANGED <<memberVars, callVars, historyVars>>)

FairSpec == Spec /\ Fairness

----------------------------------------------------------------------------
(* Properties *)

MemberTypeOK ==
  /\ st \in States
  /\ err \subseteq Faults \cup {"overrun"}
  /\ op \in AsyncKinds \cup {"none"}
  /\ txBuf \in Nat /\ rxBuf \in Nat
  /\ txRem \in 0 .. MaxCount /\ rxRem \in 0 .. MaxCount

CallTypeOK ==
  /\ pc \in [Contexts -> FgLabels \cup IsrLabels]
  /\ pc["fg"] \in FgLabels /\ pc["isr"] \in IsrLabels
  /\ args \in [Contexts -> [kind : AsyncKinds \cup PollKinds \cup {"none"},
                            n : 0 .. MaxCount]]
  /\ at \in [Contexts -> 0 .. 5]
  /\ cr2 \in [Contexts -> SUBSET Enables]
  /\ index \in 0 .. MaxCount

HistoryTypeOK ==
  /\ size \in 0 .. MaxCount
  /\ got \in Seq(WireWord)
  /\ owed \in BOOLEAN /\ stray \in BOOLEAN /\ clean \in BOOLEAN /\ raced \in BOOLEAN

\* Every variable keeps its type; in particular the unsigned counters txRemaining
\* and rxRemaining never wrap (spi_driver.hpp:584-595).
TypeOK == BlockTypeOK /\ MemberTypeOK /\ CallTypeOK /\ HistoryTypeOK

----------------------------------------------------------------------------
(* The inductive invariant behind the safety properties *)

\* A counter is positive whenever the code is about to decrement it, and the indices
\* of the start calls and of the polling loops stay inside their ranges.
CountersInStep ==
  /\ pc["isr"] = "write" => txRem > 0
  /\ pc["isr"] = "read" => rxRem > 0
  /\ \A c \in Contexts : /\ pc[c] = "arm" => /\ at[c] \in 1 .. 5
                                             /\ args[c].kind \in AsyncKinds
                         /\ pc[c] \in Enabling => at[c] \in 1 .. 3
  /\ pc["fg"] \in Polling \ {"waitTx"} => index < args["fg"].n
  /\ pc["fg"] = "waitTx" => \/ index < args["fg"].n
                            \/ args["fg"].kind = "pollTx" /\ index = args["fg"].n
  /\ pc["fg"] \in Polling => args["fg"].kind \in PollKinds

\* As long as the interrupt handler has not taken interrupts away from a start call,
\* an owed report, the busy states and the interrupt enables belong together, and
\* each context is only where the operation in progress allows it.
Attribution ==
  ~raced =>
    /\ owed => isBusy \/ pc["isr"] = "fail"
    /\ ie # {} => owed
    /\ pc["fg"] = "arm" => owed /\ ie = {} /\ pc["isr"] = "idle"
    /\ pc["fg"] \in Enabling => owed
    /\ pc["fg"] \in Polling \cup Flushing => ~owed /\ pc["isr"] = "idle"
    /\ pc["isr"] \in {"arm", "callback"} \cup Enabling => pc["fg"] = "idle"
    /\ pc["isr"] \notin {"idle", "callback"} => owed

\* While a start call arms the driver, the members it has set agree with its
\* arguments; from then on each buffer pointer and its counter move together.
Armed(c) ==
  LET kind == args[c].kind
      n    == args[c].n
  IN  /\ at[c] > 1 => size = n /\ txBuf = (IF kind = "rx" THEN Null ELSE 1)
      /\ at[c] > 2 => kind = "rx" \/ txRem = n
      /\ at[c] > 3 => rxBuf = (IF kind = "tx" THEN Null ELSE 1)
      /\ at[c] > 4 => kind = "tx" \/ rxRem = n

Ledger ==
  ~raced /\ owed =>
    /\ \A c \in Contexts : pc[c] = "arm" => Armed(c)
    /\ (\A c \in Contexts : pc[c] # "arm") =>
         /\ txBuf # Null => txBuf + txRem = size + 1
         /\ rxBuf # Null => rxBuf + rxRem = size + 1

IInv == TypeOK /\ CountersInStep /\ Attribution /\ Ledger

----------------------------------------------------------------------------
(* The invariant that follows the words of an operation through the block *)

NumberedTo(n) == [i \in 1 .. n |-> i]

arming  == pc["fg"] = "arm" \/ pc["isr"] = "arm"
polling == pc["fg"] \in Polling

\* The counters stand for the words left once a start call has set them.
WordsToSend(c)    == IF args[c].kind = "rx" /\ mode # "fullDuplex" THEN 0 ELSE args[c].n
WordsToReceive(c) == IF args[c].kind = "tx" /\ mode # "fullDuplex" THEN 0 ELSE args[c].n

\* While a start call sets the transfer members one by one, the counters it has set are
\* the ones the operation asks for; and the handler reports an error in state "error".
Planned ==
  /\ pc["isr"] = "fail" => st = "error"
  /\ ~raced /\ owed =>
       \A c \in Contexts : pc[c] = "arm" =>
         /\ at[c] > 2 => txRem = WordsToSend(c)
         /\ at[c] > 4 => rxRem = WordsToReceive(c)

\* The mode supports the operation that is begun or in progress, and a polling one keeps
\* the driver busy.
Supported ==
  ~raced => /\ \A c \in Contexts : pc[c] = "arm" => Supports(args[c].kind)
            /\ owed /\ ~arming => Supports(op)
            /\ polling => Supports(args["fg"].kind) /\ isBusy

\* Words of the operation written to DR, on the wire or not
Held(word) == IF word = Empty THEN 0 ELSE 1
Written    == Len(sent) + (IF txb = Stale THEN 0 ELSE Held(txb))

\* The words are written in order into an empty buffer, and the counter or the index of
\* whoever writes them tells how many there have been.
Outgoing ==
  ~raced =>
    /\ sent = NumberedTo(Len(sent))
    /\ txb \in {Empty, Stale, Len(sent) + 1}
    /\ \A c \in Contexts : pc[c] = "write" => txb = Empty
    /\ arming => Written = 0
    /\ owed /\ ~arming => \/ Written + txRem = size
                          \/ Written = 0 /\ txRem = 0 /\ mode # "fullDuplex"
    /\ pc["fg"] \in {"waitTx", "write"} => Writes /\ Written = index
    /\ pc["fg"] \in {"waitRx", "read", "capture"} /\ Writes => Written = index + 1
    /\ owed /\ ~arming /\ Listens => txRem = 0

\* Words of the operation the driver has read, and whether it stores them
taken  == CASE polling -> index + (IF pc["fg"] = "capture" THEN 1 ELSE 0)
            [] arming  -> 0
            [] OTHER   -> size - rxRem
stores == IF polling THEN args["fg"].kind # "pollTx" ELSE arming \/ rxBuf # Null

\* A word is read when there is one, and the receive members belong to the operation.
Incoming ==
  /\ ovrSeq => ovr
  /\ ~raced => /\ \A c \in Contexts : pc[c] = "read" => rxb # Empty
               /\ owed /\ ~arming => /\ rxRem <= size
                                     /\ op \in {"rx", "transfer"} => rxBuf # Null

\* In full duplex each word sent is in the shift register, in the receive buffer or taken,
\* in this order, or the reply to one is lost for good and the count stays short.
EchoChain ==
  LET received == taken + Held(rxb)
  IN  \/ received + Held(shift) < Len(sent)
      \/ /\ received + Held(shift) = Len(sent)
         /\ shift \in {Empty, received + 1} /\ rxb \in {Empty, taken + 1}
         /\ stores => got = NumberedTo(taken)

\* In the listening modes each frame is in the receive buffer or taken, and the first one
\* that is lost has raised OVR, after which the block takes no frame: only captureErrors,
\* which reports it, comes to read SR after DR and so clears it.
FrameChain ==
  stores => /\ got = NumberedTo(taken) /\ rxb \in {Empty, taken + 1}
            /\ ~ovr => arrived = taken + Held(rxb)
            /\ pc["isr"] \in {"tx", "rx", "read"} \/ pc["fg"] \in {"waitRx", "read"} => ~ovrSeq

inProgress == polling \/ (owed /\ pc["isr"] # "fail")

Replies ==
  clean /\ ~raced /\ inProgress =>
    /\ txb # Stale
    /\ mode = "fullDuplex" => EchoChain
    /\ Listens => FrameChain

WireInv == Planned /\ Supported /\ Outgoing /\ Incoming /\ Replies

----------------------------------------------------------------------------
(* Safety, step and liveness properties *)

\* The buffer pointers and the counters move together: an operation never reads or
\* writes past the end of a buffer (the *txBuffer++ and *rxBuffer++ of
\* spi_driver.hpp:584-595), as long as it is in progress, whatever happened to the
\* operations before it, unless an earlier operation was left with interrupts on.
BufferLedger ==
  owed /\ ~raced /\ pc["fg"] # "arm" /\ pc["isr"] # "arm" =>
    /\ txBuf # Null => txBuf + txRem = size + 1
    /\ rxBuf # Null => rxBuf + rxRem = size + 1

\* The words of an operation go onto the wire in order, none twice and none skipped:
\* DR is only written when TXE was seen and nobody else writes it in between.
WireOrder == ~raced => sent = NumberedTo(Len(sent))

\* An interrupt is enabled only on behalf of an operation whose report is still owed:
\* not after completion, error or cancellation, nor during a polling operation
\* (spi_driver.hpp:341, 358, 379; 548-562).
InterruptsBelongToAnOperation == ~raced /\ pc["isr"] = "idle" /\ ie # {} => owed

\* Callbacks are only made for an operation that still owes its report, unless the
\* interrupt handler disabled interrupts under the application's enabling of them
\* (spi_driver.hpp:548-562).  stray stays set: the first such callback is the one judged.
StrayReportOnlyAfterRace == [][stray' /\ ~stray => raced]_vars

\* When the completion callback of an operation begun on a silent block is made, the
\* receive buffer holds the replies to exactly the words of this operation, in
\* order, and in full duplex nothing of it is still on its way.
CompletedTransferIsExact ==
  [][IsrComplete /\ clean /\ ~raced =>
       /\ op \in {"rx", "transfer"} => got = NumberedTo(size)
       /\ mode = "fullDuplex" => txb = Empty /\ shift = Empty]_vars

\* When a polling operation begun on a silent block succeeds, the caller's buffer holds
\* the replies to exactly the words it wrote, in order, and transmitPolling has put
\* every word on the wire.
PolledTransferIsExact ==
  [][clean /\ ~raced /\ st' = "ready" =>
       /\ PollCapture => got = NumberedTo(args["fg"].n)
       /\ PollTxReady => sent = NumberedTo(args["fg"].n)]_vars

\* What the application sees of an interrupt-driven operation: module AsyncTransfer.
transferPhase == IF raced THEN "undefined"
                 ELSE IF owed THEN "running"
                 ELSE IF pc["isr"] # "callback" THEN "idle"
                 ELSE IF st = "ready" THEN "completed" ELSE "failed"
transferToSend == IF raced \/ ~owed THEN 0
                  ELSE IF pc["isr"] = "arm" THEN WordsToSend("isr")
                  ELSE IF pc["fg"] = "arm" THEN WordsToSend("fg") ELSE txRem
transferToStore == IF raced \/ ~owed THEN 0
                   ELSE IF pc["isr"] = "arm" THEN WordsToReceive("isr")
                   ELSE IF pc["fg"] = "arm" THEN WordsToReceive("fg") ELSE rxRem

Transfer == INSTANCE AsyncTransfer WITH
  phase <- transferPhase, toSend <- transferToSend, toStore <- transferToStore

\* The start call, the handler, cancelInterrupt and the callbacks together carry out one
\* operation as AsyncTransfer promises it (spi_driver.hpp:276-385, 548-621): no word is
\* handed over twice, completion is reported once and only when none is left.
ImplementsTransfer == Transfer!Spec

\* spi_driver.hpp:350-351: onInterrupt "only reports completion or error" - one report
\* for each operation that was started.
OneReportPerOperation == ~stray

\* spi_driver.hpp:350-351: an operation that was started is eventually reported, by
\* completion or error (or cancelled).
EveryOperationIsReported == owed ~> ~owed

\* In the modes that use one data direction an operation is always reported, unless
\* an earlier one was left with interrupts on (spi_driver.hpp:352-385).
ReportedUnlessRaced == (owed /\ mode # "fullDuplex") ~> (~owed \/ raced)

\* A start call has lost the race for CR2 (a fault or a completion was handled between its
\* stores), an enable is still or again set that nobody answers for, and it requests the
\* interrupt.
starved == raced /\ IrqLine

\* A call of the application returns: a polling operation ends by success, timeout or
\* error, flushReceive runs out of words, and the interrupts a start call enables do not
\* keep it from returning.  There is one exception, and the code does meet it, with a fault
\* that stays set for one: the handler fails the operation as soon as ERRIE is stored, the
\* start call stores TXEIE in state "error" (spi_driver.hpp:550-552), onInterrupt returns
\* without serving it (353-355), and it is requested for ever.  Then the start call, or a
\* later call that meets what it left, never goes on.
CallsReturn == (pc["fg"] # "idle") ~> (pc["fg"] = "idle" \/ []starved)
=============================================================================
