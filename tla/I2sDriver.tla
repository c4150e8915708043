----------------------------- MODULE I2sDriver -----------------------------
(***************************************************************************)
(* I2sDriver<MainBlock, ExtensionBlock> of                                 *)
(* examples/stm32f429/i2s_driver.hpp over the blocks of module I2sBlock.   *)
(* Three contexts run the driver: "fg", the application, and one interrupt *)
(* handler per block, both of which run onInterrupt.  A handler preempts   *)
(* the application between any two of its steps; whether one handler       *)
(* preempts the other is the system's choice of priorities.                *)
(*                                                                         *)
(* What the application is assumed to do: it configures first, makes one   *)
(* call at a time, none from a callback, picks operations that fit the     *)
(* mode, and leaves DR and I2SE alone while an operation is in progress.   *)
(***************************************************************************)
EXTENDS I2sBlock, FiniteSets

CONSTANT Systems        \* the boards and applications, see DriverAssumption

AsyncKinds == {"tx", "rx", "transfer"}
PollKinds  == {"pollTx", "pollRx", "pollTransfer"}
OtherCalls == {"cancel", "clearError", "clearOverrun", "clearUnderrun", "flush",
               "enable", "disable", "refuse"}

\* extension: kHasExtension, there is a companion block; masked: the application masks
\* interrupts around start calls; high: the handler that preempts the other one, if any;
\* disturbed: there are frame errors; modes, calls: what the application configures, and
\* the entry points it uses
ASSUME DriverAssumption ==
  \A s \in Systems :
    /\ s.extension \in BOOLEAN /\ s.masked \in BOOLEAN /\ s.disturbed \in BOOLEAN
    /\ s.high \in {"none", "main", "ext"}
    /\ s.modes \subseteq ModeSet /\ s.modes # {}
    /\ s.calls \subseteq AsyncKinds \cup PollKinds \cup OtherCalls

Null == 0               \* nullptr; a buffer pointer is the position of the next word
PastEnd == MaxCount + 2 \* bound: every pointer further behind the buffer
Huge    == MaxCount + 1 \* an unsigned counter that was decremented below 0

VARIABLE system         \* the board and the application of this behaviour

VARIABLES st, err, op,          \* currentState, lastError, currentOperation
          txBuf, rxBuf,         \* txBuffer, rxBuffer
          txRem, rxRem,         \* txRemaining, rxRemaining
          pc,                   \* where each context is
          found,                \* per context, the errors its capture has found so far
          call,                 \* the application's call in progress: kind, count
          at,                   \* its next member to set, or interrupt to enable or disable
          cr2,                  \* the word its read-modify-write of CR2 loaded
          txIndex, rxIndex      \* the polling loops' indices

VARIABLES size,         \* history: words in the buffers of the operation
          got,          \* history: words stored in the receive buffer
          owed,         \* history: an accepted operation has not been reported yet
          clean,        \* history: the blocks held nothing when the operation began
          raced         \* history: a handler disabled interrupts while the application was
                        \*   enabling them

memberVars  == <<st, err, op, txBuf, rxBuf, txRem, rxRem>>
callVars    == <<pc, found, call, at, cr2, txIndex, rxIndex>>
historyVars == <<size, got, owed, clean, raced>>
vars == <<system, blockVars, memberVars, callVars, historyVars>>

Handlers == {"main", "ext"}
Contexts == {"fg"} \cup Handlers
Counts   == 1 .. MaxCount
States   == {"reset", "ready", "busyTx", "busyRx", "busyTransfer", "error"}
Starting == {"arm", "load", "store", "write", "count"}
Capturing == {"overrun", "underrun"}
Polling  == {"waitTx", "put", "waitRx", "take", "drain", "silence"}
Cancelling == {"cancelLoad", "cancelStore", "forget"}
FgLabels == {"idle", "flush", "drop"} \cup Starting \cup Polling \cup Capturing \cup Cancelling
IsrLabels == {"idle", "entry", "fail", "tx", "write", "count", "rx", "read", "countRx", "done",
              "disable", "complete", "callback"} \cup Capturing

HasExtension == system.extension
Calls        == system.calls

isBusy == st \in {"busyTx", "busyRx", "busyTransfer"}

BusyState(kind) == CASE kind \in {"tx", "pollTx"} -> "busyTx"
                     [] kind \in {"rx", "pollRx"} -> "busyRx"
                     [] OTHER                     -> "busyTransfer"

\* The application's choice of operations for a mode; transfers exist only with a companion
Fits(kind) == CASE kind \in {"tx", "pollTx"} -> isTransmitMode
                [] kind \in {"rx", "pollRx"} -> ~isTransmitMode
                [] OTHER                     -> HasExtension

NoCall == [kind |-> "none", n |-> 0]

Init ==
  /\ system \in Systems
  /\ BlockInit
  /\ st = "reset" /\ err = {} /\ op = "none"
  /\ txBuf = Null /\ rxBuf = Null /\ txRem = 0 /\ rxRem = 0
  /\ pc = [c \in Contexts |-> "idle"] /\ found = [c \in Contexts |-> {}]
  /\ call = NoCall /\ at = 0 /\ cr2 = {} /\ txIndex = 0 /\ rxIndex = 0
  /\ size = 0 /\ got = <<>> /\ owed = FALSE /\ clean = FALSE /\ raced = FALSE

----------------------------------------------------------------------------
(* Contexts *)

Goto(c, label) == pc' = [pc EXCEPT ![c] = label]

\* A context runs when nothing above it does.
Above(d, c) == c # d /\ (c = "fg" \/ d = system.high)
Runs(c) == \A d \in Contexts : Above(d, c) => pc[d] = "idle"

startingCall == pc["fg"] \in Starting
cancelling   == pc["fg"] \in Cancelling
MayCall == \A c \in Contexts : pc[c] = "idle"

\* An interrupt is taken when its block requests it, it is not masked, and no handler
\* is running that it may not preempt.
MayEnter(h) == /\ pc[h] = "idle" /\ IrqLine(h)
               /\ h = "ext" => HasExtension
               /\ system.masked => ~startingCall
               /\ h = system.high \/ \A d \in Handlers : pc[d] = "idle"

\* disableInterrupts where no handler comes in between: nothing is enabled afterwards
disableInterrupts_ErrorsStay == ie' = [b \in Blocks |-> ie[b] \cap {"ERRIE"}]
disableInterrupts == ie' = [b \in Blocks |-> {}]

Advanced_Stuck(buffer) == buffer
Advanced(buffer) == IF buffer \in {Null, PastEnd} THEN buffer ELSE buffer + 1
Decremented(n)   == CASE n = 0 -> Huge [] n = Huge -> Huge [] OTHER -> n - 1

\* Which operation a context works on, and with which block
Duplex(c) == IF c = "fg" THEN call.kind \in {"transfer", "pollTransfer"} ELSE op = "transfer"
TxOf(c)   == IF Duplex(c) THEN TxBlock ELSE "main"
RxOf(c)   == IF Duplex(c) THEN RxBlock ELSE "main"

\* History: a new operation begins; what the blocks hold is of an earlier one.
AsStale(word) == IF word = Empty THEN Empty ELSE Stale
BeginHistory ==
  /\ txb' = AsStale(txb) /\ rxb' = AsStale(rxb)
  /\ sent' = <<>> /\ arrived' = 0 /\ got' = <<>> /\ dry' = 0
  /\ clean' = (txb = Empty /\ rxb = Empty /\ ~ovr /\ ~udr /\ ~frame)
  /\ raced' = (raced /\ \E b \in Blocks : ie[b] # {})

----------------------------------------------------------------------------
(* Errors: captureSimpleErrors and captureFullDuplexErrors, in two steps that  *)
(* read SR.  Between them the status may change, and reading clears it.        *)

\* The block whose overrun, and the block whose underrun is looked at
OverrunOf(c)  == RxOf(c)
UnderrunOf(c) == TxOf(c)

\* The overrun test, and clearOverrun: DR, then SR
CheckOverrun(c) ==
  LET b == OverrunOf(c)
  IN  /\ pc[c] = "overrun" /\ Runs(c)
      /\ IF OVR(b)
           THEN /\ rxb' = Empty /\ ovr' = FALSE /\ ovrSeq' = FALSE
                /\ UNCHANGED udr
           ELSE ReadSR({b}) /\ UNCHANGED rxb
      /\ found' = [found EXCEPT ![c] = IF OVR(b) THEN {"overrun"} ELSE {}]
      /\ Goto(c, "underrun")
      /\ UNCHANGED <<system, mode, on, ie, txb, fre, frame, sent, arrived, dry, memberVars,
                     call, at, cr2, txIndex, rxIndex, historyVars>>

\* The underrun and frame error tests, and the verdict: where the context goes on after
\* an error, and without one; a polling call that is done leaves the driver ready.  The
\* reads of SR for UDR (798, 828, 837) and for FRE (802, 843) are one step: an underrun
\* that a read for FRE would clear unseen (as the one for OVR can, see UnderrunIsReported)
\* stays set here.
FrameErrors(c) == IF FRE("main") \/ (Duplex(c) /\ FRE("ext")) THEN {"frameFormat"} ELSE {}

Verdict(c, onError, otherwise) ==
  LET b       == UnderrunOf(c)
      errors  == found[c] \cup (IF UDR(b) THEN {"underrun"} ELSE {}) \cup FrameErrors(c)
  IN  /\ pc[c] = "underrun" /\ Runs(c)
      /\ ReadSR(IF Duplex(c) THEN Blocks ELSE {"main"})
      /\ err' = err \cup errors
      /\ found' = [found EXCEPT ![c] = {}]
      /\ IF errors # {}
           THEN st' = "error" /\ Goto(c, onError)
           ELSE st' = (IF otherwise = "idle" THEN "ready" ELSE st) /\ Goto(c, otherwise)
      /\ UNCHANGED <<system, mode, on, ie, txb, rxb, fre, frame, sent, arrived, dry, op, txBuf,
                     rxBuf, txRem, rxRem>>

----------------------------------------------------------------------------
(* Interrupt-driven operations: startTransmitInterrupt, startReceive-       *)
(* Interrupt, startTransmitReceiveInterrupt                                 *)

\* The argument and state checks and beginAsync
Start(kind, n) ==
  /\ MayCall /\ ~isBusy /\ st # "reset" /\ Fits(kind)
  /\ err' = {} /\ st' = BusyState(kind)
  /\ on' = [on EXCEPT !["main"] = TRUE]
  /\ BeginHistory /\ owed' = TRUE
  /\ call' = [kind |-> kind, n |-> n] /\ at' = 1
  /\ Goto("fg", "arm")
  /\ UNCHANGED <<system, mode, ie, ovr, ovrSeq, udr, fre, frame, op, txBuf, rxBuf, txRem,
                 rxRem, found, cr2, txIndex, rxIndex, size>>

\* The members, one after the other in program order; a transfer then switches the
\* companion on
Arm ==
  LET sends    == call.kind # "rx"
      receives == call.kind # "tx"
  IN
  /\ pc["fg"] = "arm" /\ Runs("fg")
  /\ txBuf' = IF at = 1 THEN (IF sends THEN 1 ELSE Null) ELSE txBuf
  /\ rxBuf' = IF at = 2 THEN (IF receives THEN 1 ELSE Null) ELSE rxBuf
  /\ txRem' = IF at = 3 THEN (IF sends THEN call.n ELSE 0) ELSE txRem
  /\ rxRem' = IF at = 4 THEN (IF receives THEN call.n ELSE 0) ELSE rxRem
  /\ op'    = IF at = 5 THEN call.kind ELSE op
  /\ on'    = IF at = 5 /\ call.kind = "transfer" THEN [on EXCEPT !["ext"] = TRUE] ELSE on
  /\ size'  = IF at = 1 THEN call.n ELSE size
  /\ at'    = IF at < 5 THEN at + 1 ELSE 1
  /\ Goto("fg", IF at < 5 THEN "arm" ELSE "load")
  /\ UNCHANGED <<system, mode, ie, wireVars, st, err, found, call, cr2, txIndex, rxIndex, got,
                 owed, clean, raced>>

\* The read-modify-writes of CR2 in the order of the code; a transfer has a fifth, which
\* takes the transmit interrupt away again after the only word was written
DataInterrupt(b) == IF b = TxBlock THEN "TXEIE" ELSE "RXNEIE"
EnableOrder_ErrorsOnly ==
  << <<"ext", "ERRIE">>, <<"ext", "ERRIE">>, <<"main", "ERRIE">>,
     <<"main", DataInterrupt("main")>>, <<TxBlock, "TXEIE">> >>
EnableOrder ==
  LET main == << <<"main", "ERRIE">>, <<"main", DataInterrupt("main")>> >>
      ext  == << <<"ext", "ERRIE">>, <<"ext", DataInterrupt("ext")>> >>
  IN  IF call.kind = "transfer" THEN ext \o main \o << <<TxBlock, "TXEIE">> >> ELSE main

StartReturn == /\ call' = NoCall /\ at' = 0
               /\ Goto("fg", "idle")

LoadCr2 == /\ pc["fg"] = "load" /\ Runs("fg")
           /\ cr2' = ie[EnableOrder[at][1]]
           /\ Goto("fg", "store")
           /\ UNCHANGED <<system, blockVars, memberVars, found, call, at, txIndex, rxIndex,
                          historyVars>>

StoreCr2 ==
  LET b   == EnableOrder[at][1]
      bit == EnableOrder[at][2]
  IN
  /\ pc["fg"] = "store" /\ Runs("fg")
  /\ ie' = [ie EXCEPT ![b] = IF at = 5 THEN cr2 \ {bit} ELSE cr2 \cup {bit}]
  /\ cr2' = {}
  /\ CASE at < Len(EnableOrder) /\ at # 4 -> at' = at + 1 /\ Goto("fg", "load") /\ UNCHANGED call
       [] at = 4                         -> Goto("fg", "write") /\ UNCHANGED <<at, call>>
       [] OTHER                          -> StartReturn
  /\ UNCHANGED <<system, mode, on, wireVars, memberVars, found, txIndex, rxIndex, historyVars>>

\* cancelInterrupt, from any state.  Its disableInterrupts is one read-modify-write of CR2
\* per interrupt, and the handlers preempt it as long as one is enabled.
DisableOrder_MainOnly == << <<"main", "TXEIE">>, <<"main", "RXNEIE">>, <<"main", "ERRIE">> >>
DisableOrder ==
  LET of(b) == << <<b, "TXEIE">>, <<b, "RXNEIE">>, <<b, "ERRIE">> >>
  IN  IF HasExtension THEN of("main") \o of("ext") ELSE of("main")

Cancel ==
  /\ MayCall
  /\ at' = 1 /\ Goto("fg", "cancelLoad")
  /\ UNCHANGED <<system, blockVars, memberVars, found, call, cr2, txIndex, rxIndex,
                 historyVars>>

CancelLoad ==
  /\ pc["fg"] = "cancelLoad" /\ Runs("fg")
  /\ cr2' = ie[DisableOrder[at][1]]
  /\ Goto("fg", "cancelStore")
  /\ UNCHANGED <<system, blockVars, memberVars, found, call, at, txIndex, rxIndex,
                 historyVars>>

CancelStore ==
  LET b   == DisableOrder[at][1]
      bit == DisableOrder[at][2]
  IN
  /\ pc["fg"] = "cancelStore" /\ Runs("fg")
  /\ ie' = [ie EXCEPT ![b] = cr2 \ {bit}]
  /\ cr2' = {} /\ at' = at + 1
  /\ Goto("fg", IF at < Len(DisableOrder) THEN "cancelLoad" ELSE "forget")
  /\ UNCHANGED <<system, mode, on, wireVars, memberVars, found, call, txIndex, rxIndex,
                 historyVars>>

\* The members, with every interrupt off
CancelForget ==
  /\ pc["fg"] = "forget" /\ Runs("fg")
  /\ txBuf' = Null /\ rxBuf' = Null /\ txRem' = 0 /\ rxRem' = 0
  /\ op' = "none" /\ st' = "ready" /\ owed' = FALSE
  /\ at' = 0 /\ Goto("fg", "idle")
  /\ UNCHANGED <<system, blockVars, err, found, call, cr2, txIndex, rxIndex, size, got, clean,
                 raced>>

----------------------------------------------------------------------------
(* Sending and counting a word, which the start call of a transfer and the  *)
(* handlers share                                                           *)

WriteWord(c) ==
  /\ pc[c] = "write" /\ Runs(c)
  /\ WriteDR(TxOf(c), txBuf)
  /\ txBuf' = Advanced(txBuf)
  /\ Goto(c, "count")
  /\ UNCHANGED <<system, mode, on, ie, udr, fre, frame, sent, arrived, dry, st, err, op, rxBuf,
                 txRem, rxRem, found, call, at, cr2, txIndex, rxIndex, historyVars>>

CountPrimed ==
  /\ pc["fg"] = "count" /\ Runs("fg")
  /\ txRem' = Decremented(txRem)
  /\ IF txRem' = 0 THEN at' = 5 /\ Goto("fg", "load") /\ UNCHANGED call
                   ELSE StartReturn
  /\ UNCHANGED <<system, blockVars, st, err, op, txBuf, rxBuf, rxRem, found, cr2, txIndex,
                 rxIndex, historyVars>>

CountWritten(h) ==
  /\ pc[h] = "count" /\ Runs(h)
  /\ txRem' = Decremented(txRem)
  /\ ie' = IF txRem' = 0 THEN [ie EXCEPT ![TxOf(h)] = @ \ {"TXEIE"}] ELSE ie
  /\ Goto(h, "rx")
  /\ UNCHANGED <<system, mode, on, wireVars, st, err, op, txBuf, rxBuf, rxRem, found, call, at,
                 cr2, txIndex, rxIndex, historyVars>>

----------------------------------------------------------------------------
(* onInterrupt, reached from the interrupt of block h                       *)

IsrEnter(h) == /\ MayEnter(h)
               /\ Goto(h, "entry")
               /\ UNCHANGED <<system, blockVars, memberVars, found, call, at, cr2, txIndex,
                              rxIndex, historyVars>>

IsrCheckBusy(h) == /\ pc[h] = "entry" /\ Runs(h)
                   /\ Goto(h, IF isBusy THEN "overrun" ELSE "idle")
                   /\ UNCHANGED <<system, blockVars, memberVars, found, call, at, cr2, txIndex,
                                  rxIndex, historyVars>>

IsrVerdict(h) == /\ Verdict(h, "fail", "tx")
                 /\ UNCHANGED <<call, at, cr2, txIndex, rxIndex, historyVars>>

\* disableInterrupts and the call of the error callback
IsrFail(h) == /\ pc[h] = "fail" /\ Runs(h)
              /\ disableInterrupts
              /\ owed' = FALSE
              /\ raced' = (raced \/ startingCall)
              /\ Goto(h, "callback")
              /\ UNCHANGED <<system, mode, on, wireVars, memberVars, found, call, at, cr2,
                             txIndex, rxIndex, size, got, clean>>

\* (txRemaining > 0) && txReady()
TxWanted_NoFlag(h)  == txRem > 0
TxWanted_NoCount(h) == TXE(TxOf(h))
TxWanted(h)         == txRem > 0 /\ TXE(TxOf(h))

IsrTx(h) == /\ pc[h] = "tx" /\ Runs(h)
            /\ IF txRem > 0 THEN ReadSR({TxOf(h)}) ELSE UNCHANGED <<ovr, ovrSeq, udr>>
            /\ Goto(h, IF TxWanted(h) THEN "write" ELSE "rx")
            /\ UNCHANGED <<system, mode, on, ie, txb, rxb, fre, frame, sent, arrived, dry,
                           memberVars, found, call, at, cr2, txIndex, rxIndex, historyVars>>

\* (rxRemaining > 0) && rxReady()
RxWanted(h) == rxRem > 0 /\ RXNE(RxOf(h))

IsrRx(h) == /\ pc[h] = "rx" /\ Runs(h)
            /\ IF rxRem > 0 THEN ReadSR({RxOf(h)}) ELSE UNCHANGED <<ovr, ovrSeq, udr>>
            /\ Goto(h, IF RxWanted(h) THEN "read" ELSE "done")
            /\ UNCHANGED <<system, mode, on, ie, txb, rxb, fre, frame, sent, arrived, dry,
                           memberVars, found, call, at, cr2, txIndex, rxIndex, historyVars>>

IsrRead(h) == /\ pc[h] = "read" /\ Runs(h)
              /\ ReadDR(RxOf(h))
              /\ got' = IF Len(got) < FrameCap THEN Append(got, DataRead(RxOf(h))) ELSE got
              /\ rxBuf' = Advanced(rxBuf)
              /\ Goto(h, "countRx")
              /\ UNCHANGED <<system, mode, on, ie, txVars, fre, frame, sent, arrived, dry, st,
                             err, op, txBuf, txRem, rxRem, found, call, at, cr2, txIndex,
                             rxIndex, size, owed, clean, raced>>

CountRead(h) ==
  /\ pc[h] = "countRx" /\ Runs(h)
  /\ rxRem' = Decremented(rxRem)
  /\ ie' = IF rxRem' = 0 THEN [ie EXCEPT ![RxOf(h)] = @ \ {"RXNEIE"}] ELSE ie
  /\ Goto(h, "done")
  /\ UNCHANGED <<system, mode, on, wireVars, st, err, op, txBuf, rxBuf, txRem, found, call, at,
                 cr2, txIndex, rxIndex, historyVars>>

AllDone_TxOnly == txRem = 0 /\ op # "none"
AllDone        == txRem = 0 /\ rxRem = 0 /\ op # "none"

IsrDone(h) == /\ pc[h] = "done" /\ Runs(h)
              /\ Goto(h, IF AllDone THEN "disable" ELSE "idle")
              /\ UNCHANGED <<system, blockVars, memberVars, found, call, at, cr2, txIndex,
                             rxIndex, historyVars>>

IsrDisable(h) == /\ pc[h] = "disable" /\ Runs(h)
                 /\ disableInterrupts
                 /\ raced' = (raced \/ startingCall)
                 /\ Goto(h, "complete")
                 /\ UNCHANGED <<system, mode, on, wireVars, memberVars, found, call, at, cr2,
                                txIndex, rxIndex, size, got, owed, clean>>

\* The state, and the call of the completion callback of the operation that is found
IsrComplete(h) == /\ pc[h] = "complete" /\ Runs(h)
                  /\ op' = "none" /\ st' = "ready"
                  /\ owed' = (owed /\ op = "none")
                  /\ Goto(h, "callback")
                  /\ UNCHANGED <<system, blockVars, err, txBuf, rxBuf, txRem, rxRem, found,
                                 call, at, cr2, txIndex, rxIndex, size, got, clean, raced>>

\* The callback, and with it the handler, returns.
IsrReturn(h) == /\ pc[h] = "callback" /\ Runs(h)
                /\ Goto(h, "idle")
                /\ UNCHANGED <<system, blockVars, memberVars, found, call, at, cr2, txIndex,
                               rxIndex, historyVars>>

----------------------------------------------------------------------------
(* Polling operations: transmitPolling, receivePolling and                  *)
(* transmitReceivePolling.  A wait gives up after pollLimit reads of SR.    *)

Sends    == call.kind # "pollRx"
Receives == call.kind # "pollTx"

StartPoll(kind, n) ==
  /\ MayCall /\ ~isBusy /\ st # "reset" /\ Fits(kind)
  /\ st' = BusyState(kind) /\ err' = {}
  /\ on' = [b \in Blocks |-> b = "main" \/ kind = "pollTransfer" \/ on[b]]
  /\ BeginHistory /\ owed' = FALSE
  /\ call' = [kind |-> kind, n |-> n] /\ txIndex' = 0 /\ rxIndex' = 0
  /\ Goto("fg", CASE kind = "pollTx" -> "waitTx" [] kind = "pollRx" -> "waitRx" [] OTHER -> "put")
  /\ UNCHANGED <<system, mode, ie, ovr, ovrSeq, udr, fre, frame, op, txBuf, rxBuf, txRem,
                 rxRem, found, at, cr2, size>>

\* The function returns and leaves the driver in state `final`.
PollReturn(final) == /\ st' = final
                     /\ call' = NoCall /\ txIndex' = 0 /\ rxIndex' = 0
                     /\ Goto("fg", "idle")

PollGoto(label) == Goto("fg", label) /\ UNCHANGED <<st, call, txIndex, rxIndex>>

PollUnchanged == UNCHANGED <<system, mode, on, ie, fre, frame, sent, arrived, dry, op, txBuf,
                             rxBuf, txRem, rxRem, at, cr2, size, owed, clean, raced>>

\* The waits: for room before a word is written, for a word, and at the end for room and
\* for the wire to fall silent
WaitedFor_Any(label) == TRUE
WaitedFor(label) == CASE label \in {"waitTx", "drain"} -> TXE(TxOf("fg"))
                      [] label = "waitRx"              -> RXNE(RxOf("fg"))
                      [] OTHER                         -> ~frame
ReadFor(label)   == CASE label \in {"waitTx", "drain"} -> {TxOf("fg")}
                      [] label = "waitRx"              -> {RxOf("fg")}
                      [] OTHER                         -> {"main"}
AfterWait == [waitTx |-> "put", waitRx |-> "take", drain |-> "silence"]
Waits == {"waitTx", "waitRx", "drain", "silence"}

PollWait ==
  /\ pc["fg"] \in Waits /\ Runs("fg")
  /\ ReadSR(ReadFor(pc["fg"]))
  /\ IF ~WaitedFor(pc["fg"]) THEN PollGoto(pc["fg"])
     ELSE IF pc["fg"] = "silence" THEN PollReturn("ready")
     ELSE PollGoto(AfterWait[pc["fg"]])
  /\ UNCHANGED <<txb, rxb, err, found, got>> /\ PollUnchanged

\* failTimeout: ready again, whatever is still on its way
PollTimeout ==
  /\ pc["fg"] \in Waits /\ Runs("fg")
  /\ ~WaitedFor(pc["fg"])
  /\ ReadSR(ReadFor(pc["fg"]))
  /\ PollReturn("ready")
  /\ UNCHANGED <<txb, rxb, err, found, got>> /\ PollUnchanged

\* A word is written; the first one of a transfer before the loop begins
PollPut ==
  /\ pc["fg"] = "put" /\ Runs("fg")
  /\ WriteDR(TxOf("fg"), txIndex + 1)
  /\ txIndex' = txIndex + 1
  /\ Goto("fg", IF call.kind = "pollTx" THEN "overrun"
                ELSE IF txIndex = 0 /\ call.n > 1 THEN "waitTx" ELSE "waitRx")
  /\ UNCHANGED <<udr, st, err, found, call, rxIndex, got>> /\ PollUnchanged

PollTake ==
  /\ pc["fg"] = "take" /\ Runs("fg")
  /\ ReadDR(RxOf("fg"))
  /\ got' = Append(got, DataRead(RxOf("fg")))
  /\ rxIndex' = rxIndex + 1
  /\ Goto("fg", "overrun")
  /\ UNCHANGED <<txb, udr, st, err, found, call, txIndex>> /\ PollUnchanged

\* The loop condition after the error tests
Last_Early == ~((Sends /\ txIndex < call.n) \/ (Receives /\ rxIndex + 1 < call.n))
Last == ~((Sends /\ txIndex < call.n) \/ (Receives /\ rxIndex < call.n))
PollVerdict ==
  LET next == IF Last THEN (IF Sends THEN "drain" ELSE "idle")
              ELSE IF Sends /\ txIndex < call.n THEN "waitTx" ELSE "waitRx"
  IN  /\ Verdict("fg", "idle", next)
      /\ IF pc'["fg"] = "idle"
           THEN call' = NoCall /\ txIndex' = 0 /\ rxIndex' = 0
           ELSE UNCHANGED <<call, txIndex, rxIndex>>
      /\ UNCHANGED <<at, cr2, historyVars>>

----------------------------------------------------------------------------
(* The other calls of the application *)

\* configure: interrupts and blocks off, then the new mode; a block that changes its
\* direction has to be silent and empty for what it holds to have a meaning
Configure ==
  /\ MayCall /\ ~isBusy
  /\ disableInterrupts
  /\ mode' \in system.modes
  /\ mode' # mode => txb = Empty /\ rxb = Empty /\ ~ovr /\ ~udr /\ ~frame /\ fre = {}
  /\ \E enableAfterConfigure \in BOOLEAN :
       on' = [b \in Blocks |-> b = "main" /\ enableAfterConfigure]
  /\ err' = {} /\ st' = "ready"
  /\ UNCHANGED <<system, wireVars, op, txBuf, rxBuf, txRem, rxRem, callVars, historyVars>>

\* configure with a prescaler that is out of range
Refuse ==
  /\ MayCall /\ "refuse" \in Calls /\ ~isBusy /\ st # "reset"
  /\ err' = {"prescaler"} /\ st' = "error"
  /\ UNCHANGED <<system, blockVars, op, txBuf, rxBuf, txRem, rxRem, callVars, historyVars>>

ClearError ==
  /\ MayCall /\ "clearError" \in Calls
  /\ err' = {} /\ st' = IF st = "error" THEN "ready" ELSE st
  /\ UNCHANGED <<system, blockVars, op, txBuf, rxBuf, txRem, rxRem, callVars, historyVars>>

\* DR and SR, or SR alone, of the main block
ClearOverrun ==
  /\ MayCall /\ "clearOverrun" \in Calls /\ ~isBusy
  /\ IF RxBlock = "main"
       THEN rxb' = Empty /\ ovr' = FALSE /\ ovrSeq' = FALSE /\ UNCHANGED udr
       ELSE ReadSR({"main"}) /\ UNCHANGED rxb
  /\ UNCHANGED <<system, mode, on, ie, txb, fre, frame, sent, arrived, dry, memberVars,
                 callVars, historyVars>>

ClearUnderrun ==
  /\ MayCall /\ "clearUnderrun" \in Calls /\ ~isBusy
  /\ ReadSR({"main"})
  /\ UNCHANGED <<system, mode, on, ie, txb, rxb, fre, frame, sent, arrived, dry, memberVars,
                 callVars, historyVars>>

\* flushReceive: reads DR of the main block as long as SR shows a word
FlushStart ==
  /\ MayCall /\ "flush" \in Calls /\ ~isBusy
  /\ Goto("fg", "flush")
  /\ UNCHANGED <<system, blockVars, memberVars, found, call, at, cr2, txIndex, rxIndex,
                 historyVars>>

FlushCheck ==
  /\ pc["fg"] = "flush" /\ Runs("fg")
  /\ ReadSR({"main"})
  /\ Goto("fg", IF RXNE("main") THEN "drop" ELSE "idle")
  /\ UNCHANGED <<system, mode, on, ie, txb, rxb, fre, frame, sent, arrived, dry, memberVars,
                 found, call, at, cr2, txIndex, rxIndex, historyVars>>

FlushDrop ==
  /\ pc["fg"] = "drop" /\ Runs("fg")
  /\ ReadDR("main")
  /\ Goto("fg", "flush")
  /\ UNCHANGED <<system, mode, on, ie, txVars, fre, frame, sent, arrived, dry, memberVars,
                 found, call, at, cr2, txIndex, rxIndex, historyVars>>

\* enable switches the main block on, disable both blocks off
SetEnable ==
  /\ MayCall /\ ~isBusy
  /\ \/ "enable" \in Calls /\ on' = [on EXCEPT !["main"] = TRUE]
     \/ "disable" \in Calls /\ on' = [b \in Blocks |-> FALSE]
  /\ UNCHANGED <<system, mode, ie, wireVars, memberVars, callVars, historyVars>>

----------------------------------------------------------------------------
BlockActs == /\ BlockStep
             /\ system.disturbed \/ fre' = fre
             /\ UNCHANGED <<system, memberVars, callVars, historyVars>>

\* What the application decides to do; only Configure is possible in state "reset"
AppCall == \/ \E kind \in AsyncKinds \cap Calls, n \in Counts : Start(kind, n)
           \/ \E kind \in PollKinds \cap Calls, n \in Counts : StartPoll(kind, n)
           \/ "cancel" \in Calls /\ st # "reset" /\ Cancel
           \/ Configure \/ Refuse \/ ClearError \/ ClearOverrun \/ ClearUnderrun
           \/ FlushStart \/ SetEnable

\* The steps of a call in progress
CallStep == Arm \/ LoadCr2 \/ StoreCr2 \/ WriteWord("fg") \/ CountPrimed
CancelStep == CancelLoad \/ CancelStore \/ CancelForget
PollStep == PollWait \/ PollPut \/ PollTake \/ CheckOverrun("fg") \/ PollVerdict
FlushStep == FlushCheck \/ FlushDrop

IsrStep(h) == \/ IsrCheckBusy(h) \/ CheckOverrun(h) \/ IsrVerdict(h) \/ IsrFail(h)
              \/ IsrTx(h) \/ WriteWord(h) \/ CountWritten(h)
              \/ IsrRx(h) \/ IsrRead(h) \/ CountRead(h)
              \/ IsrDone(h) \/ IsrDisable(h) \/ IsrComplete(h) \/ IsrReturn(h)

Next == \/ BlockActs
        \/ AppCall
        \/ CallStep \/ CancelStep \/ PollStep \/ PollTimeout \/ FlushStep
        \/ \E h \in Handlers : IsrEnter(h) \/ IsrStep(h)

Spec == Init /\ [][Next]_vars

\* The processor executes the code it has entered and takes an interrupt that is
\* requested; the wire carries frames as long as it is clocked.  The application is not
\* promised a step between two interrupts, and makes a call when it likes.
Fairness == /\ WF_vars(CallStep \/ CancelStep \/ PollStep \/ FlushStep)
            /\ WF_vars(PollTimeout)
            /\ \A h \in Handlers : WF_vars(IsrEnter(h)) /\ WF_vars(IsrStep(h))
            /\ WF_vars(FrameStart /\ UNCHANGED <<system, memberVars, callVars, historyVars>>)
            /\ WF_vars(FrameEnd /\ UNCHANGED <<system, memberVars, callVars, historyVars>>)

FairSpec == Spec /\ Fairness

----------------------------------------------------------------------------
(* Properties *)

NumberedTo(n) == [i \in 1 .. n |-> i]

MemberTypeOK ==
  /\ st \in States
  /\ err \subseteq Faults \cup {"overrun", "underrun", "prescaler"}
  /\ op \in AsyncKinds \cup {"none"}
  /\ txBuf \in 0 .. PastEnd /\ rxBuf \in 0 .. PastEnd
  /\ txRem \in 0 .. Huge /\ rxRem \in 0 .. Huge
  /\ ~raced => txRem # Huge /\ rxRem # Huge

CallTypeOK ==
  /\ pc \in [Contexts -> FgLabels \cup IsrLabels]
  /\ pc["fg"] \in FgLabels /\ \A h \in Handlers : pc[h] \in IsrLabels
  /\ found \in [Contexts -> SUBSET {"overrun"}]
  /\ call \in [kind : AsyncKinds \cup PollKinds \cup {"none"}, n : 0 .. MaxCount]
  /\ at \in 0 .. 7 /\ cr2 \subseteq Enables
  /\ txIndex \in 0 .. MaxCount /\ rxIndex \in 0 .. MaxCount

HistoryTypeOK ==
  /\ size \in 0 .. MaxCount
  /\ got \in Seq(0 .. FrameCap)
  /\ owed \in BOOLEAN /\ clean \in BOOLEAN /\ raced \in BOOLEAN

\* Every variable keeps its type; in particular the unsigned counters do not wrap before a
\* start call has lost the race for CR2, and no index of a polling loop
\* (i2s_driver.hpp:187, 224, 268) leaves the caller's buffers.
TypeOK == BlockTypeOK /\ MemberTypeOK /\ CallTypeOK /\ HistoryTypeOK

----------------------------------------------------------------------------
(* The inductive invariant behind the safety properties *)

\* A system the driver can serve: no handler preempts the other one, and a transfer is
\* only started with interrupts masked.  The runs on NestedSystems and UnmaskedSystems show
\* what happens in others.
Orderly == \A s \in Systems : s.high = "none" /\ (s.masked \/ "transfer" \notin s.calls)

HandlersIdle == \A h \in Handlers : pc[h] = "idle"
pollingCall  == pc["fg"] \in Polling \cup Capturing
priming      == pc["fg"] \in {"write", "count"}

\* One handler runs at a time, none while a masked start call does, and the start of a
\* transfer is masked.
Scheduling ==
  /\ system \in Systems
  /\ \A h, k \in Handlers : pc[h] # "idle" /\ pc[k] # "idle" => h = k
  /\ startingCall /\ system.masked => HandlersIdle
  /\ startingCall /\ call.kind = "transfer" => system.masked

\* A counter is positive whenever the code is about to decrement it, and the indices of
\* the start calls and of the polling loops stay inside their ranges; a polling transfer
\* takes no word before it has written one more than it has taken.
CountersInStep ==
  /\ txRem # Huge /\ rxRem # Huge
  /\ \A h \in Handlers : /\ pc[h] \in {"write", "count"} => txRem > 0
                         /\ pc[h] \in {"read", "countRx"} => rxRem > 0
  /\ startingCall => call.kind \in AsyncKinds /\ call.n > 0
  /\ pc["fg"] = "arm" => at \in 1 .. 5 /\ (call.kind = "transfer" /\ at > 3 => txRem = call.n)
  /\ pc["fg"] \in {"load", "store"} => at \in 1 .. (IF call.kind = "transfer" THEN 5 ELSE 2)
  /\ priming => at = 4 /\ call.kind = "transfer"
  /\ pc["fg"] \in {"cancelLoad", "cancelStore"} => at \in 1 .. Len(DisableOrder)
  /\ pc["fg"] = "forget" => at = Len(DisableOrder) + 1
  /\ startingCall /\ pc["fg"] # "arm" /\ call.kind = "transfer" =>
       txRem = (IF at = 5 THEN 0 ELSE call.n)

IndicesInStep ==
  pollingCall =>
    /\ call.kind \in PollKinds /\ txIndex <= call.n /\ rxIndex <= call.n
    /\ pc["fg"] \in {"waitTx", "put"} => Sends /\ txIndex < call.n
    /\ pc["fg"] \in {"waitRx", "take"} => Receives /\ rxIndex < call.n
    /\ pc["fg"] \in {"drain", "silence"} => Sends /\ Last
    /\ call.kind = "pollTransfer" =>
         rxIndex + (IF pc["fg"] \in {"waitRx", "take"} THEN 1 ELSE 0) <= txIndex

\* As long as no handler has taken interrupts away from a start call, an owed report, the
\* busy states and, outside cancelInterrupt, the interrupt enables belong together, and each
\* context is only where the operation in progress allows it.  While a cancel disables
\* interrupts one by one, a handler may be entered for nothing.
Attribution ==
  ~raced =>
    /\ owed => isBusy \/ \E h \in Handlers : pc[h] = "fail"
    /\ isBusy => owed \/ pollingCall
    /\ (\E b \in Blocks : ie[b] # {}) => owed \/ cancelling
    /\ startingCall => owed
    /\ pc["fg"] = "arm" => HandlersIdle /\ \A b \in Blocks : ie[b] = {}
    /\ pollingCall \/ pc["fg"] \in {"flush", "drop"} => ~owed /\ HandlersIdle
    /\ \A h \in Handlers :
         /\ pc[h] \notin {"idle", "callback"} => owed \/ (pc[h] = "entry" /\ cancelling)
         /\ pc[h] = "fail" => st = "error"
         /\ pc[h] = "callback" => ~owed
         /\ pc[h] \in {"disable", "complete"} => AllDone
         /\ pc[h] \in {"complete", "callback"} => ~startingCall

\* While a start call arms the driver, the members it has set agree with its arguments;
\* from then on each buffer pointer and its counter move together, and the operation and
\* its directions fit the mode.
Armed == /\ at > 1 => size = call.n /\ txBuf = (IF call.kind = "rx" THEN Null ELSE 1)
         /\ at > 2 => rxBuf = (IF call.kind = "tx" THEN Null ELSE 1)
         /\ at > 3 => txRem = (IF call.kind = "rx" THEN 0 ELSE call.n)
         /\ at > 4 => rxRem = (IF call.kind = "tx" THEN 0 ELSE call.n)

\* Between the moves of a pointer and of its counter
Between(labels) == \E c \in Contexts : pc[c] \in labels

InStep == /\ op \in AsyncKinds /\ Fits(op)
          /\ IF op = "rx" THEN txBuf = Null /\ txRem = 0
             ELSE txBuf > 0 /\ txBuf + txRem = size + 1 + (IF Between({"count"}) THEN 1 ELSE 0)
          /\ IF op = "tx" THEN rxBuf = Null /\ rxRem = 0
             ELSE /\ rxBuf + rxRem = size + 1 + (IF Between({"countRx"}) THEN 1 ELSE 0)
                  /\ Len(got) = rxBuf - 1 /\ rxBuf <= size + 1

Ledger ==
  ~raced /\ owed =>
    /\ pc["fg"] = "arm" => Armed /\ got = <<>> /\ Fits(call.kind)
    /\ pc["fg"] # "arm" => InStep
    /\ startingCall /\ pc["fg"] # "arm" =>
         op = call.kind /\ size = call.n /\ (op = "transfer" => rxRem = size)

\* While a start call enables interrupts the ones it has come to are enabled, and it has
\* something left to do as long as no handler has counted a word; from then on the
\* interrupts that are awaited are.  A cancel enables none again that it has disabled, what
\* else it puts back until it is done.
Stored == IF priming THEN 4 ELSE at - 1
EnabledSoFar(b) == {EnableOrder[i][2] : i \in {j \in 1 .. Stored : EnableOrder[j][1] = b}}
DisabledSoFar(b) == {DisableOrder[i][2] : i \in {j \in 1 .. at - 1 : DisableOrder[j][1] = b}}

Awaited(b) == (IF txRem > 0 /\ b = TxOf("main") THEN {"TXEIE"} ELSE {})
                \cup (IF rxRem > 0 /\ b = RxOf("main") THEN {"RXNEIE"} ELSE {})
                \cup (IF b = "main" \/ op = "transfer" THEN {"ERRIE"} ELSE {})

Uncounted == {"idle", "entry", "tx"} \cup Capturing

Enabled ==
  ~raced =>
    /\ startingCall /\ pc["fg"] # "arm" =>
         /\ \A b \in Blocks : ie[b] = EnabledSoFar(b)
         /\ (\A h \in Handlers : pc[h] \in Uncounted) => txRem > 0 \/ rxRem > 0
         /\ pc["fg"] = "store" => cr2 = ie[EnableOrder[at][1]]
    /\ cancelling =>
         /\ \A b \in Blocks : ie[b] \cap DisabledSoFar(b) = {}
         /\ pc["fg"] = "cancelStore" => cr2 \cap DisabledSoFar(DisableOrder[at][1]) = {}
         /\ ~HasExtension => ie["ext"] = {}
    /\ ~startingCall /\ ~cancelling =>
         \A b \in Blocks :
           ie[b] = IF owed /\ \A h \in Handlers : pc[h] # "complete" THEN Awaited(b) ELSE {}

IInv == /\ TypeOK /\ Scheduling /\ CountersInStep /\ IndicesInStep
        /\ Attribution /\ Ledger /\ Enabled

----------------------------------------------------------------------------
(* The inductive invariant behind the exactness of what is sent and stored *)

\* The words of the operation that were written to DR: each is on the wire or waits for it.
Held(slot) == IF slot \in {Empty, Stale} THEN 0 ELSE 1
Written    == Len(sent) + Held(txb)

\* As many words are written as the pointer or the index has moved by, and each write
\* finds the transmitter without a word of this operation.
Outgoing ==
  ~raced =>
    /\ sent = NumberedTo(Len(sent)) /\ txb \in {Empty, Stale, Len(sent) + 1}
    /\ clean => txb # Stale
    /\ \A c \in Contexts : pc[c] \in {"write", "put"} => Held(txb) = 0
    /\ pc["fg"] = "silence" => txb = Empty
    /\ owed => Written = (IF pc["fg"] = "arm" \/ op = "rx" THEN 0 ELSE txBuf - 1)
    /\ pollingCall => Written = (IF Sends THEN txIndex ELSE 0)

\* The operation in progress stores words.
receiving == \/ owed /\ (IF pc["fg"] = "arm" THEN call.kind ELSE op) # "tx"
             \/ pollingCall /\ Receives

\* An overrun was found that the next step reports.
overrunFound == \E c \in Contexts : found[c] # {} \/ pc[c] = "fail"

\* Between its overrun test and the read of DR a context has no overrun half cleared: the
\* SR reads of its other tests cannot drop one that nobody has seen.
Tested == {"underrun", "tx", "write", "count", "rx", "read"}

\* Each frame is in the receive buffer or in DR, in order, until an overrun, and that one
\* shows in SR until it is found.
Incoming ==
  /\ ovrSeq => ovr
  /\ \A c \in Contexts : found[c] # {} => pc[c] = "underrun"
  /\ ~raced =>
       /\ pollingCall => Fits(call.kind) /\ (Receives => Len(got) = rxIndex)
       /\ \A c \in Contexts : pc[c] \in {"read", "take"} => rxb # Empty
       /\ clean /\ receiving =>
            /\ got = NumberedTo(Len(got))
            /\ ~overrunFound => /\ rxb \in {Empty, Len(got) + 1}
                                /\ ~ovr => arrived = Len(got) + Held(rxb)
            /\ ovrSeq => /\ pc["fg"] \notin Polling \cup {"underrun"}
                         /\ \A h \in Handlers : pc[h] \notin Tested

WireInv == Outgoing /\ Incoming

----------------------------------------------------------------------------
(* Safety, step and liveness properties *)

\* The buffer pointers and the counters of an operation in progress move together, and
\* every word that was stored is inside the buffer: neither handler reads or writes past
\* the end of a buffer (the *txBuffer++ and *rxBuffer++ of i2s_driver.hpp:436-487).
BufferLedger ==
  owed /\ ~raced /\ pc["fg"] # "arm" =>
    /\ txBuf # Null => txBuf + txRem = size + 1 + (IF Between({"count"}) THEN 1 ELSE 0)
    /\ rxBuf # Null => /\ rxBuf + rxRem = size + 1 + (IF Between({"countRx"}) THEN 1 ELSE 0)
                       /\ Len(got) = rxBuf - 1 /\ rxBuf <= size + 1

\* The words of an operation go onto the wire in order, none twice and none skipped, even
\* though the start call, and handlers of two interrupts, write them
\* (i2s_driver.hpp:389, 400, 436, 452, 475).
WireOrder == ~raced => sent = NumberedTo(Len(sent))

\* Outside the handlers, the start calls and cancelInterrupt the interrupts that are enabled
\* are the ones the operation in progress waits for, and no others: with one missing it
\* would never end, with one too many it would interrupt for nothing, for ever.  A configure
\* call that is refused (i2s_driver.hpp:83-87) finds nothing enabled either, and none is
\* after a cancel, also when a handler ran between its six stores (649-659).  During them
\* there can be one too many, see CallsReturn.
InterruptsAreTheAwaitedOnes ==
  ~raced /\ ~startingCall /\ ~cancelling /\ (\A h \in Handlers : pc[h] = "idle") =>
    ie = [b \in Blocks |-> IF owed THEN Awaited(b) ELSE {}]

\* When the completion callback of an operation begun on silent blocks is made, the
\* receive buffer holds the first frames of the wire, in order and none missing, and
\* every word to send has left, the last one perhaps to the data register.
CompletedTransferIsExact ==
  [][\A h \in Handlers : IsrComplete(h) /\ clean /\ ~raced =>
       /\ op \in {"rx", "transfer"} => got = NumberedTo(size)
       /\ op \in {"tx", "transfer"} => Len(sent) + (IF txb = Empty THEN 0 ELSE 1) = size]_vars

\* When a polling operation begun on silent blocks succeeds, the caller's buffer holds the
\* first frames of the wire, in order and none missing, and every word to send is on the
\* wire (i2s_driver.hpp:173-319).
PolledTransferIsExact ==
  [][PollStep /\ st' = "ready" /\ clean /\ ~raced =>
       /\ Receives => got = NumberedTo(call.n)
       /\ Sends => sent = NumberedTo(call.n)]_vars

\* Every operation that was started is eventually reported, by completion or error (or
\* cancelled), when both interrupts have one priority and the application masks them
\* around a start call, as long as the wire is clocked.
EveryOperationIsReported == owed ~> ~owed

\* An interrupt is requested that onInterrupt does not serve, by a block whose CR2 a cancel
\* has stored to: the handler completed or failed the operation between load and store.
starved ==
  cancelling /\ ~isBusy /\ \E i \in 1 .. at - 1 : IrqLine(DisableOrder[i][1])

\* A call of the application returns, when the interrupts are masked in the start calls:
\* cancelInterrupt, although its disableInterrupts is interrupted between the six
\* read-modify-writes (i2s_driver.hpp:407-416, 649-659).  There is one exception, and the
\* code does meet it: the handler finishes the operation and clears CR2, the cancel stores
\* the RXNEIE and ERRIE it had loaded, and a frame or an error requests an interrupt that
\* onInterrupt, not busy, returns from without serving it (423-425), again and again.
CallsReturn == (pc["fg"] # "idle") ~> (pc["fg"] = "idle" \/ []<>starved)

\* What the application sees of an interrupt-driven operation: module AsyncTransfer.
\* The counters stand for the words left once the start call has set them.
Planned(directions) == IF call.kind \in directions THEN call.n ELSE 0

transferPhase ==
  IF raced THEN "undefined"
  ELSE IF owed THEN "running"
  ELSE IF \E h \in Handlers : pc[h] = "callback"
         THEN (IF st = "ready" THEN "completed" ELSE "failed")
         ELSE "idle"
transferToSend  == IF raced \/ ~owed THEN 0
                   ELSE IF pc["fg"] = "arm" THEN Planned({"tx", "transfer"}) ELSE txRem
transferToStore == IF raced \/ ~owed THEN 0
                   ELSE IF pc["fg"] = "arm" THEN Planned({"rx", "transfer"}) ELSE rxRem

Transfer == INSTANCE AsyncTransfer WITH
  phase <- transferPhase, toSend <- transferToSend, toStore <- transferToStore

\* The start call, both handlers and cancelInterrupt together carry out one operation as
\* AsyncTransfer promises it (i2s_driver.hpp:321-499).
ImplementsTransfer == Transfer!Spec

\* "Call this from the real IRQ handlers" (i2s_driver.hpp:420), nothing said of masking
\* them during a start call: the unsigned counters do not wrap when the interrupt that
\* the start call has just enabled sends the word the call is about to send.
NoCounterWraps == txRem # Huge /\ rxRem # Huge

\* "the same method can be reached from both the main SPIx IRQ and the I2Sxext companion
\* IRQ" (i2s_driver.hpp:420-421): also when one of them preempts the other, no pointer
\* moves past the end of its buffer.
NoBufferIsLeft == owed => txBuf <= size + 1 /\ rxBuf <= size + 1

\* "STM32 clears UDR by reading SR" (i2s_driver.hpp:160): a transmission that completes
\* was not interrupted by an underrun between two of its words.
UnderrunIsReported ==
  [][\A h \in Handlers : IsrComplete(h) /\ op = "tx" /\ clean => dry \notin 1 .. size - 1]_vars
=============================================================================
