--------------------------- MODULE I2sWireProofs ---------------------------
(***************************************************************************)
(* The words of an operation on the wire and in the receive buffer of      *)
(* I2sDriver, for every buffer length, with and without frame errors, and  *)
(* for every orderly board and application: WireOrder,                     *)
(* CompletedTransferIsExact and PolledTransferIsExact follow from WireInv, *)
(* which counts the words written against the transmit pointer and the     *)
(* polling index, and follows each frame from the wire to the buffer.      *)
(***************************************************************************)
EXTENDS I2sDriverProofs

----------------------------------------------------------------------------
(* Sequences of the words in order *)

\* NumberedTo(n) has n words, none at first, and the next one is appended to it.
LEMMA NumberedProperties ==
  ASSUME NEW n \in Nat
  PROVE  /\ Len(NumberedTo(n)) = n
         /\ NumberedTo(0) = <<>>
         /\ Append(NumberedTo(n), n + 1) = NumberedTo(n + 1)
<1>1. NumberedTo(n) \in Seq(Nat) /\ Len(NumberedTo(n)) = n
  BY DEF NumberedTo
<1>2. NumberedTo(0) = <<>>
  BY DEF NumberedTo
<1> DEFINE longer == Append(NumberedTo(n), n + 1)
<1>3. longer \in Seq(Nat) /\ NumberedTo(n + 1) \in Seq(Nat)
  BY <1>1, AppendProperties DEF NumberedTo
<1>4. Len(longer) = n + 1 /\ Len(NumberedTo(n + 1)) = n + 1
  BY <1>1, AppendProperties DEF NumberedTo
<1>5. \A i \in 1 .. n + 1 : longer[i] = NumberedTo(n + 1)[i]
  BY <1>1, AppendProperties DEF NumberedTo
<1>6. longer = NumberedTo(n + 1)
  BY <1>3, <1>4, <1>5, SeqEqual
<1> QED
  BY <1>1, <1>2, <1>6

----------------------------------------------------------------------------
(* Steps that leave the words alone *)

\* Initially nothing is written, and nothing read.
LEMMA InitWire == Init => WireInv
<1> SUFFICES ASSUME Init PROVE WireInv
  OBVIOUS
<1>1. sent = <<>> /\ Len(sent) = 0 /\ txb = Empty /\ \A c \in Contexts : pc[c] = "idle"
  BY DEF Init, BlockInit
<1>2. ~owed /\ ~pollingCall /\ pc["fg"] = "idle"
  BY <1>1 DEF Init, pollingCall, Polling, Capturing, Contexts
<1>3. Outgoing
  BY <1>1, <1>2, NumberedProperties DEF Outgoing, Held, Empty, Stale
<1>4. Incoming
  BY <1>1, <1>2 DEF Incoming, Init, BlockInit, receiving
<1> QED
  BY <1>3, <1>4 DEF WireInv

\* The clauses of Incoming that hold in every state
Half == /\ ovrSeq => ovr
        /\ \A c \in Contexts : found[c] # {} => pc[c] = "underrun"

\* After a race nothing else is said of the words, until the next operation begins.
LEMMA RacedWire ==
  ASSUME raced', Half'
  PROVE  WireInv'
BY DEF WireInv, Outgoing, Incoming, Half

\* No operation is in progress afterwards: only the words that have been sent matter.
LEMMA OverWire ==
  ASSUME WireInv, Half',
         ~raced' => /\ ~raced /\ ~owed' /\ ~pollingCall' /\ UNCHANGED <<txb, sent, clean>>
                    /\ pc'["fg"] \notin {"write", "read"}
                    /\ \A h \in Handlers : pc'[h] \notin {"write", "read", "put", "take"}
  PROVE  WireInv'
<1>1. ~raced' => \A c \in Contexts : pc'[c] \notin {"write", "read", "put", "take"}
  BY DEF Contexts, pollingCall, Polling
<1>2. ~raced' => pc'["fg"] # "silence"
  BY DEF pollingCall, Polling
<1>3. Outgoing'
  BY <1>1, <1>2 DEF WireInv, Outgoing, Held
<1>4. Incoming'
  BY <1>1 DEF Incoming, Half, receiving
<1> QED
  BY <1>3, <1>4 DEF WireInv

\* The operation, its words and the contexts that move them stay where they are.
FgQuiet == {"idle", "load", "store", "count", "flush", "drop", "cancelLoad", "cancelStore",
            "forget"}

LEMMA UntouchedWire ==
  ASSUME WireInv, raced => raced',
         UNCHANGED <<system, mode, wireVars, found, op, txBuf, txIndex, rxIndex, size, got, owed,
                     clean>>,
         \/ pc'["fg"] = pc["fg"] /\ call' = call
         \/ pc["fg"] \in FgQuiet /\ pc'["fg"] \in FgQuiet,
         \A h \in Handlers :
           \/ pc'[h] = pc[h]
           \/ /\ pc'[h] \notin {"write", "read", "put", "take", "fail"}
              /\ pc[h] \notin {"fail", "underrun"}
              /\ pc'[h] \in Tested => pc[h] \in Tested
  PROVE  WireInv'
<1> USE DEF WireInv, wireVars, rxVars, txVars
<1>1. /\ pollingCall' <=> pollingCall
      /\ pollingCall => UNCHANGED <<pc["fg"], call>>
      /\ pc'["fg"] = "arm" <=> pc["fg"] = "arm"
      /\ pc["fg"] = "arm" => call' = call
  BY DEF pollingCall, Polling, Capturing, FgQuiet
<1>2. Half'
  BY DEF Half, Incoming, Contexts, FgQuiet
<1>3. CASE raced'
  BY <1>2, <1>3, RacedWire
<1>4. CASE ~raced'
  <2>1. Written' = Written /\ Held(txb)' = Held(txb) /\ Held(rxb)' = Held(rxb) /\ ~raced
    BY <1>4 DEF Written, Held
  <2>2. \A c \in Contexts : pc'[c] \in {"write", "put", "read", "take"} => pc[c] = pc'[c]
    BY DEF Contexts, FgQuiet
  <2>3. Outgoing'
    BY <1>1, <1>4, <2>1, <2>2 DEF Outgoing, Sends, FgQuiet
  <2>4. receiving' => receiving
    BY <1>1 DEF receiving, Receives
  <2>5. overrunFound => overrunFound'
    BY DEF overrunFound, Contexts, FgQuiet
  <2>6. pollingCall' => Fits(call.kind)' /\ (Receives' => Len(got') = rxIndex')
    BY <1>1, <1>4, <2>1 DEF Incoming, Fits, isTransmitMode, HasExtension, Receives
  <2>7. ovrSeq' /\ clean' /\ receiving' => /\ pc'["fg"] \notin Polling \cup {"underrun"}
                                          /\ \A h \in Handlers : pc'[h] \notin Tested
    BY <1>4, <2>1, <2>4 DEF Incoming, FgQuiet, Polling
  <2>8. Incoming'
    BY <1>2, <1>4, <2>1, <2>2, <2>4, <2>5, <2>6, <2>7 DEF Incoming, Half
  <2> QED
    BY <2>3, <2>8
<1> QED
  BY <1>3, <1>4

\* Where a handler is, the application is in no polling call.
LEMMA HandlingFacts ==
  ASSUME IInv, ~raced, NEW h \in Handlers, pc[h] # "idle"
  PROVE  /\ ~pollingCall /\ pc["fg"] \notin {"arm", "flush", "drop"}
         /\ pc[h] \notin {"callback", "entry"} => owed
BY DEF IInv, Attribution, HandlersIdle

\* The steps that move no word: those of the read-modify-writes and the counters, the
\* tests and the return of a handler, and the calls that leave the wire alone.
LEMMA QuietWire ==
  ASSUME IInv, WireInv,
         \/ LoadCr2 \/ CountPrimed \/ ClearError \/ Refuse \/ SetEnable \/ FlushStart
         \/ Cancel \/ CancelLoad \/ CancelStore
         \/ StoreCr2 /\ pc'["fg"] # "write"
         \/ \E h \in Handlers : \/ IsrEnter(h) \/ IsrCheckBusy(h) \/ CountWritten(h) \/ CountRead(h)
                                \/ IsrDone(h) \/ IsrDisable(h) \/ IsrReturn(h)
         \/ UNCHANGED vars
  PROVE  WireInv'
<1> USE DEF IInv, TypeOK, CallTypeOK, Contexts, Handlers, FgQuiet, Goto, blockVars, memberVars,
            historyVars
<1>1. CASE LoadCr2 \/ CountPrimed \/ FlushStart \/ Cancel \/ CancelLoad \/ CancelStore
  <2>1. /\ pc["fg"] \in FgQuiet /\ pc'["fg"] \in FgQuiet /\ \A h \in Handlers : pc'[h] = pc[h]
        /\ UNCHANGED <<system, mode, wireVars, found, op, txBuf, txIndex, rxIndex, size, got, owed,
                       clean, raced>>
    BY <1>1 DEF LoadCr2, CountPrimed, FlushStart, StartReturn, MayCall, Cancel, CancelLoad,
       CancelStore
  <2> QED
    BY <2>1, UntouchedWire
<1>2. CASE StoreCr2 /\ pc'["fg"] # "write"
  <2>1. pc["fg"] = "store" /\ pc'["fg"] \in {"load", "write", "idle"}
    BY <1>2, OrderTyped, SimpleOrder, TransferOrder DEF StoreCr2, StartReturn
  <2>2. /\ \A h \in Handlers : pc'[h] = pc[h]
        /\ UNCHANGED <<system, mode, wireVars, found, op, txBuf, txIndex, rxIndex, size, got, owed,
                       clean, raced>>
    BY <1>2, OrderTyped, SimpleOrder, TransferOrder DEF StoreCr2, StartReturn
  <2> QED
    BY <1>2, <2>1, <2>2, UntouchedWire
<1>3. CASE ClearError \/ Refuse \/ SetEnable \/ UNCHANGED vars
  <2>1. UNCHANGED <<system, mode, wireVars, pc, call, found, op, txBuf, txIndex, rxIndex, size, got,
                    owed, clean, raced>>
    BY <1>3 DEF ClearError, Refuse, SetEnable, vars, callVars
  <2> QED
    BY <2>1, UntouchedWire
<1>4. ASSUME NEW h \in Handlers,
             \/ IsrEnter(h) \/ IsrCheckBusy(h) \/ CountWritten(h) \/ CountRead(h)
             \/ IsrDone(h) \/ IsrDisable(h) \/ IsrReturn(h)
      PROVE  WireInv'
  <2>1. /\ UNCHANGED <<system, mode, wireVars, call, found, op, txBuf, txIndex, rxIndex, size, got,
                       owed, clean>>
    BY <1>4 DEF IsrEnter, IsrCheckBusy, CountWritten, CountRead, IsrDone, IsrDisable, IsrReturn
  <2>2. PICK label \in IsrLabels :
          /\ Goto(h, label)
          /\ \/ pc[h] \in {"idle", "entry", "countRx", "done", "disable", "callback"}
                /\ label \in {"entry", "overrun", "done", "disable", "complete", "idle"}
             \/ pc[h] = "count" /\ label = "rx"
    BY <1>4 DEF IsrEnter, IsrCheckBusy, CountWritten, CountRead, IsrDone, IsrDisable, IsrReturn,
       MayEnter, IsrLabels, Capturing
  <2>3. /\ pc'["fg"] = pc["fg"] /\ pc'[h] = label /\ \A k \in Handlers \ {h} : pc'[k] = pc[k]
    BY <2>2, HandlerPlaces
  <2>4. raced => raced'
    <3>1. raced' = raced \/ raced' = (raced \/ startingCall)
      BY <1>4 DEF IsrEnter, IsrCheckBusy, CountWritten, CountRead, IsrDone, IsrDisable, IsrReturn
    <3> QED
      BY <3>1
  <2> QED
    BY <2>1, <2>2, <2>3, <2>4, UntouchedWire DEF Tested
<1> QED
  BY <1>1, <1>2, <1>3, <1>4

\* The steps that end an operation, by a report, by cancelInterrupt or by the return of a
\* polling call that gives up, and the calls the application makes when none is in progress
LEMMA EndWire ==
  ASSUME IInv, WireInv,
         \/ CancelForget \/ Configure \/ ClearOverrun \/ ClearUnderrun \/ FlushStep \/ PollTimeout
         \/ \E h \in Handlers : IsrFail(h) \/ IsrComplete(h)
  PROVE  WireInv'
<1> USE DEF IInv, TypeOK, CallTypeOK, Contexts, Handlers, Goto, wireVars, rxVars, txVars, blockVars,
            historyVars, Half, WireInv, Incoming
<1>1. CASE CancelForget \/ Configure
  <2>1. /\ pc["fg"] \in {"idle", "forget"} /\ pc'["fg"] = "idle"
        /\ \A h \in Handlers : pc'[h] = "idle" /\ pc[h] = "idle"
        /\ UNCHANGED <<txb, sent, clean, found, ovr, ovrSeq, raced>>
    BY <1>1, FgRuns DEF CancelForget, Configure, callVars, MayCall, HandlersIdle
  <2>2. ~raced => ~owed'
    BY <1>1, <2>1 DEF CancelForget, Configure, Attribution
  <2> QED
    BY <2>1, <2>2, OverWire DEF pollingCall, Polling, Capturing
<1>2. CASE ClearOverrun \/ ClearUnderrun
  <2>1. /\ pc' = pc /\ pc["fg"] = "idle" /\ \A h \in Handlers : pc[h] = "idle"
        /\ UNCHANGED <<txb, sent, clean, found, raced, owed>> /\ ~isBusy
        /\ ovrSeq' => ovr'
    BY <1>2 DEF ClearOverrun, ClearUnderrun, callVars, MayCall, ReadSR, BlockTypeOK
  <2>2. ~raced => ~owed'
    BY <2>1 DEF Attribution
  <2> QED
    BY <2>1, <2>2, OverWire DEF pollingCall, Polling, Capturing
<1>3. CASE FlushStep
  <2>1. /\ pc["fg"] \in {"flush", "drop"} /\ pc'["fg"] \in {"idle", "flush", "drop"}
        /\ \A h \in Handlers : pc'[h] = pc[h] /\ pc[h] = "idle"
        /\ UNCHANGED <<txb, sent, clean, found, raced, owed>>
        /\ ovrSeq' => ovr'
    BY <1>3, FgRuns DEF FlushStep, FlushCheck, FlushDrop, HandlersIdle, ReadSR, ReadDR, BlockTypeOK
  <2>2. ~raced => ~owed'
    BY <2>1 DEF Attribution
  <2> QED
    BY <2>1, <2>2, OverWire DEF pollingCall, Polling, Capturing
<1>4. CASE PollTimeout
  <2>1. /\ pc["fg"] \in Waits /\ pc'["fg"] = "idle"
        /\ \A h \in Handlers : pc'[h] = pc[h] /\ pc[h] = "idle"
        /\ UNCHANGED <<txb, sent, clean, found, raced, owed>>
        /\ ovrSeq' => ovr'
    BY <1>4, FgRuns DEF PollTimeout, PollReturn, PollUnchanged, HandlersIdle, ReadSR, BlockTypeOK
  <2>2. ~raced => ~owed'
    BY <2>1 DEF Attribution, pollingCall, Polling, Waits
  <2> QED
    BY <2>1, <2>2, OverWire DEF pollingCall, Polling, Capturing, Waits
<1>5. ASSUME NEW h \in Handlers, IsrFail(h) \/ IsrComplete(h) PROVE WireInv'
  <2>1. /\ pc[h] \in {"fail", "complete"} /\ pc'[h] = "callback" /\ pc'["fg"] = pc["fg"]
        /\ \A k \in Handlers \ {h} : pc'[k] = pc[k] /\ pc[k] = "idle"
        /\ UNCHANGED <<txb, sent, clean, found, ovr, ovrSeq>>
        /\ raced => raced'
    <3>1. Goto(h, "callback") /\ "callback" \in IsrLabels /\ pc[h] \in {"fail", "complete"}
      BY <1>5 DEF IsrFail, IsrComplete, IsrLabels
    <3>2. /\ pc'["fg"] = pc["fg"] /\ pc'[h] = "callback"
          /\ \A k \in Handlers \ {h} : pc'[k] = pc[k] /\ pc[k] = "idle"
      BY <3>1, HandlerPlaces
    <3>3. UNCHANGED <<txb, sent, clean, found, ovr, ovrSeq>>
      BY <1>5 DEF IsrFail, IsrComplete
    <3>4. raced' = raced \/ raced' = (raced \/ startingCall)
      BY <1>5 DEF IsrFail, IsrComplete
    <3>5. raced => raced'
      BY <3>4
    <3> QED
      BY <3>1, <3>2, <3>3, <3>5
  <2>2. ~raced' => ~raced /\ ~owed' /\ ~pollingCall /\ pc["fg"] \notin {"write", "read"}
    <3> SUFFICES ASSUME ~raced' PROVE ~owed' /\ ~pollingCall /\ pc["fg"] \notin {"write", "read"}
      BY <2>1
    <3>1. ~pollingCall /\ owed /\ (pc[h] = "complete" => op # "none" /\ ~startingCall)
      BY <2>1 DEF Attribution, HandlersIdle, AllDone
    <3>2. ~owed' /\ ~startingCall
      BY <1>5, <2>1, <3>1 DEF IsrFail, IsrComplete
    <3> QED
      BY <3>1, <3>2 DEF startingCall, Starting, FgLabels, Polling, Capturing, Cancelling
  <2> QED
    BY <2>1, <2>2, OverWire DEF pollingCall, Polling, Capturing
<1> QED
  BY <1>1, <1>2, <1>3, <1>4, <1>5

----------------------------------------------------------------------------
(* The start of an operation *)

\* Whatever the blocks hold is of an earlier operation; of this one no word is written and
\* none taken, and a clean one finds the blocks empty.
LEMMA BeginWire ==
  ASSUME IInv, WireInv, BeginHistory, UNCHANGED <<ovr, ovrSeq, found>>,
         HandlersIdle, pc["fg"] = "idle", \A h \in Handlers : pc'[h] = pc[h],
         \/ pc'["fg"] = "arm" /\ owed'
         \/ /\ pc'["fg"] \in {"waitTx", "put", "waitRx"} /\ ~owed'
            /\ txIndex' = 0 /\ rxIndex' = 0 /\ Fits(call.kind)'
  PROVE  WireInv'
<1> USE DEF IInv, TypeOK, BlockTypeOK, BeginHistory, AsStale
<1>1. sent' = <<>> /\ Len(sent') = 0 /\ got' = <<>> /\ Len(got') = 0 /\ NumberedTo(0) = <<>>
  BY NumberedProperties
<1>2. txb' \in {Empty, Stale} /\ Held(txb)' = 0 /\ Written' = 0
  BY <1>1 DEF Written, Held
<1>3. clean' => txb' = Empty /\ rxb' = Empty /\ ~ovr' /\ ~ovrSeq' /\ arrived' = 0
  BY DEF WireInv, Incoming
<1>4. /\ \A c \in Contexts : found'[c] # {} => pc'[c] = "underrun"
      /\ \A c \in Contexts : pc'[c] \notin {"write", "read", "take"}
  <2>1. \A h \in Contexts : pc[h] = "idle" /\ found[h] = {}
    BY DEF HandlersIdle, WireInv, Incoming, Contexts
  <2> QED
    BY <2>1 DEF Contexts, WireInv, Incoming
<1>5. Outgoing'
  BY <1>1, <1>2, <1>3, <1>4 DEF Outgoing, pollingCall, Polling, Capturing, Empty, Stale
<1>6. ovrSeq' => ovr'
  BY DEF WireInv, Incoming
<1>7. Incoming'
  BY <1>1, <1>3, <1>4, <1>6 DEF Incoming, pollingCall, Polling, Capturing, Held, Empty, Stale
<1> QED
  BY <1>5, <1>7 DEF WireInv

\* The checks of the start calls and of the polling calls (i2s_driver.hpp:173-185, 210-222,
\* 245-260, 321-329, 341-349, 365-372)
LEMMA StartWire ==
  ASSUME IInv, WireInv,
         \/ \E kind \in AsyncKinds \cap Calls, n \in Counts : Start(kind, n)
         \/ \E kind \in PollKinds \cap Calls, n \in Counts : StartPoll(kind, n)
  PROVE  WireInv'
<1> USE DEF IInv, TypeOK, CallTypeOK, Contexts, Handlers, Goto
<1>1. ASSUME NEW kind \in AsyncKinds \cap Calls, NEW n \in Counts, Start(kind, n) PROVE WireInv'
  BY <1>1, BeginWire DEF Start, MayCall, HandlersIdle
<1>2. ASSUME NEW kind \in PollKinds \cap Calls, NEW n \in Counts, StartPoll(kind, n) PROVE WireInv'
  <2>1. Fits(call.kind)'
    BY <1>2 DEF StartPoll, Fits, isTransmitMode, HasExtension
  <2> QED
    BY <1>2, <2>1, BeginWire DEF StartPoll, MayCall, HandlersIdle
<1> QED
  BY <1>1, <1>2

\* The members are set while no word is written and none is taken; when the last one is
\* set, the transmit pointer is at the first word (i2s_driver.hpp:330-334, 350-354, 373-381).
LEMMA ArmWire ==
  ASSUME IInv, WireInv, Arm
  PROVE  WireInv'
<1> USE DEF IInv, TypeOK, CallTypeOK, Contexts, Handlers, Goto, wireVars, rxVars, txVars, WireInv
<1>1. /\ pc["fg"] = "arm" /\ pc'["fg"] \in {"arm", "load"} /\ (pc'["fg"] = "load" => at = 5)
      /\ \A h \in Handlers : pc'[h] = pc[h] /\ pc[h] = "idle"
      /\ UNCHANGED <<system, mode, wireVars, found, call, txIndex, rxIndex, got, owed, clean, raced>>
      /\ op' = (IF at = 5 THEN call.kind ELSE op)
      /\ at \in 1 .. 5 /\ call.kind \in AsyncKinds
  BY FgRuns DEF Arm, HandlersIdle, CountersInStep, startingCall, Starting
<1>2. Half'
  BY <1>1 DEF Half, Incoming
<1>3. CASE raced
  BY <1>1, <1>2, <1>3, RacedWire
<1>4. CASE ~raced
  <2>1. owed /\ ~pollingCall /\ ~pollingCall' /\ Written = 0 /\ Written' = 0
    BY <1>1, <1>4 DEF Attribution, startingCall, Starting, Outgoing, pollingCall, Polling,
       Capturing, Written, Held
  <2>2. pc'["fg"] = "load" => op' = call.kind /\ (op' # "rx" => txBuf' = 1)
    BY <1>1, <1>4, <2>1 DEF Arm, Ledger, Armed
  <2>3. Outgoing'
    BY <1>1, <1>4, <2>1, <2>2 DEF Outgoing, Held
  <2>4. receiving' => receiving
    BY <1>1, <2>1, <2>2 DEF receiving
  <2>5. Incoming'
    BY <1>1, <1>2, <1>4, <2>1, <2>4 DEF Incoming, Half, overrunFound, Held, Polling
  <2> QED
    BY <2>3, <2>5
<1> QED
  BY <1>3, <1>4

\* After its four interrupts the start call of a transfer finds the transmit pointer at the
\* first word, and none written.
LEMMA ReadyToPrime ==
  ASSUME IInv, WireInv, StoreCr2, pc'["fg"] = "write"
  PROVE  WireInv'
<1> USE DEF IInv, TypeOK, CallTypeOK, Contexts, Handlers, Goto, wireVars, rxVars, txVars, WireInv,
            historyVars, memberVars
<1>1. pc["fg"] = "store" /\ startingCall /\ HandlersIdle /\ at = 4 /\ call.kind = "transfer"
  <2>1. /\ pc["fg"] = "store" /\ startingCall /\ HandlersIdle
        /\ at \in 1 .. (IF call.kind = "transfer" THEN 5 ELSE 2)
    BY OrderTyped, FgRuns DEF StoreCr2, startingCall, Starting
  <2>2. Len(EnableOrder) = IF call.kind = "transfer" THEN 5 ELSE 2
    BY SimpleOrder, TransferOrder
  <2>3. at = 4
    <3>1. CASE at < Len(EnableOrder) /\ at # 4
      BY <3>1, <2>1 DEF StoreCr2
    <3>2. CASE ~(at < Len(EnableOrder)) /\ at # 4
      BY <3>2, <2>1, <2>2 DEF StoreCr2, StartReturn
    <3> QED
      BY <2>1, <2>2, <3>1, <3>2
  <2> QED
    BY <2>1, <2>3
<1>2. /\ \A h \in Handlers : pc'[h] = "idle" /\ pc[h] = "idle"
      /\ UNCHANGED <<system, mode, wireVars, found, call, op, txBuf, txIndex, rxIndex, got, owed,
                     clean, raced>>
  BY <1>1 DEF StoreCr2, HandlersIdle, StartReturn
<1>3. Half'
  BY <1>1, <1>2 DEF Half, Incoming
<1>4. CASE raced
  BY <1>2, <1>3, <1>4, RacedWire
<1>5. CASE ~raced
  <2>1. owed /\ InStep /\ op = "transfer" /\ size = call.n /\ txRem = call.n
    BY <1>1, <1>5, StartingOperation DEF CountersInStep
  <2>2. txBuf = 1
    <3>1. ~Between({"count"})
      BY <1>1, <1>2 DEF Between
    <3>2. txBuf + txRem = size + 1 /\ txBuf \in 0 .. PastEnd /\ size \in 0 .. MaxCount
      BY <2>1, <3>1 DEF InStep, MemberTypeOK, HistoryTypeOK
    <3> QED
      BY <2>1, <3>2, BlockAssumption DEF PastEnd
  <2>3. Written = 0 /\ Written' = Written /\ Held(txb) = 0 /\ Held(txb)' = Held(txb)
    BY <1>1, <1>2, <1>5, <2>1, <2>2 DEF Outgoing, Written, Held, BlockTypeOK
  <2>4. ~pollingCall /\ ~pollingCall'
    BY <1>1 DEF pollingCall, Polling, Capturing
  <2>5. Outgoing'
    BY <1>1, <1>2, <1>5, <2>1, <2>3, <2>4 DEF Outgoing
  <2>6. receiving' => receiving
    BY <1>1, <1>2, <2>1, <2>4 DEF receiving
  <2>7. Incoming'
    BY <1>1, <1>2, <1>3, <1>5, <2>4, <2>6 DEF Incoming, Half, overrunFound, Held, Polling, Tested
  <2> QED
    BY <2>5, <2>7
<1> QED
  BY <1>4, <1>5

----------------------------------------------------------------------------
(* Words onto the wire *)

\* The block a context writes to sends, the one it reads from receives.
LEMMA Directions ==
  ASSUME IInv, NEW c \in Contexts, NEW kind \in AsyncKinds \cup PollKinds, Fits(kind),
         kind = IF c = "fg" THEN call.kind ELSE op
  PROVE  /\ kind \notin {"rx", "pollRx"} => TxOf(c) = TxBlock
         /\ kind \notin {"tx", "pollTx"} => RxOf(c) = RxBlock
<1>1. Duplex(c) <=> kind \in {"transfer", "pollTransfer"}
  BY DEF IInv, TypeOK, MemberTypeOK, Duplex, AsyncKinds, Contexts, Handlers
<1>2. CASE Duplex(c)
  BY <1>2 DEF TxOf, RxOf
<1>3. CASE ~Duplex(c) /\ kind \in {"tx", "pollTx"}
  BY <1>3 DEF TxOf, RxOf, Fits, TxBlock
<1>4. CASE ~Duplex(c) /\ kind \in {"rx", "pollRx"}
  BY <1>4 DEF TxOf, RxOf, Fits, RxBlock
<1> QED
  BY <1>1, <1>2, <1>3, <1>4 DEF AsyncKinds, PollKinds

\* A word that is written takes its place behind the words already written.
LEMMA WrittenNext ==
  ASSUME BlockTypeOK, sent' = sent, Held(txb) = 0, txb' = Len(sent) + 1, Len(sent) \in Nat
  PROVE  Written' = Written + 1 /\ txb' = Len(sent') + 1 /\ txb' \notin {Empty, Stale}
BY DEF Written, Held, Empty, Stale

\* A handler, or the start of a transfer, writes the word the pointer is at
\* (i2s_driver.hpp:389, 400, 436, 452, 475).
LEMMA WriteWire ==
  ASSUME IInv, WireInv, NEW c \in Contexts, WriteWord(c)
  PROVE  WireInv'
<1>a. TypeOK /\ Scheduling /\ CountersInStep /\ Attribution /\ Ledger
  BY DEF IInv
<1> USE <1>a DEF TypeOK, CallTypeOK, Contexts, Handlers, Goto, WireInv, historyVars
<1>1. /\ pc[c] = "write" /\ pc'[c] = "count" /\ \A d \in Contexts \ {c} : pc'[d] = pc[d]
      /\ UNCHANGED <<system, mode, sent, arrived, ovr, op, found, call, txIndex, rxIndex, got,
                     owed, clean, raced>>
  BY DEF WriteWord, WriteDR, ReadDR
<1>2. CASE raced
  <2>1. Half'
    BY <1>1 DEF Half, Incoming, WriteWord, WriteDR, ReadDR, BlockTypeOK
  <2> QED
    BY <1>1, <1>2, <2>1, RacedWire
<1>3. CASE ~raced
  <2>1. /\ owed /\ ~pollingCall /\ pc["fg"] # "arm" /\ InStep /\ txRem > 0
        /\ \A d \in Contexts \ {c} : pc[d] \notin {"write", "put", "silence", "count"}
        /\ op = (IF c = "fg" THEN call.kind ELSE op) /\ op # "rx"
    <3>1. CASE c = "fg"
      <4>1. HandlersIdle /\ startingCall /\ priming /\ op = call.kind /\ owed /\ InStep
        BY <1>1, <1>3, <3>1, FgRuns, StartingOperation DEF WriteWord, startingCall, Starting,
           priming
      <4> QED
        BY <1>1, <3>1, <4>1 DEF HandlersIdle, pollingCall, Polling, Capturing, CountersInStep
    <3>2. CASE c # "fg"
      <4>1. c \in Handlers /\ ~pollingCall /\ owed /\ pc["fg"] # "arm" /\ txRem > 0
        <5>1. c \in Handlers /\ pc[c] # "idle"
          BY <1>1, <3>2
        <5>2. ~pollingCall /\ owed /\ pc["fg"] # "arm"
          BY <1>1, <1>3, <5>1, HandlingFacts
        <5>3. txRem > 0
          BY <1>1, <5>1 DEF CountersInStep
        <5> QED
          BY <5>1, <5>2, <5>3
      <4>2. /\ \A d \in Handlers \ {c} : pc[d] = "idle"
            /\ pc["fg"] \notin {"write", "count"}
        BY <1>1, <4>1 DEF Scheduling, CountersInStep, startingCall, Starting, priming, HandlersIdle
      <4>3. InStep /\ op # "rx"
        BY <1>3, <4>1, CountersTyped DEF Ledger, InStep
      <4> QED
        BY <3>2, <4>1, <4>2, <4>3 DEF pollingCall, Polling
    <3> QED
      BY <3>1, <3>2
  <2>2. TxOf(c) = TxBlock
    <3> HIDE <1>a DEF TypeOK, CallTypeOK, Contexts, Handlers, WireInv
    <3>1. op \in AsyncKinds \cup PollKinds /\ Fits(op) /\ op \notin {"rx", "pollRx"}
      BY <2>1 DEF InStep, AsyncKinds
    <3> QED
      BY <2>1, <3>1, Directions
  <2>3. txBuf \in 1 .. MaxCount
    <3>1. ~Between({"count"})
      BY <1>1, <2>1 DEF Between
    <3>2. txBuf \in 0 .. PastEnd
      BY DEF MemberTypeOK
    <3> HIDE <1>a DEF TypeOK, CallTypeOK, Contexts, Handlers, WireInv
    <3>3. txRem \in 0 .. MaxCount /\ size \in 0 .. MaxCount
      BY CountersTyped
    <3>4. txBuf > 0 /\ txBuf + txRem = size + 1 + 0
      BY <2>1, <3>1, <3>2, <3>3 DEF InStep
    <3> QED
      BY <2>1, <3>2, <3>3, <3>4, BlockAssumption DEF PastEnd
  <2>4. Held(txb) = 0 /\ Written = txBuf - 1 /\ Len(sent) \in Nat /\ Len(sent) = txBuf - 1
    BY <1>1, <1>3, <2>1, <2>3 DEF Outgoing, Written, BlockTypeOK
  <2>5. txb' = txBuf /\ UNCHANGED <<rxb, ovrSeq>> /\ txBuf' = txBuf + 1
    <3>1. txb' = txBuf /\ UNCHANGED <<rxb, ovrSeq>>
      <4>1. TxOf(c) = TxBlock /\ TxBlock # RxBlock
        BY <2>2 DEF TxBlock, RxBlock
      <4> QED
        BY <4>1 DEF WriteWord, WriteDR, ReadDR, BlockTypeOK
    <3>2. txBuf' = txBuf + 1
      BY <2>3, AdvancedInside DEF WriteWord, MemberTypeOK
    <3> QED
      BY <3>1, <3>2
  <2>6. Written' = txBuf' - 1 /\ txb' = Len(sent') + 1 /\ txb' # Stale
    BY <1>1, <2>3, <2>4, <2>5, WrittenNext
  <2>7. /\ pc'["fg"] \notin {"arm", "silence"} /\ ~pollingCall'
        /\ \A d \in Contexts : pc'[d] \notin {"write", "put"}
    BY <1>1, <2>1 DEF pollingCall, Polling, Capturing
  <2>8. Outgoing'
    BY <1>1, <1>3, <2>1, <2>6, <2>7 DEF Outgoing
  <2>9. /\ receiving' => receiving
        /\ overrunFound => overrunFound'
    BY <1>1, <2>1, <2>7 DEF receiving, overrunFound
  <2>10. ovrSeq' /\ clean' /\ receiving' => /\ pc'["fg"] \notin Polling \cup {"underrun"}
                                           /\ \A h \in Handlers : pc'[h] \notin Tested
    BY <1>1, <1>3, <2>1, <2>5, <2>7, <2>9 DEF Incoming, Tested, pollingCall, Capturing
  <2>11. Incoming'
    BY <1>1, <1>3, <2>5, <2>7, <2>9, <2>10 DEF Incoming, Held
  <2> QED
    BY <2>8, <2>11
<1> QED
  BY <1>2, <1>3

----------------------------------------------------------------------------
(* The tests of the status register *)

\* While a handler works, or a polling call, no other context tests, moves a word or
\* reports an error, and the block it reads from is the one that receives.
LEMMA Acting ==
  ASSUME IInv, WireInv, ~raced, NEW c \in Contexts,
         IF c = "fg" THEN pollingCall ELSE pc[c] \notin {"idle", "callback", "entry"}
  PROVE  /\ \A d \in Contexts \ {c} :
              pc[d] \notin Tested \cup {"overrun", "put", "take", "silence", "fail"}
         /\ pc["fg"] # "arm"
         /\ IF c = "fg" THEN ~owed /\ pollingCall ELSE owed /\ ~pollingCall /\ InStep
         /\ receiving => RxOf(c) = RxBlock
<1> USE DEF Contexts, Handlers
<1>1. CASE c = "fg"
  <2>1. pollingCall /\ ~owed /\ \A h \in Handlers : pc[h] = "idle"
    BY <1>1 DEF IInv, Attribution, HandlersIdle
  <2>2. call.kind \in AsyncKinds \cup PollKinds /\ Fits(call.kind) /\ call.kind \in PollKinds
    BY <2>1 DEF IInv, IndicesInStep, WireInv, Incoming
  <2>3. receiving => call.kind \notin {"tx", "pollTx"}
    BY <2>1, <2>2 DEF receiving, Receives, PollKinds
  <2>4. receiving => RxOf(c) = RxBlock
    BY <1>1, <2>2, <2>3, Directions
  <2> QED
    BY <1>1, <2>1, <2>4 DEF Tested, pollingCall, Polling, Capturing
<1>2. CASE c # "fg"
  <2>1. c \in Handlers /\ pc[c] \notin {"idle", "callback", "entry"}
    BY <1>2
  <2>2. ~pollingCall /\ pc["fg"] # "arm" /\ owed
    BY <2>1, HandlingFacts
  <2>3. \A d \in Handlers \ {c} : pc[d] = "idle"
    BY <2>1 DEF IInv, Scheduling
  <2>4. pc["fg"] \notin {"write", "count"}
    BY <2>1 DEF IInv, Scheduling, CountersInStep, startingCall, Starting, priming, HandlersIdle
  <2>5. InStep
    BY <2>2 DEF IInv, Ledger
  <2>6. pc["fg"] \notin Tested \cup {"overrun", "put", "take", "silence", "fail"}
    BY <2>2, <2>4 DEF IInv, TypeOK, CallTypeOK, FgLabels, Starting, Polling, Capturing, Cancelling,
       Tested, pollingCall
  <2>7. op \in AsyncKinds \cup PollKinds /\ Fits(op)
    BY <2>5 DEF InStep
  <2>8. receiving => op \notin {"tx", "pollTx"}
    BY <2>2, <2>5 DEF receiving, InStep, AsyncKinds
  <2>9. receiving => RxOf(c) = RxBlock
    BY <1>2, <2>7, <2>8, Directions
  <2> QED
    BY <1>2, <2>2, <2>3, <2>5, <2>6, <2>9 DEF Tested
<1> QED
  BY <1>1, <1>2

\* A test reads SR and goes on; it drops no overrun that has not been seen.
LEMMA TestWire ==
  ASSUME IInv, WireInv, NEW c \in Contexts, NEW label,
         IF c = "fg" THEN pollingCall /\ label \in Polling \cup Capturing
                     ELSE pc[c] \notin {"idle", "callback", "entry"} /\ label \in IsrLabels,
         pc'[c] = label, \A d \in Contexts \ {c} : pc'[d] = pc[d] /\ found'[d] = found[d],
         NEW bs, ReadSR(bs),
         UNCHANGED <<system, mode, rxb, txb, sent, arrived, op, txBuf, txIndex, rxIndex, size,
                     got, owed, clean, raced, call>>,
         found'[c] = {}, found[c] = {} \/ label = "fail", pc[c] # "fail",
         ~raced /\ clean /\ receiving => ~ovrSeq,
         ~raced => /\ label \in {"write", "put"} => Held(txb) = 0
                   /\ label \in {"read", "take"} => rxb # Empty
                   /\ label = "silence" => txb = Empty
  PROVE  WireInv'
<1>1. Half'
  BY DEF Half, WireInv, Incoming, ReadSR
<1>2. CASE raced
  BY <1>1, <1>2, RacedWire
<1>3. CASE ~raced
  <2>1. /\ \A d \in Contexts \ {c} :
             pc[d] \notin Tested \cup {"overrun", "put", "take", "silence", "fail"}
        /\ pc["fg"] # "arm" /\ (IF c = "fg" THEN ~owed /\ pollingCall ELSE owed /\ ~pollingCall)
    BY <1>3, Acting
  <2>2. /\ pc'["fg"] # "arm" /\ (pollingCall' <=> pollingCall)
        /\ c # "fg" => pc'["fg"] = pc["fg"]
    BY <2>1 DEF pollingCall, Polling, Capturing, Contexts
  <2>3. Written' = Written /\ Held(txb)' = Held(txb) /\ Held(rxb)' = Held(rxb)
    BY DEF Written, Held
  <2>4. /\ \A d \in Contexts : pc'[d] \in {"write", "put"} => Held(txb) = 0
        /\ pc'["fg"] = "silence" => txb = Empty
    BY <1>3, <2>1, <2>2 DEF Contexts, WireInv, Outgoing
  <2>5. Outgoing'
    BY <1>3, <2>1, <2>2, <2>3, <2>4 DEF WireInv, Outgoing, Sends
  <2>6. receiving' = receiving
    BY <2>1, <2>2 DEF receiving, Receives
  <2>7. clean /\ receiving => ~ovrSeq' /\ ovr' = ovr
    BY <1>3 DEF ReadSR, IInv, TypeOK, BlockTypeOK
  <2>8. overrunFound => overrunFound'
    BY <2>1 DEF overrunFound
  <2>9. pollingCall' => Fits(call.kind)' /\ (Receives' => Len(got') = rxIndex')
    BY <1>3, <2>2 DEF WireInv, Incoming, Fits, isTransmitMode, HasExtension, Receives
  <2>10. \A d \in Contexts : pc'[d] \in {"read", "take"} => rxb' # Empty
    BY <1>3, <2>1 DEF Tested
  <2>11. clean' /\ receiving' => got' = NumberedTo(Len(got')) /\ ~ovrSeq'
    BY <1>3, <2>6, <2>7 DEF WireInv, Incoming
  <2>12. clean' /\ receiving' /\ ~overrunFound' =>
           rxb' \in {Empty, Len(got') + 1} /\ (~ovr' => arrived' = Len(got') + Held(rxb)')
    BY <1>3, <2>3, <2>6, <2>7, <2>8 DEF WireInv, Incoming
  <2>13. Incoming'
    BY <1>1, <1>3, <2>9, <2>10, <2>11, <2>12 DEF Incoming, Half
  <2> QED
    BY <2>5, <2>13 DEF WireInv
<1> QED
  BY <1>2, <1>3

\* Where a context goes on, the other ones stay.
LEMMA ContextMoves ==
  ASSUME IInv, NEW c \in Contexts, NEW label, Goto(c, label)
  PROVE  pc'[c] = label /\ \A d \in Contexts \ {c} : pc'[d] = pc[d]
BY DEF IInv, TypeOK, CallTypeOK, Goto

\* The overrun test: an overrun is found, or the half cleared one of an earlier operation
\* is dropped (i2s_driver.hpp:790-842).
LEMMA OverrunWire ==
  ASSUME IInv, WireInv, NEW c \in Contexts, CheckOverrun(c), c = "fg" => pollingCall
  PROVE  WireInv'
<1>1. /\ pc[c] = "overrun" /\ pc'[c] = "underrun" /\ \A d \in Contexts \ {c} : pc'[d] = pc[d]
      /\ UNCHANGED <<system, mode, txb, sent, arrived, op, txBuf, txIndex, rxIndex, size, got, owed,
                     clean, raced, call>>
  BY ContextMoves DEF CheckOverrun, memberVars, historyVars
<1>2. found[c] = {} /\ \A d \in Contexts \ {c} : found'[d] = found[d]
  BY <1>1 DEF CheckOverrun, WireInv, Incoming, IInv, TypeOK, CallTypeOK
<1>3. IF c = "fg" THEN pollingCall /\ "underrun" \in Polling \cup Capturing
                  ELSE pc[c] \notin {"idle", "callback", "entry"} /\ "underrun" \in IsrLabels
  BY <1>1 DEF Capturing, IsrLabels
<1>4. CASE ~OVR(RxOf(c))
  <2>1. ReadSR({RxOf(c)}) /\ UNCHANGED rxb /\ found'[c] = {}
    BY <1>4 DEF CheckOverrun, OverrunOf, IInv, TypeOK, CallTypeOK
  <2>2. ~raced /\ clean /\ receiving => ~ovrSeq
    BY <1>3, <1>4, Acting DEF OVR, WireInv, Incoming
  <2> QED
    BY <1>1, <1>2, <1>3, <2>1, <2>2, TestWire
<1>5. CASE OVR(RxOf(c))
  <2>1. rxb' = Empty /\ ovr' = FALSE /\ ovrSeq' = FALSE /\ found'[c] = {"overrun"}
    BY <1>5 DEF CheckOverrun, OverrunOf, IInv, TypeOK, CallTypeOK
  <2>2. Half'
    BY <1>1, <1>2, <2>1 DEF Half, WireInv, Incoming
  <2>3. CASE raced
    BY <1>1, <2>2, <2>3, RacedWire
  <2>4. CASE ~raced
    <3>1. /\ \A d \in Contexts \ {c} :
               pc[d] \notin Tested \cup {"overrun", "put", "take", "silence", "fail"}
          /\ pc["fg"] # "arm" /\ (IF c = "fg" THEN ~owed /\ pollingCall ELSE owed /\ ~pollingCall)
      BY <1>3, <2>4, Acting
    <3>2. /\ pc'["fg"] # "arm" /\ (pollingCall' <=> pollingCall)
          /\ pc'["fg"] = "silence" => pc["fg"] = "silence"
          /\ \A d \in Contexts : pc'[d] \notin {"write", "put", "read", "take"}
      BY <1>1, <3>1 DEF pollingCall, Capturing, Contexts, Tested
    <3>3. Written' = Written
      BY <1>1 DEF Written, Held
    <3>4. Outgoing'
      BY <1>1, <2>4, <3>1, <3>2, <3>3 DEF WireInv, Outgoing, Sends
    <3>5. receiving' = receiving
      BY <1>1, <3>1, <3>2 DEF receiving, Receives
    <3>6. overrunFound'
      BY <2>1 DEF overrunFound
    <3>7. pollingCall' => Fits(call.kind)' /\ (Receives' => Len(got') = rxIndex')
      BY <1>1, <2>4, <3>2 DEF WireInv, Incoming, Fits, isTransmitMode, HasExtension, Receives
    <3>8. clean' /\ receiving' => got' = NumberedTo(Len(got'))
      BY <1>1, <2>4, <3>5 DEF WireInv, Incoming
    <3>9. Incoming'
      BY <2>1, <2>2, <3>2, <3>6, <3>7, <3>8 DEF Incoming, Half
    <3> QED
      BY <3>4, <3>9 DEF WireInv
  <2> QED
    BY <2>3, <2>4
<1> QED
  BY <1>4, <1>5

\* The verdict of a handler, and its tests for room and for a word
\* (i2s_driver.hpp:428, 468, 435, 443, 451, 459, 474, 482)
LEMMA IsrTestWire ==
  ASSUME IInv, WireInv, NEW h \in Handlers, IsrVerdict(h) \/ IsrTx(h) \/ IsrRx(h)
  PROVE  WireInv'
<1> USE DEF memberVars, historyVars
<1>1. /\ h \in Contexts /\ h # "fg" /\ pc[h] \in {"underrun", "tx", "rx"}
      /\ UNCHANGED <<system, mode, rxb, txb, sent, arrived, op, txBuf, txIndex, rxIndex, size, got,
                     owed, clean, raced, call>>
  BY DEF IsrVerdict, Verdict, IsrTx, IsrRx, Contexts, Handlers
<1>2. ~raced /\ clean /\ receiving => ~ovrSeq
  BY <1>1 DEF WireInv, Incoming, Tested
<1>3. found \in [Contexts -> SUBSET {"overrun"}] /\ BlockTypeOK
  BY DEF IInv, TypeOK, CallTypeOK
<1>4. CASE IsrVerdict(h)
  <2>1. PICK bs : ReadSR(bs)
    BY <1>4 DEF IsrVerdict, Verdict
  <2>2. found'[h] = {} /\ \A d \in Contexts \ {h} : found'[d] = found[d]
    BY <1>1, <1>3, <1>4 DEF IsrVerdict, Verdict
  <2>3. \/ Goto(h, "fail")
        \/ Goto(h, "tx") /\ found[h] = {}
    BY <1>4 DEF IsrVerdict, Verdict
  <2>4. PICK label \in {"fail", "tx"} :
          /\ pc'[h] = label /\ \A d \in Contexts \ {h} : pc'[d] = pc[d]
          /\ found[h] = {} \/ label = "fail"
    BY <1>1, <2>3, ContextMoves
  <2>5. label \in IsrLabels
    BY DEF IsrLabels
  <2> QED
    BY <1>1, <1>2, <2>1, <2>2, <2>4, <2>5, TestWire
<1>5. CASE IsrTx(h)
  <2>1. PICK bs : ReadSR(bs)
    <3>1. CASE txRem > 0
      BY <1>5, <3>1 DEF IsrTx
    <3>2. CASE ~(txRem > 0)
      <4>1. ReadSR({})
        BY <1>3, <1>5, <3>2 DEF IsrTx, ReadSR, BlockTypeOK
      <4> QED
        BY <4>1
    <3> QED
      BY <3>1, <3>2
  <2>2. PICK label \in {"write", "rx"} : Goto(h, label) /\ (label = "write" => txb = Empty)
    BY <1>5 DEF IsrTx, TxWanted, TXE
  <2>3. pc'[h] = label /\ \A d \in Contexts \ {h} : pc'[d] = pc[d]
    BY <1>1, <2>2, ContextMoves
  <2>4. found' = found /\ found[h] = {}
    BY <1>1, <1>5 DEF IsrTx, WireInv, Incoming
  <2>5. label \in IsrLabels /\ (label = "write" => Held(txb) = 0)
    BY <2>2 DEF IsrLabels, Held
  <2> QED
    BY <1>1, <1>2, <2>1, <2>2, <2>3, <2>4, <2>5, TestWire
<1>6. CASE IsrRx(h)
  <2>1. PICK bs : ReadSR(bs)
    <3>1. CASE rxRem > 0
      BY <1>6, <3>1 DEF IsrRx
    <3>2. CASE ~(rxRem > 0)
      <4>1. ReadSR({})
        BY <1>3, <1>6, <3>2 DEF IsrRx, ReadSR, BlockTypeOK
      <4> QED
        BY <4>1
    <3> QED
      BY <3>1, <3>2
  <2>2. PICK label \in {"read", "done"} : Goto(h, label) /\ (label = "read" => rxb # Empty)
    BY <1>6 DEF IsrRx, RxWanted, RXNE
  <2>3. pc'[h] = label /\ \A d \in Contexts \ {h} : pc'[d] = pc[d]
    BY <1>1, <2>2, ContextMoves
  <2>4. found' = found /\ found[h] = {}
    BY <1>1, <1>6 DEF IsrRx, WireInv, Incoming
  <2>5. label \in IsrLabels
    BY <2>2 DEF IsrLabels
  <2> QED
    BY <1>1, <1>2, <2>1, <2>2, <2>3, <2>4, <2>5, TestWire
<1> QED
  BY <1>4, <1>5, <1>6

----------------------------------------------------------------------------
(* Words into the receive buffer *)

\* A word that is read takes its place behind the words already stored; an overrun that is
\* half cleared by the read is still to be looked at by the next test.
LEMMA ReadWire ==
  ASSUME IInv, WireInv, ~raced, NEW c \in Contexts,
         IF c = "fg" THEN pollingCall ELSE pc[c] \notin {"idle", "callback", "entry"},
         pc[c] \in {"read", "take"}, pc'[c] \in {"countRx", "overrun"},
         c = "fg" => pc'[c] = "overrun" /\ rxIndex' = rxIndex + 1,
         c # "fg" => rxIndex' = rxIndex,
         \A d \in Contexts \ {c} : pc'[d] = pc[d],
         receiving, ReadDR(RxOf(c)), got' = Append(got, DataRead(RxOf(c))),
         UNCHANGED <<system, mode, txb, sent, arrived, op, txBuf, txIndex, owed, clean,
                     raced, call, found>>
  PROVE  WireInv'
<1> USE DEF WireInv
<1>1. /\ RxOf(c) = RxBlock /\ rxb # Empty /\ DataRead(RxOf(c)) = rxb
      /\ \A d \in Contexts \ {c} :
           pc[d] \notin Tested \cup {"overrun", "put", "take", "silence", "fail"}
      /\ pc["fg"] # "arm"
      /\ IF c = "fg" THEN ~owed /\ pollingCall ELSE owed /\ ~pollingCall
  BY Acting DEF Incoming, DataRead, RXNE
<1>2. rxb' = Empty /\ ovr' = ovr /\ ovrSeq' = (ovrSeq \/ ovr)
  BY <1>1 DEF ReadDR
<1>3. Half'
  BY <1>1, <1>2 DEF Half, Incoming, Tested
<1>4. /\ pc'["fg"] # "arm" /\ (pollingCall' <=> pollingCall)
      /\ pc'["fg"] = "silence" => pc["fg"] = "silence"
      /\ \A d \in Contexts : pc'[d] \notin {"write", "put", "read", "take"}
  BY <1>1 DEF pollingCall, Capturing, Polling, Contexts, Tested
<1>5. Written' = Written
  BY DEF Written, Held
<1>6. Outgoing'
  BY <1>1, <1>4, <1>5 DEF Outgoing, Sends
<1>7. receiving' = receiving
  BY <1>1, <1>4 DEF receiving, Receives
<1>8. ~overrunFound
  BY <1>1 DEF overrunFound, Incoming, Tested, Contexts
<1>9. got \in Seq(0 .. FrameCap) /\ rxb \in Slot /\ Len(got) \in Nat
  BY DEF IInv, TypeOK, HistoryTypeOK, BlockTypeOK
<1>10. Len(got') = Len(got) + 1
  BY <1>1, <1>9 DEF Slot, Empty
<1>11. pollingCall' => Fits(call.kind)' /\ (Receives' => Len(got') = rxIndex')
  BY <1>1, <1>4, <1>10 DEF Incoming, Fits, isTransmitMode, HasExtension, Receives, receiving
<1>12. clean' /\ receiving' => /\ got' = NumberedTo(Len(got'))
                               /\ ~ovr' => arrived' = Len(got') + Held(rxb)'
  <2> SUFFICES ASSUME clean', receiving'
               PROVE  got' = NumberedTo(Len(got')) /\ (~ovr' => arrived' = Len(got') + Held(rxb)')
    OBVIOUS
  <2>1. got = NumberedTo(Len(got)) /\ rxb = Len(got) + 1
    BY <1>1, <1>8 DEF Incoming
  <2>2. got' = NumberedTo(Len(got) + 1)
    BY <1>1, <1>9, <2>1, NumberedProperties
  <2>3. Held(rxb) = 1 /\ Held(rxb)' = 0
    BY <1>2, <1>9, <2>1 DEF Held, Empty, Stale
  <2>4. ~ovr' => arrived' = Len(got') + Held(rxb)'
    BY <1>2, <1>8, <1>9, <1>10, <2>3 DEF Incoming
  <2> QED
    BY <1>10, <2>2, <2>4
<1>13. /\ pc'["fg"] \notin Polling \cup {"underrun"}
       /\ \A h \in Handlers : pc'[h] \notin Tested
  <2>1. CASE c = "fg"
    BY <1>1, <2>1 DEF Contexts, Handlers, Polling
  <2>2. CASE c # "fg"
    BY <1>1, <2>2 DEF Contexts, Handlers, pollingCall, Capturing, Tested
  <2> QED
    BY <2>1, <2>2
<1>14. Incoming'
  BY <1>2, <1>3, <1>4, <1>11, <1>12, <1>13 DEF Incoming, Half
<1> QED
  BY <1>6, <1>14

\* A handler stores a word (i2s_driver.hpp:444, 460, 483).
LEMMA IsrReadWire ==
  ASSUME IInv, WireInv, NEW h \in Handlers, IsrRead(h)
  PROVE  WireInv'
<1>1. /\ h \in Contexts /\ h # "fg" /\ pc[h] = "read" /\ Goto(h, "countRx") /\ ReadDR(RxOf(h))
      /\ UNCHANGED <<system, mode, txb, sent, arrived, op, txBuf, txIndex, rxIndex, owed, clean,
                     raced, call, found>>
  BY DEF IsrRead, Contexts, Handlers, txVars
<1>2. pc'[h] = "countRx" /\ \A d \in Contexts \ {h} : pc'[d] = pc[d]
  BY <1>1, ContextMoves
<1>3. CASE raced
  <2>1. Half'
    BY <1>1, <1>2 DEF Half, WireInv, Incoming, ReadDR, IInv, TypeOK, BlockTypeOK
  <2> QED
    BY <1>1, <1>3, <2>1, RacedWire
<1>4. CASE ~raced
  <2>1. owed /\ ~pollingCall /\ InStep /\ pc["fg"] # "arm" /\ rxRem > 0
    BY <1>1, <1>4, Acting DEF IInv, CountersInStep
  <2>2. receiving
    BY <2>1 DEF InStep, receiving
  <2>3. Len(got) = rxBuf - 1 /\ rxBuf <= size + 1
    BY <2>1 DEF InStep
  <2>4. Len(got) < FrameCap
    BY <2>3, CountersTyped, BlockAssumption DEF FrameCap, IInv, TypeOK, MemberTypeOK, PastEnd
  <2>5. got' = Append(got, DataRead(RxOf(h)))
    BY <2>4 DEF IsrRead
  <2> QED
    BY <1>1, <1>2, <1>4, <2>2, <2>5, ReadWire
<1> QED
  BY <1>3, <1>4

\* A polling loop stores a word (i2s_driver.hpp:229, 281, 295).
LEMMA PollTakeWire ==
  ASSUME IInv, WireInv, PollTake
  PROVE  WireInv'
<1>1. /\ "fg" \in Contexts /\ pc["fg"] = "take" /\ Goto("fg", "overrun") /\ ReadDR(RxOf("fg"))
      /\ UNCHANGED <<system, mode, txb, sent, arrived, op, txBuf, txIndex, owed, clean,
                     raced, call, found>>
      /\ rxIndex' = rxIndex + 1 /\ got' = Append(got, DataRead(RxOf("fg"))) /\ pollingCall
  BY DEF PollTake, PollUnchanged, Contexts, pollingCall, Polling
<1>2. pc'["fg"] = "overrun" /\ \A d \in Contexts \ {"fg"} : pc'[d] = pc[d]
  BY <1>1, ContextMoves
<1>3. CASE raced
  <2>1. Half'
    BY <1>1, <1>2 DEF Half, WireInv, Incoming, ReadDR, IInv, TypeOK, BlockTypeOK
  <2> QED
    BY <1>1, <1>3, <2>1, RacedWire
<1>4. CASE ~raced
  <2>1. receiving
    BY <1>1 DEF IInv, IndicesInStep, receiving
  <2> QED
    BY <1>1, <1>2, <1>4, <2>1, ReadWire
<1> QED
  BY <1>3, <1>4

----------------------------------------------------------------------------
(* The polling calls *)

\* A polling loop writes the word its index is at (i2s_driver.hpp:192, 262-266, 274, 288).
LEMMA PollPutWire ==
  ASSUME IInv, WireInv, PollPut
  PROVE  WireInv'
<1>1. /\ "fg" \in Contexts /\ pc["fg"] = "put" /\ pollingCall
      /\ UNCHANGED <<system, mode, sent, arrived, op, txBuf, rxIndex, got, size, owed, clean,
                     raced, call, found, ovr>>
      /\ txIndex' = txIndex + 1 /\ WriteDR(TxOf("fg"), txIndex + 1)
  BY DEF PollPut, PollUnchanged, Contexts, pollingCall, Polling, WriteDR, ReadDR
<1>2. PICK label \in {"overrun", "waitTx", "waitRx"} : Goto("fg", label)
  BY DEF PollPut
<1>3. pc'["fg"] \in {"overrun", "waitTx", "waitRx"} /\ \A h \in Handlers : pc'[h] = pc[h]
  BY <1>1, <1>2, ContextMoves DEF Contexts, Handlers
<1>4. Half'
  BY <1>1, <1>3 DEF Half, WireInv, Incoming, WriteDR, ReadDR, IInv, TypeOK, BlockTypeOK, Contexts,
     Handlers
<1>5. CASE raced
  BY <1>1, <1>4, <1>5, RacedWire
<1>6. CASE ~raced
  <2>1. ~owed /\ pc["fg"] # "arm" /\ \A h \in Handlers : pc[h] = "idle"
    BY <1>1, <1>6 DEF IInv, Attribution, HandlersIdle
  <2>2. Sends /\ call.kind \in PollKinds /\ Fits(call.kind) /\ txIndex \in Nat
    BY <1>1, <1>6 DEF IInv, IndicesInStep, WireInv, Incoming, TypeOK, CallTypeOK
  <2>3. TxOf("fg") = TxBlock
    BY <1>1, <2>2, Directions DEF Sends, PollKinds
  <2>4. txb' = txIndex + 1 /\ rxb' = rxb /\ ovrSeq' = ovrSeq
    <3>1. TxBlock # RxBlock
      BY DEF TxBlock, RxBlock
    <3> QED
      BY <1>1, <2>3, <3>1 DEF WriteDR, ReadDR, IInv, TypeOK, BlockTypeOK
  <2>5. Held(txb) = 0 /\ Written = txIndex /\ Len(sent) = txIndex
    <3>1. Held(txb) = 0 /\ Written = txIndex
      BY <1>1, <1>6, <2>2 DEF WireInv, Outgoing
    <3>2. Len(sent) \in Nat
      BY DEF IInv, TypeOK, BlockTypeOK
    <3> QED
      BY <3>1, <3>2 DEF Written
  <2>6. Written' = txIndex' /\ txb' = Len(sent') + 1 /\ txb' # Stale
    <3>1. BlockTypeOK /\ Len(sent) \in Nat
      BY <2>2, <2>5 DEF IInv, TypeOK
    <3>2. Written' = Written + 1 /\ txb' = Len(sent') + 1 /\ txb' # Stale
      BY <1>1, <2>4, <2>5, <3>1, WrittenNext
    <3> QED
      BY <1>1, <2>5, <3>2
  <2>7. /\ pollingCall' /\ pc'["fg"] \notin {"arm", "silence"}
        /\ \A d \in Contexts : pc'[d] \notin {"write", "put", "read", "take"}
    BY <1>3, <2>1 DEF pollingCall, Polling, Capturing, Contexts, Handlers
  <2>8. Outgoing'
    BY <1>1, <1>6, <2>1, <2>2, <2>6, <2>7 DEF WireInv, Outgoing, Sends
  <2>9. receiving' = receiving
    BY <1>1, <2>1, <2>7 DEF receiving, Receives
  <2>10. overrunFound' = overrunFound
    BY <1>1, <1>3 DEF overrunFound, Contexts, Handlers
  <2>11. pollingCall' => Fits(call.kind)' /\ (Receives' => Len(got') = rxIndex')
    BY <1>1, <1>6, <2>7 DEF WireInv, Incoming, Fits, isTransmitMode, HasExtension, Receives
  <2>12. clean /\ receiving => ~ovrSeq
    BY <1>1, <1>6 DEF WireInv, Incoming, Polling
  <2>13. clean' /\ receiving' =>
           /\ got' = NumberedTo(Len(got'))
           /\ ~overrunFound' => /\ rxb' \in {Empty, Len(got') + 1}
                                /\ ~ovr' => arrived' = Len(got') + Held(rxb)'
    BY <1>1, <1>6, <2>4, <2>9, <2>10 DEF WireInv, Incoming, Held
  <2>14. Incoming'
    BY <1>1, <1>4, <2>4, <2>7, <2>9, <2>11, <2>12, <2>13 DEF Incoming, Half
  <2> QED
    BY <2>8, <2>14 DEF WireInv
<1> QED
  BY <1>5, <1>6

\* A polling call returns: the operation is over.
LEMMA ReturnWire ==
  ASSUME IInv, WireInv, pollingCall, Goto("fg", "idle"), NEW bs, ReadSR(bs),
         UNCHANGED <<txb, sent, clean, owed, raced>>,
         \A d \in Contexts : found'[d] \in {found[d], {}}, found'["fg"] = {}
  PROVE  WireInv'
<1>1. pc'["fg"] = "idle" /\ \A h \in Handlers : pc'[h] = pc[h]
  BY ContextMoves DEF Contexts, Handlers
<1>2. Half'
  BY <1>1 DEF Half, WireInv, Incoming, ReadSR, Contexts, Handlers
<1>3. ~raced' => ~owed' /\ \A h \in Handlers : pc'[h] = "idle"
  BY <1>1 DEF IInv, Attribution, HandlersIdle
<1> QED
  BY <1>1, <1>2, <1>3, OverWire DEF pollingCall, Polling, Capturing

\* The waits and the verdict of the polling calls (i2s_driver.hpp:188-208, 225-238, 269-318)
LEMMA PollTestWire ==
  ASSUME IInv, WireInv, PollWait \/ (PollVerdict /\ pollingCall)
  PROVE  WireInv'
<1>1. /\ "fg" \in Contexts /\ pc["fg"] \in Waits \cup {"underrun"} /\ pollingCall
      /\ UNCHANGED <<system, mode, rxb, txb, sent, arrived, op, txBuf, size, got, owed, clean, raced>>
  BY DEF PollWait, PollUnchanged, PollVerdict, Verdict, historyVars, Contexts, Waits, pollingCall,
     Polling
<1>2. ~raced /\ clean /\ receiving => ~ovrSeq
  BY <1>1 DEF WireInv, Incoming, Waits, Polling
<1>3. found \in [Contexts -> SUBSET {"overrun"}]
  BY DEF IInv, TypeOK, CallTypeOK
<1>4. PICK bs : ReadSR(bs)
  BY DEF PollWait, PollVerdict, Verdict
<1>5. CASE PollWait
  <2>1. found' = found /\ pc["fg"] \in Waits
    BY <1>5 DEF PollWait
  <2>2. found["fg"] = {}
    BY <1>1, <2>1 DEF WireInv, Incoming, Waits
  <2>3. CASE Goto("fg", "idle")
    BY <1>1, <1>4, <2>1, <2>2, <2>3, ReturnWire
  <2>4. CASE ~Goto("fg", "idle")
    <3>1. PICK label :
            /\ Goto("fg", label) /\ UNCHANGED <<call, txIndex, rxIndex>>
            /\ \/ label = pc["fg"]
               \/ /\ pc["fg"] # "silence" /\ label = AfterWait[pc["fg"]]
                  /\ WaitedFor(pc["fg"])
      BY <1>5, <2>4 DEF PollWait, PollGoto, PollReturn
    <3>2. /\ label \in Polling
          /\ label \in {"write", "put"} => txb = Empty
          /\ label \in {"read", "take"} => rxb # Empty
          /\ ~raced => (label = "silence" => txb = Empty)
      BY <2>1, <3>1 DEF Waits, AfterWait, Polling, WaitedFor, TXE, RXNE, WireInv, Outgoing
    <3>3. pc'["fg"] = label /\ \A d \in Contexts \ {"fg"} : pc'[d] = pc[d]
      BY <1>1, <3>1, ContextMoves
    <3>4. txb = Empty => Held(txb) = 0
      BY DEF Held
    <3>5. pc["fg"] # "fail"
      BY <2>1 DEF Waits
    <3> QED
      BY <1>1, <1>2, <1>4, <2>1, <2>2, <3>1, <3>2, <3>3, <3>4, <3>5, TestWire
  <2> QED
    BY <2>3, <2>4
<1>6. CASE PollVerdict
  <2>1. found'["fg"] = {} /\ pc["fg"] = "underrun" /\ \A d \in Contexts \ {"fg"} : found'[d] = found[d]
    BY <1>1, <1>3, <1>6 DEF PollVerdict, Verdict
  <2>2. CASE Goto("fg", "idle")
    BY <1>1, <1>4, <2>1, <2>2, ReturnWire
  <2>3. CASE ~Goto("fg", "idle")
    <3>1. PICK label \in {"drain", "waitTx", "waitRx"} : Goto("fg", label) /\ found["fg"] = {}
      BY <1>6, <2>3 DEF PollVerdict, Verdict
    <3>2. pc'["fg"] = label /\ \A d \in Contexts \ {"fg"} : pc'[d] = pc[d]
      BY <1>1, <3>1, ContextMoves
    <3>3. UNCHANGED <<call, txIndex, rxIndex>> /\ label \in Polling
      BY <1>6, <3>1, <3>2 DEF PollVerdict, Polling
    <3> QED
      BY <1>1, <1>2, <1>4, <2>1, <3>1, <3>2, <3>3, TestWire
  <2> QED
    BY <2>2, <2>3
<1> QED
  BY <1>5, <1>6

----------------------------------------------------------------------------
(* The wire, and the invariance *)

\* As long as nothing is lost the frames stay in the range that is modelled.
LEMMA StoredInRange ==
  ASSUME IInv, WireInv, ~raced, receiving
  PROVE  Len(got) \in 0 .. MaxCount
<1>1. Len(got) \in Nat /\ rxIndex \in 0 .. MaxCount /\ size \in 0 .. MaxCount
  BY DEF IInv, TypeOK, CallTypeOK, HistoryTypeOK
<1>2. CASE owed /\ pc["fg"] = "arm"
  BY <1>1, <1>2, BlockAssumption DEF IInv, Ledger
<1>3. CASE owed /\ pc["fg"] # "arm"
  <2>1. InStep /\ (op # "tx" \/ pollingCall)
    BY <1>3 DEF IInv, Ledger, receiving
  <2>2. ~pollingCall
    BY <1>3 DEF IInv, Attribution
  <2>3. Len(got) = rxBuf - 1 /\ rxBuf <= size + 1
    BY <2>1, <2>2 DEF InStep
  <2>4. rxBuf \in 0 .. PastEnd
    BY DEF IInv, TypeOK, MemberTypeOK
  <2> QED
    BY <1>1, <2>3, <2>4, BlockAssumption DEF PastEnd
<1>4. CASE ~owed
  BY <1>1, <1>4 DEF receiving, WireInv, Incoming
<1> QED
  BY <1>2, <1>3, <1>4

\* A frame takes the word that waits for it onto the wire, and one that ends leaves its
\* word in DR or shows an overrun.
LEMMA BlockWire ==
  ASSUME IInv, WireInv, BlockActs
  PROVE  WireInv'
<1> USE DEF WireInv, Outgoing, Incoming
<1>1. /\ UNCHANGED <<system, mode, op, txBuf, txIndex, rxIndex, got, owed, clean, raced, call, pc,
                     found, ovrSeq>>
      /\ pollingCall' = pollingCall /\ receiving' = receiving /\ overrunFound' = overrunFound
      /\ \A kind : Fits(kind)' <=> Fits(kind)
  <2>1. UNCHANGED <<system, mode, op, txBuf, txIndex, rxIndex, got, owed, clean, raced, call, pc,
                    found, ovrSeq>>
    BY DEF BlockActs, BlockStep, FrameStart, FrameEnd, FrameError, ClearFrameError, memberVars,
       callVars, historyVars, rxVars
  <2> QED
    BY <2>1 DEF pollingCall, receiving, Receives, overrunFound, Fits, isTransmitMode, HasExtension
<1>2. BlockTypeOK /\ Len(sent) \in Nat
  BY DEF IInv, TypeOK, BlockTypeOK
<1>3. CASE UNCHANGED <<rxb, ovr, txb, sent, arrived>>
  BY <1>1, <1>3 DEF Written, Held, Sends, Receives
<1>4. CASE FrameStart /\ on[TxBlock]
  <2>1. UNCHANGED <<rxb, ovr, arrived>> /\ txb' = Empty /\ Held(txb)' = 0
    BY <1>4 DEF FrameStart, rxVars, Held
  <2>2. ~raced => sent' = NumberedTo(Len(sent')) /\ Written' = Written
    <3> SUFFICES ASSUME ~raced PROVE sent' = NumberedTo(Len(sent')) /\ Written' = Written
      OBVIOUS
    <3>1. CASE txb \in {Empty, Stale}
      BY <1>4, <2>1, <3>1 DEF FrameStart, Written, Held
    <3>2. CASE txb = Len(sent) + 1 /\ txb \notin {Empty, Stale}
      <4>1. ~(Len(sent) >= FrameCap)
        <5>1. txb \in Slot /\ FrameCap \in Nat
          BY <1>2, BlockAssumption DEF BlockTypeOK, FrameCap
        <5> QED
          BY <1>2, <3>2, <5>1 DEF Slot, Empty, Stale
      <4>2. sent' = Append(sent, Len(sent) + 1)
        BY <1>4, <3>2, <4>1 DEF FrameStart
      <4>3. sent' = NumberedTo(Len(sent) + 1) /\ Len(sent') = Len(sent) + 1
        <5>1. sent = NumberedTo(Len(sent))
          BY <3>2
        <5> HIDE DEF WireInv, Outgoing, Incoming
        <5>2. \A n \in Nat : Append(NumberedTo(n), n + 1) = NumberedTo(n + 1)
          BY NumberedProperties
        <5>3. \A n \in Nat : Len(NumberedTo(n + 1)) = n + 1
          BY NumberedProperties
        <5> QED
          BY <1>2, <4>2, <5>1, <5>2, <5>3
      <4> QED
        BY <1>2, <2>1, <3>2, <4>3 DEF Written, Held
    <3> QED
      BY <3>1, <3>2
  <2>3. Outgoing'
    BY <1>1, <2>1, <2>2 DEF Sends, Empty, Stale
  <2>4. Incoming'
    BY <1>1, <2>1 DEF Held, Receives
  <2> QED
    BY <2>3, <2>4
<1>5. CASE FrameEnd /\ on[RxBlock]
  <2>1. /\ UNCHANGED <<txb, sent>> /\ ovr' = (ovr \/ rxb # Empty)
        /\ arrived' = (IF arrived < FrameCap THEN arrived + 1 ELSE arrived)
        /\ rxb' = (IF rxb = Empty /\ ~ovr THEN arrived' ELSE rxb)
    BY <1>5 DEF FrameEnd, txVars
  <2>2. Outgoing'
    BY <1>1, <2>1 DEF Written, Held, Sends
  <2>3. ovrSeq' => ovr'
    BY <1>1, <2>1
  <2>4. arrived \in 0 .. FrameCap /\ arrived' \in Nat
    BY <1>2, <2>1 DEF BlockTypeOK, FrameCap
  <2>5. ~raced => \A c \in Contexts : pc'[c] \in {"read", "take"} => rxb' # Empty
    BY <1>1, <2>1, <2>4 DEF Empty
  <2>6. ASSUME ~raced, clean, receiving, ~overrunFound
        PROVE  /\ rxb' \in {Empty, Len(got) + 1}
               /\ ~ovr' => arrived' = Len(got) + Held(rxb)'
    <3>1. Len(got) \in 0 .. MaxCount
      BY <2>6, StoredInRange
    <3>2. CASE rxb = Empty /\ ~ovr
      <4>1. arrived = Len(got)
        BY <2>6, <3>1, <3>2 DEF Held
      <4>2. arrived' = Len(got) + 1 /\ rxb' = Len(got) + 1
        BY <2>1, <3>1, <3>2, <4>1, BlockAssumption DEF FrameCap
      <4> QED
        BY <3>1, <4>2 DEF Held, Empty, Stale
    <3>3. CASE ~(rxb = Empty /\ ~ovr)
      BY <2>1, <2>6, <3>3
    <3> QED
      BY <3>2, <3>3
  <2>7. Incoming'
    BY <1>1, <2>3, <2>5, <2>6 DEF Receives
  <2> QED
    BY <2>2, <2>7
<1> QED
  BY <1>3, <1>4, <1>5 DEF BlockActs, BlockStep, FrameStart, FrameEnd, FrameError, ClearFrameError,
     rxVars, txVars

\* Every step keeps the words in order.
LEMMA NextWire ==
  ASSUME IInv, WireInv, [Next]_vars
  PROVE  WireInv'
<1>1. CASE BlockActs
  BY <1>1, BlockWire
<1>2. CASE AppCall
  BY <1>2, StartWire, EndWire, QuietWire DEF AppCall
<1>3. CASE CallStep
  <2>1. CASE Arm
    BY <2>1, ArmWire
  <2>2. CASE LoadCr2 \/ CountPrimed
    BY <2>2, QuietWire
  <2>3. CASE StoreCr2 /\ pc'["fg"] = "write"
    BY <2>3, ReadyToPrime
  <2>4. CASE StoreCr2 /\ pc'["fg"] # "write"
    BY <2>4, QuietWire
  <2>5. CASE WriteWord("fg")
    BY <2>5, WriteWire DEF Contexts
  <2> QED
    BY <1>3, <2>1, <2>2, <2>3, <2>4, <2>5 DEF CallStep
<1>4. CASE PollStep
  <2>1. pc["fg"] \in {"overrun", "underrun"} => pollingCall
    BY DEF pollingCall, Capturing
  <2>2. CASE CheckOverrun("fg")
    <3>1. pc["fg"] = "overrun" /\ "fg" \in Contexts
      BY <2>2 DEF CheckOverrun, Contexts
    <3> QED
      BY <2>1, <2>2, <3>1, OverrunWire
  <2>3. CASE PollVerdict
    <3>1. pc["fg"] = "underrun"
      BY <2>3 DEF PollVerdict, Verdict
    <3> QED
      BY <2>1, <2>3, <3>1, PollTestWire
  <2> QED
    BY <1>4, <2>2, <2>3, PollTestWire, PollPutWire, PollTakeWire DEF PollStep
<1>5. CASE PollTimeout \/ FlushStep
  BY <1>5, EndWire
<1>6. ASSUME NEW h \in Handlers, IsrEnter(h) \/ IsrStep(h) PROVE WireInv'
  <2>1. h \in Contexts /\ h # "fg"
    BY DEF Contexts, Handlers
  <2>2. CASE CheckOverrun(h)
    BY <2>1, <2>2, OverrunWire
  <2>3. CASE WriteWord(h)
    BY <2>1, <2>3, WriteWire
  <2>4. CASE IsrVerdict(h) \/ IsrTx(h) \/ IsrRx(h)
    BY <2>4, IsrTestWire
  <2>5. CASE IsrRead(h)
    BY <2>5, IsrReadWire
  <2>6. CASE IsrFail(h) \/ IsrComplete(h)
    BY <2>6, EndWire
  <2>7. CASE \/ IsrEnter(h) \/ IsrCheckBusy(h) \/ CountWritten(h) \/ CountRead(h)
             \/ IsrDone(h) \/ IsrDisable(h) \/ IsrReturn(h)
    BY <2>7, QuietWire
  <2> QED
    BY <1>6, <2>2, <2>3, <2>4, <2>5, <2>6, <2>7 DEF IsrStep
<1>7. CASE UNCHANGED vars
  BY <1>7, QuietWire
<1>8. CASE CancelStep
  BY <1>8, QuietWire, EndWire DEF CancelStep
<1> QED
  BY <1>1, <1>2, <1>3, <1>4, <1>5, <1>6, <1>7, <1>8 DEF Next

\* A polling call that has not returned has not been reported an error, and nobody else
\* changes the state.
PollsAreBusy == ~raced /\ pollingCall => isBusy

LEMMA PollingIsBusy ==
  ASSUME IInv, PollsAreBusy, [Next]_vars
  PROVE  PollsAreBusy'
<1> SUFFICES ASSUME ~raced', pollingCall' PROVE isBusy'
  BY DEF PollsAreBusy
<1> USE DEF PollsAreBusy, isBusy, pollingCall, Polling, Capturing
<1>1. CASE BlockActs \/ UNCHANGED vars
  BY <1>1 DEF BlockActs, BlockStep, FrameStart, FrameEnd, FrameError, ClearFrameError, memberVars,
     callVars, historyVars, vars
<1>2. CASE AppCall
  <2>1. ASSUME NEW kind \in PollKinds \cap Calls, NEW n \in Counts, StartPoll(kind, n)
        PROVE  isBusy'
    BY <2>1 DEF StartPoll, BusyState
  <2>2. ASSUME NEW kind \in AsyncKinds \cap Calls, NEW n \in Counts, Start(kind, n)
        PROVE  FALSE
    <3>1. pc'["fg"] = "arm"
      BY <2>2, ContextMoves DEF Start, Contexts
    <3> QED
      BY <3>1
  <2>3. CASE Configure \/ Refuse \/ ClearError \/ ClearOverrun \/ ClearUnderrun \/ SetEnable
    BY <2>3 DEF Configure, Refuse, ClearError, ClearOverrun, ClearUnderrun, SetEnable, MayCall,
       callVars, Contexts
  <2>4. CASE FlushStart \/ Cancel
    <3>1. pc'["fg"] \in {"flush", "cancelLoad"}
      BY <2>4, ContextMoves DEF FlushStart, Cancel, Contexts
    <3> QED
      BY <3>1
  <2> QED
    BY <1>2, <2>1, <2>2, <2>3, <2>4 DEF AppCall
<1>3. CASE CallStep \/ CancelStep \/ FlushStep
  <2>1. PICK label \in {"idle", "arm", "load", "store", "write", "count", "flush", "drop",
                       "cancelLoad", "cancelStore", "forget"} :
          Goto("fg", label)
    <3>1. CASE StoreCr2
      BY <3>1 DEF StoreCr2, StartReturn
    <3>2. CASE ~StoreCr2
      BY <1>3, <3>2 DEF CallStep, FlushStep, Arm, LoadCr2, WriteWord, CountPrimed, StartReturn,
         FlushCheck, FlushDrop, CancelStep, CancelLoad, CancelStore, CancelForget
    <3> QED
      BY <3>1, <3>2
  <2>2. pc'["fg"] = label
    BY <2>1, ContextMoves DEF Contexts
  <2> QED
    BY <2>2
<1>4. CASE PollStep \/ PollTimeout
  <2>1. PICK label : Goto("fg", label) /\ (label # "idle" => st' = st) /\ raced' = raced /\ pollingCall
    BY <1>4 DEF PollStep, PollTimeout, PollWait, PollReturn, PollGoto, PollUnchanged, PollPut, PollTake,
       CheckOverrun, PollVerdict, Verdict, memberVars, historyVars, Waits
  <2>2. pc'["fg"] = label
    BY <2>1, ContextMoves DEF Contexts
  <2> QED
    BY <2>1, <2>2
<1>5. ASSUME NEW h \in Handlers, IsrEnter(h) \/ IsrStep(h) PROVE isBusy'
  <2>1. \E label : Goto(h, label)
    BY <1>5 DEF IsrEnter, IsrStep, IsrCheckBusy, CheckOverrun, IsrVerdict, Verdict, IsrFail, IsrTx,
       WriteWord, CountWritten, IsrRx, IsrRead, CountRead, IsrDone, IsrDisable, IsrComplete, IsrReturn
  <2>2. pc'["fg"] = pc["fg"] /\ h \in Contexts
    BY <2>1, ContextMoves DEF Contexts, Handlers
  <2>3. ~raced
    <3>1. raced' = raced \/ raced' = (raced \/ startingCall)
      BY <1>5 DEF IsrEnter, IsrStep, IsrCheckBusy, CheckOverrun, IsrVerdict, Verdict, IsrFail, IsrTx,
         WriteWord, CountWritten, IsrRx, IsrRead, CountRead, IsrDone, IsrDisable, IsrComplete,
         IsrReturn, historyVars
    <3> QED
      BY <3>1
  <2>4. pc[h] = "idle"
    BY <2>2, <2>3 DEF IInv, Attribution, HandlersIdle
  <2> QED
    BY <1>5, <2>2, <2>3, <2>4 DEF IsrEnter, IsrStep, IsrCheckBusy, CheckOverrun, IsrVerdict, Verdict,
       IsrFail, IsrTx, WriteWord, CountWritten, IsrRx, IsrRead, CountRead, IsrDone, IsrDisable,
       IsrComplete, IsrReturn, memberVars
<1> QED
  BY <1>1, <1>2, <1>3, <1>4, <1>5 DEF Next

----------------------------------------------------------------------------
(* The results *)

\* WireInv is an invariant of every orderly system.
THEOREM WireInvariance == ASSUME Orderly PROVE Spec => [](IInv /\ WireInv)
<1>1. Init => WireInv
  BY InitWire
<1>2. IInv /\ WireInv /\ [Next]_vars => WireInv'
  BY NextWire
<1> QED
  BY <1>1, <1>2, Invariance, PTL DEF Spec

\* The words of an operation go onto the wire in order, none twice and none skipped,
\* though the start call and the handlers of two interrupts write them
\* (i2s_driver.hpp:389, 400, 436, 452, 475).
THEOREM WordsInOrder == ASSUME Orderly PROVE Spec => []WireOrder
<1>1. WireInv => WireOrder
  BY DEF WireInv, Outgoing, WireOrder
<1> QED
  BY <1>1, WireInvariance, PTL

\* The completion callback of an operation that began on silent blocks finds every frame
\* in the receive buffer, in order, and every word to send on the wire or in DR
\* (i2s_driver.hpp:490-498).
THEOREM CompletionIsExact == ASSUME Orderly PROVE Spec => CompletedTransferIsExact
<1> DEFINE Complete ==
      \A h \in Handlers : IsrComplete(h) /\ clean /\ ~raced =>
        /\ op \in {"rx", "transfer"} => got = NumberedTo(size)
        /\ op \in {"tx", "transfer"} => Len(sent) + (IF txb = Empty THEN 0 ELSE 1) = size
<1>1. ASSUME IInv, WireInv, NEW h \in Handlers, IsrComplete(h), clean, ~raced
      PROVE  /\ op \in {"rx", "transfer"} => got = NumberedTo(size)
             /\ op \in {"tx", "transfer"} => Len(sent) + (IF txb = Empty THEN 0 ELSE 1) = size
  <2>1. pc[h] = "complete" /\ h \in Contexts /\ h # "fg"
    BY <1>1 DEF IsrComplete, Contexts, Handlers
  <2>2. owed /\ ~pollingCall /\ InStep /\ pc["fg"] # "arm"
    BY <1>1, <2>1, Acting
  <2>3. txRem = 0 /\ rxRem = 0 /\ ~startingCall
    BY <1>1, <2>1 DEF IInv, Attribution, AllDone
  <2>4. \A k \in Handlers \ {h} : pc[k] = "idle"
    BY <1>1, <2>1 DEF IInv, Scheduling
  <2>5. ~Between({"count"}) /\ ~Between({"countRx"})
    BY <1>1, <2>1, <2>3, <2>4
       DEF Between, Contexts, Handlers, startingCall, Starting, IInv, TypeOK, CallTypeOK, FgLabels,
           Polling, Capturing, Cancelling
  <2>6. size \in Nat /\ txBuf \in Nat /\ rxBuf \in Nat /\ Len(sent) \in Nat
    BY <1>1 DEF IInv, TypeOK, MemberTypeOK, HistoryTypeOK, BlockTypeOK
  <2>7. ASSUME op \in {"rx", "transfer"} PROVE got = NumberedTo(size)
    <3>1. rxBuf = size + 1 /\ Len(got) = rxBuf - 1
      BY <2>2, <2>3, <2>5, <2>6, <2>7 DEF InStep
    <3>2. receiving
      BY <2>2, <2>7 DEF receiving
    <3> QED
      BY <1>1, <2>6, <3>1, <3>2 DEF WireInv, Incoming
  <2>8. ASSUME op \in {"tx", "transfer"}
        PROVE  Len(sent) + (IF txb = Empty THEN 0 ELSE 1) = size
    <3>1. txBuf = size + 1
      BY <2>2, <2>3, <2>5, <2>6, <2>8 DEF InStep
    <3>2. Written = size /\ txb # Stale
      BY <1>1, <2>2, <2>6, <2>8, <3>1 DEF WireInv, Outgoing
    <3> QED
      BY <3>2 DEF Written, Held
  <2> QED
    BY <2>7, <2>8
<1>2. IInv /\ WireInv /\ [Next]_vars => [Complete]_vars
  BY <1>1
<1>3. Spec => [][Complete]_vars
  BY <1>2, WireInvariance, PTL DEF Spec
<1> QED
  BY <1>3 DEF CompletedTransferIsExact

\* A polling call that succeeds on silent blocks has stored the first frames of the wire
\* and put every word to send onto it (i2s_driver.hpp:173-319).
THEOREM PollingIsExact == ASSUME Orderly PROVE Spec => PolledTransferIsExact
<1> DEFINE Succeed == PollStep /\ st' = "ready" /\ clean /\ ~raced =>
                        /\ Receives => got = NumberedTo(call.n)
                        /\ Sends => sent = NumberedTo(call.n)
<1>1. ASSUME IInv, WireInv, PollsAreBusy, PollStep, st' = "ready", clean, ~raced
      PROVE  (Receives => got = NumberedTo(call.n)) /\ (Sends => sent = NumberedTo(call.n))
  <2>1. pollingCall /\ isBusy /\ st # "ready"
    BY <1>1 DEF PollStep, PollWait, PollPut, PollTake, CheckOverrun, PollVerdict, Verdict, Waits,
       pollingCall, Polling, Capturing, PollsAreBusy, isBusy
  <2>2. \/ pc["fg"] = "silence"
        \/ Last /\ ~Sends
    BY <1>1, <2>1 DEF PollStep, PollWait, PollGoto, PollPut, PollTake, CheckOverrun, PollVerdict,
       Verdict, memberVars
  <2>3. Last
    BY <1>1, <2>1, <2>2 DEF IInv, IndicesInStep
  <2>4. /\ txIndex \in Nat /\ rxIndex \in Nat /\ call.n \in Nat /\ Len(sent) \in Nat
        /\ txIndex <= call.n /\ rxIndex <= call.n
    BY <1>1, <2>1 DEF IInv, IndicesInStep, TypeOK, CallTypeOK, BlockTypeOK
  <2>5. ASSUME Receives PROVE got = NumberedTo(call.n)
    <3>1. rxIndex = call.n
      BY <2>3, <2>4, <2>5 DEF Last
    <3>2. Len(got) = rxIndex /\ receiving
      BY <1>1, <2>1, <2>5 DEF WireInv, Incoming, receiving
    <3> QED
      BY <1>1, <3>1, <3>2 DEF WireInv, Incoming
  <2>6. ASSUME Sends PROVE sent = NumberedTo(call.n)
    <3>1. txIndex = call.n
      BY <2>3, <2>4, <2>6 DEF Last
    <3>2. txb = Empty /\ Written = txIndex /\ sent = NumberedTo(Len(sent))
      BY <1>1, <2>1, <2>2, <2>6 DEF WireInv, Outgoing
    <3>3. Len(sent) = txIndex
      BY <2>4, <3>2 DEF Written, Held
    <3> QED
      BY <3>1, <3>2, <3>3
  <2> QED
    BY <2>5, <2>6
<1>2. Init => PollsAreBusy
  BY DEF Init, PollsAreBusy, pollingCall, Polling, Capturing, Contexts
<1>3. IInv /\ PollsAreBusy /\ [Next]_vars => PollsAreBusy'
  BY PollingIsBusy
<1>4. Spec => []PollsAreBusy
  BY <1>2, <1>3, Invariance, PTL DEF Spec
<1>5. IInv /\ WireInv /\ PollsAreBusy /\ [Next]_vars => [Succeed]_vars
  BY <1>1
<1>6. Spec => [][Succeed]_vars
  BY <1>4, <1>5, WireInvariance, PTL DEF Spec
<1> QED
  BY <1>6 DEF PolledTransferIsExact
=============================================================================
