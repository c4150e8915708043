-------------------------- MODULE I2sDriverProofs --------------------------
(***************************************************************************)
(* Proofs about I2sDriver for every buffer length, with and without frame  *)
(* errors, and for every board and application that is Orderly: no handler *)
(* preempts the other one, and a transfer is only started with interrupts  *)
(* masked.  IInv (module I2sDriver) holds initially and is kept by every   *)
(* action; the safety properties follow from it.                           *)
(***************************************************************************)
EXTENDS I2sDriver, SequenceTheorems, TLAPS

----------------------------------------------------------------------------
(* The initial state *)

\* The members of a new driver (i2s_driver.hpp:504-512) over blocks after reset satisfy
\* the inductive invariant.
LEMMA InitEstablishes == Init => IInv
<1> SUFFICES ASSUME Init PROVE IInv
  OBVIOUS
<1> USE BlockAssumption DEF Init
<1>1. BlockTypeOK
  <2>1. txb \in Slot /\ rxb \in Slot /\ mode \in ModeSet
    BY DEF BlockInit, Slot, ModeSet
  <2>2. on \in [Blocks -> BOOLEAN] /\ ie \in [Blocks -> SUBSET Enables] /\ fre \subseteq Blocks
    BY DEF BlockInit
  <2>3. sent \in Seq(0 .. FrameCap) /\ Len(sent) <= FrameCap
    BY DEF BlockInit, FrameCap
  <2>4. arrived \in 0 .. FrameCap /\ dry \in 0 .. FrameCap
    BY DEF BlockInit, FrameCap
  <2> QED
    BY <2>1, <2>2, <2>3, <2>4 DEF BlockInit, BlockTypeOK
<1>2. MemberTypeOK
  BY DEF MemberTypeOK, States, Null, PastEnd, Huge
<1>3. CallTypeOK
  BY DEF CallTypeOK, NoCall, FgLabels, IsrLabels, Contexts, Handlers
<1>4. HistoryTypeOK
  <2>1. size \in 0 .. MaxCount
    OBVIOUS
  <2>2. got \in Seq(0 .. FrameCap)
    OBVIOUS
  <2> QED
    BY <2>1, <2>2 DEF HistoryTypeOK
<1>5. \A c \in Contexts : pc[c] = "idle"
  OBVIOUS
<1>6. pc["fg"] = "idle" /\ HandlersIdle
  BY <1>5 DEF HandlersIdle, Contexts
<1>7. Scheduling /\ IndicesInStep /\ Attribution
  BY <1>6 DEF Scheduling, IndicesInStep, Attribution, HandlersIdle, startingCall, Starting,
     pollingCall, Polling, Capturing, BlockInit, isBusy
<1>8. CountersInStep
  BY <1>6 DEF CountersInStep, HandlersIdle, startingCall, Starting, priming, Huge
<1>9. Ledger /\ Enabled
  BY <1>6 DEF Ledger, Enabled, startingCall, Starting, cancelling, Cancelling, BlockInit
<1> QED
  BY <1>1, <1>2, <1>3, <1>4, <1>7, <1>8, <1>9 DEF IInv, TypeOK

----------------------------------------------------------------------------
(* Steps that leave the operation alone *)

\* What a cancel disables, and in which order, depends on the board only.
LEMMA OrderStays ==
  ASSUME system' = system
  PROVE  /\ DisableOrder' = DisableOrder
         /\ at' = at => \A b : DisabledSoFar(b)' = DisabledSoFar(b)
<1>1. DisableOrder' = DisableOrder
  BY DEF DisableOrder, HasExtension
<1> QED
  BY <1>1 DEF DisabledSoFar

\* Nothing the invariant speaks of changes but what the blocks hold.
LEMMA OnlookingKeeps ==
  ASSUME IInv, BlockTypeOK', MemberTypeOK',
         UNCHANGED <<system, mode, ie, op, txBuf, rxBuf, txRem, rxRem, callVars, historyVars>>,
         isBusy' <=> isBusy, HandlersIdle \/ st' = st
  PROVE  IInv'
<1> USE DEF IInv, TypeOK, callVars, historyVars
<1>1. CallTypeOK' /\ HistoryTypeOK'
  BY DEF CallTypeOK, HistoryTypeOK
<1>2. Scheduling' /\ CountersInStep' /\ IndicesInStep'
  BY OrderStays DEF Scheduling, CountersInStep, IndicesInStep, startingCall, HandlersIdle,
     priming, pollingCall, Sends, Receives, Last
<1>3. Attribution'
  BY DEF Attribution, startingCall, cancelling, pollingCall, HandlersIdle, AllDone
<1>4. Ledger'
  BY DEF Ledger, Armed, InStep, Fits, Between, startingCall, HasExtension, isTransmitMode
<1>5. /\ EnableOrder' = EnableOrder /\ Stored' = Stored
      /\ \A b \in Blocks : Awaited(b)' = Awaited(b)
  BY DEF EnableOrder, DataInterrupt, Stored, priming, TxBlock, RxBlock, Awaited, TxOf, RxOf,
     Duplex, isTransmitMode
<1>6. \A b \in Blocks : EnabledSoFar(b)' = EnabledSoFar(b)
  BY <1>5 DEF EnabledSoFar
<1>7. Enabled'
  BY <1>5, <1>6, OrderStays DEF Enabled, startingCall, cancelling, HasExtension
<1> QED
  BY <1>1, <1>2, <1>3, <1>4, <1>7

\* A step of the application after which no operation is in progress: the invariant says
\* little then.
LEMMA CallingKeeps ==
  ASSUME IInv, TypeOK', IndicesInStep', system' = system,
         HandlersIdle, \A h \in Handlers : pc'[h] = pc[h],
         txRem' \in {0, txRem}, rxRem' \in {0, rxRem},
         pc'["fg"] \in {"idle", "flush", "drop"} \cup Polling \cup Capturing,
         ~raced' => ~owed' /\ \A b \in Blocks : ie'[b] = {},
         ~raced' => (isBusy' => pollingCall')
  PROVE  IInv'
<1> USE DEF IInv
<1>1. HandlersIdle' /\ ~startingCall' /\ ~cancelling'
  BY DEF HandlersIdle, startingCall, Starting, cancelling, Cancelling, Polling, Capturing
<1>2. Scheduling'
  BY <1>1 DEF Scheduling, HandlersIdle
<1>3. CountersInStep'
  BY <1>1, BlockAssumption
     DEF CountersInStep, HandlersIdle, startingCall, Starting, cancelling, Cancelling, priming, Huge
<1>4. Attribution'
  BY <1>1 DEF Attribution, HandlersIdle, startingCall, Starting
<1>5. Ledger'
  BY DEF Ledger
<1>6. Enabled'
  BY <1>1 DEF Enabled
<1> QED
  BY <1>2, <1>3, <1>4, <1>5, <1>6

\* A step of a handler that moves no word and counts none
LEMMA HandlerMoves ==
  ASSUME IInv, NEW h \in Handlers, NEW label \in IsrLabels, BlockTypeOK', MemberTypeOK',
         UNCHANGED <<system, mode, ie, op, txBuf, rxBuf, txRem, rxRem, call, at, cr2, txIndex,
                     rxIndex, historyVars>>,
         found' \in [Contexts -> SUBSET {"overrun"}],
         Goto(h, label), pc[h] \in {"entry", "overrun", "underrun", "tx", "rx", "done", "callback"},
         label \notin {"count", "countRx", "complete", "callback"},
         label = "write" => txRem > 0,
         label = "read" => rxRem > 0,
         label = "idle" => pc[h] = "callback" \/ raced \/ ~owed \/ ~AllDone,
         label \in Uncounted \ {"idle"} => pc[h] \in Uncounted,
         pc[h] = "callback" => label = "idle",
         label = "disable" => AllDone,
         IF label = "fail" THEN st' = "error" ELSE st' = st,
         ~raced /\ label # "idle" => owed
  PROVE  IInv'
<1> USE DEF IInv, TypeOK, historyVars
<1>1. /\ pc' = [pc EXCEPT ![h] = label] /\ pc'["fg"] = pc["fg"] /\ pc'[h] = label
      /\ \A k \in Handlers \ {h} : pc'[k] = pc[k]
      /\ \A k \in Handlers \ {h} : pc[k] = "idle"
  BY DEF Goto, CallTypeOK, Contexts, Handlers, Scheduling
<1>2. CallTypeOK' /\ HistoryTypeOK'
  BY <1>1 DEF CallTypeOK, HistoryTypeOK, Contexts
<1>3. Scheduling'
  BY <1>1 DEF Scheduling, startingCall, HandlersIdle
<1>4. CountersInStep' /\ IndicesInStep'
  BY <1>1, OrderStays DEF CountersInStep, IndicesInStep, startingCall, priming, pollingCall,
     Sends, Receives, Last
<1>5. Attribution'
  BY <1>1 DEF Attribution, startingCall, cancelling, pollingCall, HandlersIdle, AllDone, isBusy
<1>6. Ledger'
  BY <1>1 DEF Ledger, Armed, InStep, Fits, Between, startingCall, HasExtension,
     isTransmitMode, Contexts
<1>7. /\ EnableOrder' = EnableOrder /\ Stored' = Stored
      /\ \A b \in Blocks : Awaited(b)' = Awaited(b)
  BY <1>1 DEF EnableOrder, DataInterrupt, Stored, priming, TxBlock, RxBlock, Awaited, TxOf, RxOf,
     Duplex, isTransmitMode
<1>8. \A b \in Blocks : EnabledSoFar(b)' = EnabledSoFar(b)
  BY <1>7 DEF EnabledSoFar
<1>9. ASSUME ~raced, startingCall, pc["fg"] # "arm", \A k \in Handlers : pc'[k] \in Uncounted
      PROVE  txRem > 0 \/ rxRem > 0
  <2>1. owed /\ op \in AsyncKinds /\ pc[h] # "callback"
    BY <1>9 DEF Attribution, Ledger, InStep
  <2>2. CASE label = "idle"
    BY <1>9, <2>1, <2>2 DEF AllDone, MemberTypeOK, AsyncKinds
  <2>3. CASE label # "idle"
    <3>1. \A k \in Handlers : pc[k] \in Uncounted
      BY <1>1, <1>9, <2>3 DEF Uncounted
    <3> QED
      BY <1>9, <3>1 DEF Enabled
  <2> QED
    BY <2>2, <2>3
<1>10. Enabled'
  <2>1. (\A k \in Handlers : pc'[k] # "complete") <=> (\A k \in Handlers : pc[k] # "complete")
    BY <1>1
  <2> QED
    BY <1>1, <1>7, <1>8, <1>9, <2>1, OrderStays
       DEF Enabled, startingCall, cancelling, HasExtension
<1> QED
  BY <1>2, <1>3, <1>4, <1>5, <1>6, <1>10

----------------------------------------------------------------------------
(* The blocks, and the calls that start no operation *)

\* The application runs when no handler does.
LEMMA FgRuns == ASSUME MayCall \/ Runs("fg") PROVE HandlersIdle
BY DEF MayCall, Runs, Above, HandlersIdle, Contexts, Handlers

\* An idle driver owes nothing and, unless a cancel is on its way, has enabled nothing.
LEMMA IdleOwesNothing ==
  ASSUME IInv, ~raced, HandlersIdle, ~isBusy
  PROVE  ~owed /\ (~cancelling => \A b \in Blocks : ie[b] = {})
BY DEF IInv, Attribution, HandlersIdle

\* What the blocks do by themselves (module I2sBlock)
LEMMA BlockKeeps ==
  ASSUME IInv, BlockActs
  PROVE  IInv'
<1> USE BlockAssumption DEF IInv, TypeOK, BlockActs
<1>1. MemberTypeOK' /\ (isBusy' <=> isBusy) /\ st' = st
  BY DEF MemberTypeOK, memberVars, historyVars, isBusy
<1>2. UNCHANGED <<mode, ie>>
  BY DEF BlockStep, FrameStart, FrameEnd, FrameError, ClearFrameError
<1>3. CASE FrameStart
  <2>0. FrameCap \in Nat /\ Len(sent) \in 0 .. FrameCap /\ txb \in Slot
    BY DEF BlockTypeOK, FrameCap
  <2>1. sent' \in Seq(0 .. FrameCap) /\ Len(sent') <= FrameCap
    <3>1. CASE sent' = sent
      BY <3>1 DEF BlockTypeOK
    <3>2. CASE sent' = Append(sent, txb) /\ txb \in 0 .. FrameCap /\ Len(sent) < FrameCap
      BY <2>0, <3>2, AppendProperties DEF BlockTypeOK
    <3> QED
      BY <1>3, <2>0, <3>1, <3>2 DEF FrameStart, Slot, Stale
  <2>2. txb' \in Slot /\ dry' \in 0 .. FrameCap
    BY <1>3, <2>0 DEF FrameStart, BlockTypeOK, Slot
  <2>3. BlockTypeOK'
    BY <1>3, <2>1, <2>2 DEF FrameStart, BlockTypeOK, rxVars
  <2> QED
    BY <1>1, <1>2, <2>3, OnlookingKeeps DEF memberVars
<1>4. CASE FrameEnd
  <2>0. FrameCap \in Nat
    BY DEF FrameCap
  <2>1. arrived' \in 0 .. FrameCap
    BY <1>4, <2>0 DEF FrameEnd, BlockTypeOK
  <2>2. rxb' \in Slot
    BY <1>4, <2>1 DEF FrameEnd, BlockTypeOK, Slot, Stale
  <2>3. BlockTypeOK'
    BY <1>4, <2>1, <2>2 DEF FrameEnd, BlockTypeOK, txVars
  <2> QED
    BY <1>1, <1>2, <2>3, OnlookingKeeps DEF memberVars
<1>5. CASE FrameError \/ ClearFrameError
  <2>1. BlockTypeOK'
    BY <1>5 DEF FrameError, ClearFrameError, BlockTypeOK, rxVars, txVars
  <2> QED
    BY <1>1, <1>2, <2>1, OnlookingKeeps DEF memberVars
<1> QED
  BY <1>3, <1>4, <1>5 DEF BlockStep

\* clearError, clearOverrun, clearUnderrun, enable, disable, and a configure call that is
\* refused (i2s_driver.hpp:83-87, 113-130, 152-164)
LEMMA ClearKeeps ==
  ASSUME IInv, Refuse \/ ClearError \/ ClearOverrun \/ ClearUnderrun \/ SetEnable
  PROVE  IInv'
<1> USE BlockAssumption DEF IInv, TypeOK
<1>0. Refuse \/ ClearError => HandlersIdle
  BY FgRuns DEF Refuse, ClearError
<1>1. CASE Refuse \/ ClearError
  <2>1. MemberTypeOK' /\ (isBusy' <=> isBusy)
    BY <1>1 DEF Refuse, ClearError, MemberTypeOK, isBusy, States, historyVars
  <2>2. BlockTypeOK'
    BY <1>1 DEF Refuse, ClearError, BlockTypeOK, blockVars, wireVars, rxVars, txVars
  <2> QED
    BY <1>0, <1>1, <2>1, <2>2, OnlookingKeeps DEF Refuse, ClearError, blockVars
<1>2. CASE ClearOverrun \/ ClearUnderrun
  <2>1. MemberTypeOK' /\ (isBusy' <=> isBusy)
    BY <1>2 DEF ClearOverrun, ClearUnderrun, MemberTypeOK, isBusy, historyVars, memberVars
  <2>2. BlockTypeOK'
    BY <1>2 DEF ClearOverrun, ClearUnderrun, BlockTypeOK, ReadSR, Slot
  <2> QED
    BY <1>2, <2>1, <2>2, OnlookingKeeps DEF ClearOverrun, ClearUnderrun, memberVars
<1>3. CASE SetEnable
  <2>1. MemberTypeOK' /\ (isBusy' <=> isBusy)
    BY <1>3 DEF SetEnable, MemberTypeOK, isBusy, historyVars, memberVars
  <2>2. BlockTypeOK'
    BY <1>3 DEF SetEnable, BlockTypeOK, wireVars, rxVars, txVars
  <2> QED
    BY <1>3, <2>1, <2>2, OnlookingKeeps DEF SetEnable, memberVars
<1> QED
  BY <1>1, <1>2, <1>3

\* configure disables all interrupts and leaves the driver ready (i2s_driver.hpp:78-105).
LEMMA ConfigureKeeps ==
  ASSUME IInv, Configure
  PROVE  IInv'
<1> USE BlockAssumption, DriverAssumption DEF IInv, TypeOK
<1>1. BlockTypeOK'
  BY DEF Configure, BlockTypeOK, wireVars, rxVars, txVars, disableInterrupts, Scheduling
<1>2. MemberTypeOK' /\ CallTypeOK' /\ HistoryTypeOK'
  BY DEF Configure, MemberTypeOK, CallTypeOK, HistoryTypeOK, callVars, historyVars, States
<1>3. HandlersIdle /\ pc["fg"] = "idle" /\ pc' = pc
  BY FgRuns DEF Configure, MayCall, Contexts, callVars
<1>4. IndicesInStep'
  BY <1>3 DEF IndicesInStep, pollingCall, Polling, Capturing
<1>5. ~raced' => ~owed' /\ \A b \in Blocks : ie'[b] = {}
  BY <1>3, IdleOwesNothing DEF Configure, disableInterrupts, historyVars
<1>6. ~isBusy'
  BY DEF Configure, isBusy
<1> QED
  BY <1>1, <1>2, <1>3, <1>4, <1>5, <1>6, CallingKeeps DEF Configure

\* flushReceive (i2s_driver.hpp:166-171)
LEMMA FlushKeeps ==
  ASSUME IInv, FlushStart \/ FlushStep
  PROVE  IInv'
<1> USE BlockAssumption DEF IInv, TypeOK
<1>1. BlockTypeOK'
  BY DEF FlushStart, FlushStep, FlushCheck, FlushDrop, BlockTypeOK, blockVars, wireVars,
     rxVars, txVars, ReadSR, ReadDR, Slot
<1>2. MemberTypeOK' /\ HistoryTypeOK'
  BY DEF FlushStart, FlushStep, FlushCheck, FlushDrop, MemberTypeOK, HistoryTypeOK,
     memberVars, historyVars
<1>3. /\ HandlersIdle /\ pc'["fg"] \in {"idle", "flush", "drop"}
      /\ \A h \in Handlers : pc'[h] = pc[h]
      /\ pc["fg"] \in {"idle", "flush", "drop"} /\ (pc["fg"] = "idle" => ~isBusy)
  BY FgRuns DEF FlushStart, FlushStep, FlushCheck, FlushDrop, Goto, CallTypeOK, MayCall,
     Contexts, Handlers
<1>4. CallTypeOK'
  BY <1>3 DEF FlushStart, FlushStep, FlushCheck, FlushDrop, Goto, CallTypeOK, FgLabels, Contexts,
     Handlers
<1>5. IndicesInStep'
  BY <1>3 DEF IndicesInStep, pollingCall, Polling, Capturing
<1>6. UNCHANGED <<system, st, ie, owed, raced, txRem, rxRem>>
  BY DEF FlushStart, FlushStep, FlushCheck, FlushDrop, blockVars, memberVars, historyVars
<1>7. ~cancelling /\ ~pollingCall
  BY <1>3 DEF cancelling, Cancelling, pollingCall, Polling, Capturing
<1>8. ~raced' => ~owed' /\ \A b \in Blocks : ie'[b] = {}
  BY <1>3, <1>6, <1>7, IdleOwesNothing DEF Attribution
<1>9. ~raced' => ~isBusy'
  BY <1>3, <1>6, <1>7 DEF Attribution, isBusy
<1> QED
  BY <1>1, <1>2, <1>3, <1>4, <1>5, <1>6, <1>8, <1>9, CallingKeeps

----------------------------------------------------------------------------
(* Polling operations *)

\* The checks and the first members of a polling call (i2s_driver.hpp:176-185,
\* 213-222, 245-260)
LEMMA StartPollKeeps ==
  ASSUME IInv, NEW kind \in PollKinds, NEW n \in Counts, StartPoll(kind, n)
  PROVE  IInv'
<1> USE BlockAssumption DEF IInv, TypeOK
<1>1. BlockTypeOK'
  BY DEF StartPoll, BlockTypeOK, BeginHistory, AsStale, Slot, Empty, Stale, FrameCap
<1>2. MemberTypeOK'
  BY DEF StartPoll, MemberTypeOK, BeginHistory, BusyState, States, CountersInStep
<1>3. /\ HandlersIdle /\ ~isBusy /\ call' = [kind |-> kind, n |-> n] /\ n \in 1 .. MaxCount
      /\ pc' = [pc EXCEPT !["fg"] = pc'["fg"]] /\ txIndex' = 0 /\ rxIndex' = 0
      /\ \/ pc'["fg"] = "waitTx" /\ kind = "pollTx"
         \/ pc'["fg"] = "waitRx" /\ kind = "pollRx"
         \/ pc'["fg"] = "put" /\ kind = "pollTransfer"
  BY FgRuns DEF StartPoll, Counts, Goto, CallTypeOK, PollKinds, Contexts
<1>4. CallTypeOK'
  BY <1>3 DEF StartPoll, CallTypeOK, FgLabels, Polling, Contexts, Handlers
<1>5. HistoryTypeOK'
  <2>1. got' = <<>> /\ got' \in Seq(0 .. FrameCap)
    BY DEF StartPoll, BeginHistory
  <2> QED
    BY <2>1 DEF StartPoll, HistoryTypeOK, BeginHistory
<1>6. IndicesInStep'
  BY <1>3 DEF IndicesInStep, Sends, Receives, Last, PollKinds
<1>7. \A h \in Handlers : pc'[h] = pc[h]
  BY <1>3 DEF Handlers, Contexts, CallTypeOK
<1>8. ~raced' => ~owed' /\ \A b \in Blocks : ie'[b] = {}
  <2>1. ~cancelling
    BY DEF StartPoll, MayCall, Contexts, cancelling, Cancelling
  <2> QED
    BY <1>3, <2>1, IdleOwesNothing DEF StartPoll, BeginHistory, HistoryTypeOK
<1>9. pollingCall'
  BY <1>3 DEF pollingCall, Polling
<1> QED
  BY <1>1, <1>2, <1>3, <1>4, <1>5, <1>6, <1>7, <1>8, <1>9, CallingKeeps
     DEF StartPoll, Polling, TypeOK

\* What a step of a polling call leaves alone, and the invariants that follow from it
LEMMA PollingKeeps ==
  ASSUME IInv, pollingCall, Runs("fg"), BlockTypeOK', err' \subseteq err \cup found["fg"] \cup
           {"underrun"} \cup Faults,
         st' \in {st, "ready", "error"},
         NEW label \in {"idle"} \cup Polling \cup Capturing, Goto("fg", label),
         label = "idle" => st' \in {"ready", "error"},
         found' \in [Contexts -> SUBSET {"overrun"}],
         call' \in {call, NoCall}, txIndex' \in 0 .. MaxCount, rxIndex' \in 0 .. MaxCount,
         got' \in Seq(0 .. FrameCap),
         UNCHANGED <<system, ie, op, txBuf, rxBuf, txRem, rxRem, at, cr2, size, owed, clean,
                     raced>>,
         IndicesInStep'
  PROVE  IInv'
<1> USE BlockAssumption DEF IInv, TypeOK
<1>1. MemberTypeOK'
  BY DEF MemberTypeOK, States, CallTypeOK, Contexts
<1>2. CallTypeOK'
  BY DEF CallTypeOK, Goto, FgLabels, Contexts, Handlers, NoCall
<1>3. HistoryTypeOK'
  BY DEF HistoryTypeOK
<1>4. HandlersIdle /\ (\A h \in Handlers : pc'[h] = pc[h]) /\ pc'["fg"] = label
  BY FgRuns DEF Goto, CallTypeOK, Contexts, Handlers
<1>5. ~raced' => ~owed' /\ \A b \in Blocks : ie'[b] = {}
  BY DEF Attribution, pollingCall, cancelling, Cancelling, Polling, Capturing
<1>6. isBusy' => pollingCall'
  BY <1>4 DEF isBusy, pollingCall
<1> QED
  BY <1>1, <1>2, <1>3, <1>4, <1>5, <1>6, CallingKeeps

\* A wait ends, goes on or gives up (i2s_driver.hpp:520-528, 597-600).
LEMMA PollWaitKeeps ==
  ASSUME IInv, PollWait \/ PollTimeout
  PROVE  IInv'
<1> USE BlockAssumption DEF IInv, TypeOK
<1>1. BlockTypeOK'
  BY DEF PollWait, PollTimeout, PollUnchanged, BlockTypeOK, ReadSR
<1>2. PICK label \in {"idle", "put", "take"} \cup Waits :
        /\ Goto("fg", label)
        /\ label = pc["fg"] \/ (pc["fg"] # "silence" /\ label = AfterWait[pc["fg"]]) \/ label = "idle"
        /\ label # "idle" => UNCHANGED <<call, txIndex, rxIndex>>
        /\ label = "idle" => call' = NoCall /\ txIndex' = 0 /\ rxIndex' = 0 /\ st' = "ready"
  BY DEF PollWait, PollTimeout, PollGoto, PollReturn, AfterWait, Waits
<1>3. pollingCall /\ Runs("fg") /\ pc["fg"] \in Waits /\ pc'["fg"] = label
  BY <1>2 DEF PollWait, PollTimeout, pollingCall, Polling, Waits, Goto, CallTypeOK, Contexts
<1>4. IndicesInStep'
  BY <1>2, <1>3 DEF IndicesInStep, AfterWait, Waits, pollingCall, Polling, Capturing, Sends,
     Receives, Last
<1>5. /\ err' = err /\ found' = found /\ got' = got /\ st' \in {st, "ready"}
      /\ UNCHANGED <<system, ie, op, txBuf, rxBuf, txRem, rxRem, at, cr2, size, owed, clean, raced>>
  BY DEF PollWait, PollTimeout, PollUnchanged, PollGoto, PollReturn
<1> QED
  BY <1>1, <1>2, <1>3, <1>4, <1>5, PollingKeeps
     DEF CallTypeOK, HistoryTypeOK, Polling, Waits

\* A word is written (i2s_driver.hpp:192, 262-266, 274, 288).
LEMMA PollPutKeeps ==
  ASSUME IInv, PollPut
  PROVE  IInv'
<1> USE BlockAssumption DEF IInv, TypeOK
<1>1. pc["fg"] = "put" /\ pollingCall /\ Runs("fg") /\ txIndex < call.n /\ Sends
      /\ txIndex \in Nat /\ rxIndex \in Nat /\ call.n \in 0 .. MaxCount
      /\ call' = call /\ txIndex' = txIndex + 1 /\ rxIndex' = rxIndex
  BY DEF PollPut, pollingCall, Polling, IndicesInStep, CallTypeOK
<1>2. BlockTypeOK'
  <2>1. txIndex + 1 \in Slot
    BY <1>1 DEF Slot, Stale, FrameCap
  <2> QED
    BY <2>1 DEF PollPut, PollUnchanged, BlockTypeOK, WriteDR, ReadDR, Slot
<1>3. PICK label \in {"overrun", "waitTx", "waitRx"} :
        /\ Goto("fg", label) /\ pc'["fg"] = label
        /\ label = "overrun" <=> call.kind = "pollTx"
        /\ label = "waitTx" => txIndex = 0 /\ call.n > 1
  BY DEF PollPut, Goto, CallTypeOK, Contexts
<1>4. IndicesInStep'
  BY <1>1, <1>3 DEF IndicesInStep, pollingCall, Polling, Capturing, Sends, Receives, Last,
     PollKinds
<1>5. /\ err' = err /\ found' = found /\ got' = got /\ st' = st /\ txIndex' \in 0 .. MaxCount
      /\ UNCHANGED <<system, ie, op, txBuf, rxBuf, txRem, rxRem, at, cr2, size, owed, clean, raced>>
  BY <1>1 DEF PollPut, PollUnchanged
<1> QED
  BY <1>1, <1>2, <1>3, <1>4, <1>5, PollingKeeps
     DEF CallTypeOK, HistoryTypeOK, Polling, Capturing

\* A word is read (i2s_driver.hpp:229, 281, 295).
LEMMA PollTakeKeeps ==
  ASSUME IInv, PollTake
  PROVE  IInv'
<1> USE BlockAssumption DEF IInv, TypeOK
<1>1. pc["fg"] = "take" /\ pollingCall /\ Runs("fg") /\ rxIndex < call.n /\ Receives
      /\ txIndex \in Nat /\ rxIndex \in Nat /\ call.n \in 0 .. MaxCount
      /\ call' = call /\ rxIndex' = rxIndex + 1 /\ txIndex' = txIndex
      /\ Goto("fg", "overrun") /\ pc'["fg"] = "overrun"
  BY DEF PollTake, pollingCall, Polling, IndicesInStep, CallTypeOK, Goto, Contexts
<1>2. BlockTypeOK'
  BY DEF PollTake, PollUnchanged, BlockTypeOK, ReadDR, Slot
<1>3. got' \in Seq(0 .. FrameCap)
  <2>1. DataRead(RxOf("fg")) \in 0 .. FrameCap
    BY DEF DataRead, RXNE, BlockTypeOK, Slot, Stale, Empty, FrameCap
  <2> QED
    BY <2>1, AppendProperties DEF PollTake, HistoryTypeOK
<1>4. IndicesInStep'
  BY <1>1 DEF IndicesInStep, pollingCall, Polling, Capturing, Sends, Receives, Last, PollKinds
<1>5. /\ err' = err /\ found' = found /\ st' = st /\ rxIndex' \in 0 .. MaxCount
      /\ UNCHANGED <<system, ie, op, txBuf, rxBuf, txRem, rxRem, at, cr2, size, owed, clean, raced>>
  BY <1>1 DEF PollTake, PollUnchanged
<1> QED
  BY <1>1, <1>2, <1>3, <1>4, <1>5, PollingKeeps DEF CallTypeOK, Capturing

\* The error tests of any context find errors the driver knows, and read SR.
LEMMA CheckOverrunTyped ==
  ASSUME IInv, NEW c \in Contexts, CheckOverrun(c)
  PROVE  BlockTypeOK' /\ found' \in [Contexts -> SUBSET {"overrun"}]
<1> USE BlockAssumption DEF IInv, TypeOK
<1>1. BlockTypeOK'
  BY DEF CheckOverrun, BlockTypeOK, ReadSR, Slot
<1>2. found' \in [Contexts -> SUBSET {"overrun"}]
  BY DEF CheckOverrun, CallTypeOK
<1> QED
  BY <1>1, <1>2

LEMMA VerdictTyped ==
  ASSUME IInv, NEW c \in Contexts, NEW onError, NEW otherwise, Verdict(c, onError, otherwise)
  PROVE  /\ BlockTypeOK' /\ found' \in [Contexts -> SUBSET {"overrun"}]
         /\ err' \subseteq err \cup found[c] \cup {"underrun"} \cup Faults
         /\ st' \in {st, "ready", "error"}
         /\ Goto(c, onError) \/ Goto(c, otherwise)
<1> USE BlockAssumption DEF IInv, TypeOK
<1>1. BlockTypeOK'
  BY DEF Verdict, BlockTypeOK, ReadSR
<1>2. found' \in [Contexts -> SUBSET {"overrun"}]
  BY DEF Verdict, CallTypeOK
<1>3. FrameErrors(c) \subseteq Faults
  BY DEF FrameErrors, FRE, BlockTypeOK
<1> QED
  BY <1>1, <1>2, <1>3 DEF Verdict

\* captureSimpleErrors and captureFullDuplexErrors in a polling call, and its loop
\* condition (i2s_driver.hpp:194-197, 231-234, 268, 299-301, 790-855)
LEMMA PollCaptureKeeps ==
  ASSUME IInv, pollingCall, CheckOverrun("fg") \/ PollVerdict
  PROVE  IInv'
<1> USE BlockAssumption DEF IInv, TypeOK
<1>1. CASE CheckOverrun("fg")
  <2>1. /\ Goto("fg", "underrun") /\ pc'["fg"] = "underrun" /\ Runs("fg")
        /\ BlockTypeOK' /\ found' \in [Contexts -> SUBSET {"overrun"}]
    BY <1>1, CheckOverrunTyped DEF CheckOverrun, Goto, CallTypeOK, Contexts
  <2>2. UNCHANGED <<system, ie, memberVars, at, cr2, historyVars, call, txIndex, rxIndex>>
    BY <1>1 DEF CheckOverrun
  <2>3. IndicesInStep'
    <3>1. txIndex \in Nat /\ rxIndex \in Nat /\ call.n \in Nat /\ pc["fg"] = "overrun"
      BY <1>1 DEF CallTypeOK, CheckOverrun
    <3> QED
      BY <2>1, <2>2, <3>1
         DEF IndicesInStep, pollingCall, Polling, Capturing, Sends, Receives, Last
  <2> QED
    BY <2>1, <2>2, <2>3, PollingKeeps
       DEF memberVars, historyVars, CallTypeOK, HistoryTypeOK, Capturing
<1>2. CASE PollVerdict
  <2>1. PICK label \in {"idle", "drain", "waitTx", "waitRx"} :
          /\ Goto("fg", label) /\ pc'["fg"] = label
          /\ label = "drain" => Last /\ Sends
          /\ label = "waitTx" => Sends /\ txIndex < call.n
          /\ label = "waitRx" => ~(Sends /\ txIndex < call.n) /\ ~Last
          /\ label # "idle" => UNCHANGED <<call, txIndex, rxIndex>>
          /\ label = "idle" => /\ call' = NoCall /\ txIndex' = 0 /\ rxIndex' = 0
                               /\ st' \in {"ready", "error"}
    BY <1>2 DEF PollVerdict, Verdict, Goto, CallTypeOK, Contexts
  <2>2. /\ BlockTypeOK' /\ found' \in [Contexts -> SUBSET {"overrun"}]
        /\ err' \subseteq err \cup found["fg"] \cup {"underrun"} \cup Faults
        /\ st' \in {st, "ready", "error"}
    BY <1>2, VerdictTyped DEF PollVerdict, Contexts
  <2>3. Runs("fg") /\ UNCHANGED <<system, ie, op, txBuf, rxBuf, txRem, rxRem, at, cr2,
                                  historyVars>>
    BY <1>2 DEF PollVerdict, Verdict
  <2>4. IndicesInStep'
    <3>1. txIndex \in Nat /\ rxIndex \in Nat /\ call.n \in Nat
      BY DEF CallTypeOK
    <3> QED
      BY <2>1, <3>1 DEF IndicesInStep, pollingCall, Polling, Capturing, Sends, Receives, Last,
         PollKinds
  <2> QED
    BY <2>1, <2>2, <2>3, <2>4, PollingKeeps
       DEF historyVars, CallTypeOK, HistoryTypeOK, Polling
<1> QED
  BY <1>1, <1>2

----------------------------------------------------------------------------
(* onInterrupt *)

\* A handler that is not idle runs alone; the application is where it was.
LEMMA HandlerPlaces ==
  ASSUME IInv, NEW h \in Handlers, NEW label \in IsrLabels, Goto(h, label)
  PROVE  /\ pc'["fg"] = pc["fg"] /\ pc'[h] = label
         /\ \A k \in Handlers \ {h} : pc'[k] = pc[k]
         /\ pc[h] # "idle" => \A k \in Handlers \ {h} : pc[k] = "idle"
         /\ CallTypeOK /\ h # "fg"
BY DEF IInv, TypeOK, Goto, CallTypeOK, Contexts, Handlers, Scheduling

\* The processor takes an interrupt: no handler runs, nor a masked start call, and what is
\* enabled is owed or about to be cancelled.
LEMMA IsrEnterKeeps ==
  ASSUME IInv, Orderly, NEW h \in Handlers, IsrEnter(h)
  PROVE  IInv'
<1> USE BlockAssumption DEF IInv, TypeOK
<1>1. /\ pc'["fg"] = pc["fg"] /\ pc'[h] = "entry" /\ pc[h] = "idle" /\ HandlersIdle
      /\ \A k \in Handlers \ {h} : pc'[k] = "idle"
      /\ pc' \in [Contexts -> FgLabels \cup IsrLabels]
      /\ system.masked => ~startingCall
      /\ \E b \in Blocks : ie[b] # {}
  BY DEF IsrEnter, MayEnter, Goto, CallTypeOK, Contexts, Handlers, Scheduling, Orderly,
     HandlersIdle, IsrLabels, IrqLine, Blocks
<1>2. /\ UNCHANGED <<system, mode, ie, op, txBuf, rxBuf, txRem, rxRem, st, call, at, cr2, txIndex,
                     rxIndex, historyVars>>
      /\ BlockTypeOK' /\ MemberTypeOK'
  BY DEF IsrEnter, blockVars, memberVars, wireVars, rxVars, txVars, BlockTypeOK, MemberTypeOK,
     historyVars
<1>3. CallTypeOK' /\ HistoryTypeOK'
  BY <1>1, <1>2 DEF IsrEnter, CallTypeOK, HistoryTypeOK, historyVars, IsrLabels
<1>4. Scheduling'
  BY <1>1, <1>2 DEF Scheduling, startingCall, HandlersIdle
<1>5. CountersInStep' /\ IndicesInStep'
  BY <1>1, <1>2, OrderStays DEF CountersInStep, IndicesInStep, startingCall, priming,
     pollingCall, Sends, Receives, Last
<1>6. Attribution'
  <2>1. ~raced => /\ owed \/ cancelling
                  /\ pc["fg"] \notin {"arm", "flush", "drop"} /\ ~pollingCall
    BY <1>1 DEF Attribution, cancelling, Cancelling, pollingCall, Polling, Capturing
  <2> QED
    BY <1>1, <1>2, <2>1 DEF Attribution, startingCall, cancelling, pollingCall, HandlersIdle,
       AllDone, isBusy, historyVars
<1>7. Ledger'
  <2>1. Between({"count"})' = Between({"count"}) /\ Between({"countRx"})' = Between({"countRx"})
    BY <1>1 DEF Between, Contexts, HandlersIdle
  <2> QED
    BY <1>1, <1>2, <2>1 DEF Ledger, Armed, InStep, Fits, startingCall, HasExtension,
       isTransmitMode, historyVars
<1>8. /\ EnableOrder' = EnableOrder /\ Stored' = Stored
      /\ \A b \in Blocks : Awaited(b)' = Awaited(b)
  BY <1>1, <1>2 DEF EnableOrder, DataInterrupt, Stored, priming, TxBlock, RxBlock, Awaited, TxOf,
     RxOf, Duplex, isTransmitMode
<1>9. \A b \in Blocks : EnabledSoFar(b)' = EnabledSoFar(b)
  BY <1>8 DEF EnabledSoFar
<1>10. Enabled'
  <2>1. /\ \A k \in Handlers : pc'[k] # "complete" /\ pc[k] # "complete"
        /\ \A k \in Handlers : pc[k] \in Uncounted
    BY <1>1 DEF HandlersIdle, Uncounted
  <2> QED
    BY <1>1, <1>2, <1>8, <1>9, <2>1, OrderStays
       DEF Enabled, startingCall, cancelling, HasExtension, historyVars
<1> QED
  BY <1>2, <1>3, <1>4, <1>5, <1>6, <1>7, <1>10

\* The tests of the handler, and its return (i2s_driver.hpp:423-425, 435, 443, 451,
\* 459, 474, 482, 491-492)
LEMMA IsrTestKeeps ==
  ASSUME IInv, NEW h \in Handlers,
         \/ IsrCheckBusy(h) \/ CheckOverrun(h) \/ IsrTx(h) \/ IsrRx(h) \/ IsrDone(h)
         \/ IsrReturn(h)
  PROVE  IInv'
<1> USE BlockAssumption DEF IInv, TypeOK
<1>1. CASE IsrCheckBusy(h) \/ IsrReturn(h) \/ IsrDone(h)
  <2>1. PICK label \in {"overrun", "idle", "disable"} :
          /\ Goto(h, label)
          /\ label = "overrun" => pc[h] = "entry"
          /\ label = "disable" => pc[h] = "done" /\ AllDone
          /\ label = "idle" => pc[h] = "callback" \/ (pc[h] = "entry" /\ ~isBusy) \/ ~AllDone
    BY <1>1 DEF IsrCheckBusy, IsrReturn, IsrDone
  <2>2. /\ pc[h] \in {"entry", "callback", "done"}
        /\ pc[h] = "callback" => label = "idle"
        /\ UNCHANGED <<system, blockVars, memberVars, found, call, at, cr2, txIndex, rxIndex,
                       historyVars>>
    BY <1>1, <2>1 DEF IsrCheckBusy, IsrReturn, IsrDone, Goto, CallTypeOK, Contexts
  <2>3. BlockTypeOK' /\ MemberTypeOK' /\ st' = st
    BY <2>2 DEF blockVars, memberVars, wireVars, rxVars, txVars, BlockTypeOK, MemberTypeOK,
       historyVars, isBusy
  <2>4. ~raced /\ pc[h] = "entry" /\ ~isBusy => ~owed
    BY DEF Attribution, Scheduling
  <2>5. ~raced /\ label # "idle" => owed
    <3>1. label = "overrun" => isBusy
      BY <1>1, <2>1, <2>2 DEF IsrCheckBusy, IsrReturn, IsrDone, Goto, CallTypeOK, Contexts
    <3> QED
      BY <2>1, <3>1 DEF Attribution, HandlersIdle
  <2> QED
    BY <2>1, <2>2, <2>3, <2>4, <2>5, HandlerMoves
       DEF blockVars, memberVars, CallTypeOK, IsrLabels, Uncounted, Capturing
<1>2. CASE CheckOverrun(h)
  <2>1. /\ Goto(h, "underrun") /\ pc[h] = "overrun"
        /\ UNCHANGED <<system, mode, ie, memberVars, call, at, cr2, txIndex, rxIndex, historyVars>>
    BY <1>2 DEF CheckOverrun
  <2>2. MemberTypeOK'
    BY <2>1 DEF memberVars, MemberTypeOK, historyVars
  <2>3. BlockTypeOK' /\ found' \in [Contexts -> SUBSET {"overrun"}]
    BY <1>2, CheckOverrunTyped DEF Contexts
  <2>4. ~raced => owed
    BY <2>1 DEF Attribution
  <2> QED
    BY <2>1, <2>2, <2>3, <2>4, HandlerMoves DEF memberVars, IsrLabels, Uncounted, Capturing
<1>3. CASE IsrTx(h) \/ IsrRx(h)
  <2>1. PICK label \in {"write", "rx", "read", "done"} :
          /\ Goto(h, label)
          /\ label = "write" => txRem > 0
          /\ label = "read" => rxRem > 0
    BY <1>3 DEF IsrTx, IsrRx, TxWanted, RxWanted
  <2>2. /\ pc[h] \in {"tx", "rx"}
        /\ UNCHANGED <<system, mode, ie, memberVars, found, call, at, cr2, txIndex, rxIndex,
                       historyVars>>
    BY <1>3 DEF IsrTx, IsrRx
  <2>3. MemberTypeOK' /\ (~raced => owed)
    BY <2>2 DEF memberVars, MemberTypeOK, historyVars, Attribution
  <2>4. BlockTypeOK'
    BY <1>3 DEF IsrTx, IsrRx, BlockTypeOK, ReadSR
  <2> QED
    BY <2>1, <2>2, <2>3, <2>4, HandlerMoves
       DEF memberVars, IsrLabels, Uncounted, Capturing, CallTypeOK
<1> QED
  BY <1>1, <1>2, <1>3

\* What captureSimpleErrors or captureFullDuplexErrors found decides where the handler goes.
LEMMA IsrVerdictKeeps ==
  ASSUME IInv, NEW h \in Handlers, IsrVerdict(h)
  PROVE  IInv'
<1> USE BlockAssumption DEF IInv, TypeOK
<1>1. /\ BlockTypeOK' /\ found' \in [Contexts -> SUBSET {"overrun"}]
      /\ err' \subseteq err \cup found[h] \cup {"underrun"} \cup Faults
      /\ pc[h] = "underrun"
      /\ UNCHANGED <<system, mode, ie, op, txBuf, rxBuf, txRem, rxRem, call, at, cr2, txIndex,
                     rxIndex, historyVars>>
  BY VerdictTyped DEF IsrVerdict, Verdict, Contexts
<1>2. /\ \/ Goto(h, "fail") /\ st' = "error"
         \/ Goto(h, "tx") /\ st' = st
  BY DEF IsrVerdict, Verdict
<1>3. MemberTypeOK'
  BY <1>1, <1>2 DEF MemberTypeOK, States, historyVars, CallTypeOK, Contexts
<1>4. ~raced => owed
  BY <1>1 DEF Attribution
<1> QED
  BY <1>1, <1>2, <1>3, <1>4, HandlerMoves DEF IsrLabels, Uncounted, Capturing

\* The error callback is called with interrupts off (i2s_driver.hpp:428-432,
\* 468-472), which takes
\* them from a start call in progress.
LEMMA IsrFailKeeps ==
  ASSUME IInv, NEW h \in Handlers, IsrFail(h)
  PROVE  IInv'
<1> USE BlockAssumption DEF IInv, TypeOK
<1>1. /\ pc'["fg"] = pc["fg"] /\ pc'[h] = "callback" /\ pc[h] = "fail"
      /\ \A k \in Handlers \ {h} : pc[k] = "idle" /\ pc'[k] = "idle"
      /\ pc' \in [Contexts -> FgLabels \cup IsrLabels]
  BY HandlerPlaces DEF IsrFail, IsrLabels, Goto, CallTypeOK
<1>2. /\ UNCHANGED <<system, mode, on, wireVars, memberVars, found, call, at, cr2, txIndex, rxIndex,
                     size, got, clean>>
      /\ ~owed' /\ raced' = (raced \/ startingCall) /\ \A b \in Blocks : ie'[b] = {}
      /\ ie' \in [Blocks -> SUBSET Enables]
  BY DEF IsrFail, disableInterrupts
<1>3. BlockTypeOK' /\ MemberTypeOK'
  BY <1>2 DEF memberVars, wireVars, rxVars, txVars, BlockTypeOK, MemberTypeOK, HistoryTypeOK
<1>4. CallTypeOK' /\ HistoryTypeOK'
  <2>1. CallTypeOK'
    BY <1>1, <1>2 DEF CallTypeOK, IsrLabels
  <2>2. HistoryTypeOK'
    BY <1>2 DEF IsrFail, HistoryTypeOK, startingCall
  <2> QED
    BY <2>1, <2>2
<1>5. Scheduling'
  BY <1>1, <1>2 DEF Scheduling, startingCall, HandlersIdle
<1>6. CountersInStep' /\ IndicesInStep'
  BY <1>1, <1>2, OrderStays DEF CountersInStep, IndicesInStep, startingCall, priming,
     pollingCall, Sends, Receives, Last, memberVars
<1>7. Attribution'
  BY <1>1, <1>2 DEF Attribution, startingCall, pollingCall, HandlersIdle, AllDone, memberVars,
     HistoryTypeOK, isBusy
<1>8. Ledger'
  BY <1>2 DEF Ledger
<1>9. Enabled'
  BY <1>1, <1>2, OrderStays
     DEF Enabled, startingCall, cancelling, HasExtension, HistoryTypeOK, Blocks
<1> QED
  BY <1>3, <1>4, <1>5, <1>6, <1>7, <1>8, <1>9

\* Interrupts are disabled when nothing is left to do (i2s_driver.hpp:491-493).
LEMMA IsrDisableKeeps ==
  ASSUME IInv, NEW h \in Handlers, IsrDisable(h)
  PROVE  IInv'
<1> USE BlockAssumption DEF IInv, TypeOK
<1>1. /\ pc'["fg"] = pc["fg"] /\ pc'[h] = "complete" /\ pc[h] = "disable"
      /\ \A k \in Handlers \ {h} : pc[k] = "idle" /\ pc'[k] = "idle"
      /\ pc' \in [Contexts -> FgLabels \cup IsrLabels]
  BY HandlerPlaces DEF IsrDisable, IsrLabels, Goto, CallTypeOK
<1>2. /\ UNCHANGED <<system, mode, on, wireVars, memberVars, found, call, at, cr2, txIndex, rxIndex,
                     size, got, owed, clean>>
      /\ raced' = (raced \/ startingCall) /\ \A b \in Blocks : ie'[b] = {}
      /\ ie' \in [Blocks -> SUBSET Enables]
  BY DEF IsrDisable, disableInterrupts
<1>3. BlockTypeOK' /\ MemberTypeOK'
  BY <1>2 DEF memberVars, wireVars, rxVars, txVars, BlockTypeOK, MemberTypeOK, HistoryTypeOK
<1>4. CallTypeOK' /\ HistoryTypeOK'
  BY <1>1, <1>2 DEF CallTypeOK, HistoryTypeOK, IsrLabels, startingCall
<1>5. Scheduling'
  BY <1>1, <1>2 DEF Scheduling, startingCall, HandlersIdle
<1>6. CountersInStep' /\ IndicesInStep'
  BY <1>1, <1>2, OrderStays DEF CountersInStep, IndicesInStep, startingCall, priming,
     pollingCall, Sends, Receives, Last, memberVars
<1>7. Attribution'
  BY <1>1, <1>2 DEF Attribution, startingCall, pollingCall, HandlersIdle, AllDone, memberVars,
     HistoryTypeOK, isBusy
<1>8. Ledger'
  <2>1. Between({"count"})' = Between({"count"}) /\ Between({"countRx"})' = Between({"countRx"})
    BY <1>1 DEF Between, Contexts, Handlers
  <2> QED
    BY <1>1, <1>2, <2>1 DEF Ledger, Armed, InStep, Fits, startingCall, HasExtension,
       isTransmitMode, memberVars, HistoryTypeOK
<1>9. Enabled'
  BY <1>1, <1>2, OrderStays
     DEF Enabled, startingCall, cancelling, HasExtension, HistoryTypeOK, Blocks
<1> QED
  BY <1>3, <1>4, <1>5, <1>6, <1>7, <1>8, <1>9

\* The operation ends, and its completion is reported (i2s_driver.hpp:494-497).
LEMMA IsrCompleteKeeps ==
  ASSUME IInv, NEW h \in Handlers, IsrComplete(h)
  PROVE  IInv'
<1> USE BlockAssumption DEF IInv, TypeOK
<1>1. /\ pc'["fg"] = pc["fg"] /\ pc'[h] = "callback" /\ pc[h] = "complete"
      /\ \A k \in Handlers \ {h} : pc[k] = "idle" /\ pc'[k] = "idle"
      /\ pc' \in [Contexts -> FgLabels \cup IsrLabels]
  BY HandlerPlaces DEF IsrComplete, IsrLabels, Goto, CallTypeOK
<1>2. /\ UNCHANGED <<system, blockVars, err, txBuf, rxBuf, txRem, rxRem, found, call, at, cr2,
                     txIndex, rxIndex, size, got, clean, raced>>
      /\ st' = "ready" /\ op' = "none" /\ owed' = (owed /\ op = "none")
  BY DEF IsrComplete
<1>3. BlockTypeOK' /\ MemberTypeOK'
  BY <1>2 DEF blockVars, wireVars, rxVars, txVars, BlockTypeOK, MemberTypeOK, HistoryTypeOK, States
<1>4. CallTypeOK' /\ HistoryTypeOK'
  BY <1>1, <1>2 DEF CallTypeOK, HistoryTypeOK, IsrLabels
<1>5. Scheduling'
  BY <1>1, <1>2 DEF Scheduling, startingCall, HandlersIdle
<1>6. CountersInStep' /\ IndicesInStep'
  BY <1>1, <1>2, OrderStays DEF CountersInStep, IndicesInStep, startingCall, priming,
     pollingCall, Sends, Receives, Last
<1>7. ~raced => /\ ~owed' /\ ~startingCall /\ pc["fg"] # "arm"
                /\ ~cancelling => \A b \in Blocks : ie'[b] = {}
  BY <1>1, <1>2 DEF Attribution, AllDone, Enabled, blockVars, startingCall, Starting
<1>8. Attribution'
  BY <1>1, <1>2, <1>7 DEF Attribution, startingCall, cancelling, pollingCall, HandlersIdle, isBusy
<1>9. Ledger'
  BY <1>2, <1>7 DEF Ledger
<1>10. Enabled'
  BY <1>1, <1>2, <1>7, OrderStays
     DEF Enabled, startingCall, cancelling, HasExtension, blockVars
<1> QED
  BY <1>3, <1>4, <1>5, <1>6, <1>8, <1>9, <1>10

----------------------------------------------------------------------------
(* The words the handlers move *)

\* An operation in progress has no more words than its buffers hold; pointers that lie
\* inside them move by one.
LEMMA AdvancedInside ==
  ASSUME NEW buffer \in 0 .. PastEnd
  PROVE  /\ Advanced(buffer) \in 0 .. PastEnd
         /\ buffer \in 1 .. MaxCount => Advanced(buffer) = buffer + 1
         /\ buffer = Null => Advanced(buffer) = Null
BY BlockAssumption DEF Advanced, PastEnd, Null

LEMMA DecrementedPositive ==
  ASSUME NEW n \in 0 .. MaxCount, n > 0
  PROVE  Decremented(n) = n - 1 /\ Decremented(n) \in 0 .. MaxCount
BY BlockAssumption DEF Decremented, Huge

LEMMA CountersTyped ==
  ASSUME IInv
  PROVE  txRem \in 0 .. MaxCount /\ rxRem \in 0 .. MaxCount /\ size \in 0 .. MaxCount
BY BlockAssumption DEF IInv, TypeOK, MemberTypeOK, HistoryTypeOK, CountersInStep, Huge

\* A handler writes the next word (i2s_driver.hpp:436, 452, 475).
LEMMA IsrWriteKeeps ==
  ASSUME IInv, NEW h \in Handlers, WriteWord(h)
  PROVE  IInv'
<1> USE BlockAssumption DEF IInv, TypeOK
<1>1. /\ pc'["fg"] = pc["fg"] /\ pc'[h] = "count" /\ pc[h] = "write"
      /\ \A k \in Handlers \ {h} : pc[k] = "idle" /\ pc'[k] = "idle"
      /\ pc' \in [Contexts -> FgLabels \cup IsrLabels]
  BY HandlerPlaces DEF WriteWord, IsrLabels, Goto, CallTypeOK
<1>2. /\ UNCHANGED <<system, mode, ie, st, err, op, rxBuf, txRem, rxRem, found, call, at, cr2,
                     txIndex, rxIndex, historyVars>>
      /\ txBuf' = Advanced(txBuf)
  BY DEF WriteWord
<1>3. BlockTypeOK' /\ MemberTypeOK'
  <2>1. txBuf \in Slot
    BY DEF MemberTypeOK, Slot, Stale, FrameCap, PastEnd
  <2>2. BlockTypeOK'
    BY <2>1 DEF WriteWord, WriteDR, ReadDR, BlockTypeOK, Slot
  <2>3. MemberTypeOK'
    BY <1>2, AdvancedInside DEF MemberTypeOK, historyVars
  <2> QED
    BY <2>2, <2>3
<1>4. CallTypeOK' /\ HistoryTypeOK'
  BY <1>1, <1>2 DEF CallTypeOK, HistoryTypeOK, IsrLabels, historyVars
<1>5. Scheduling'
  BY <1>1, <1>2 DEF Scheduling, startingCall, HandlersIdle
<1>6. CountersInStep' /\ IndicesInStep'
  BY <1>1, <1>2, OrderStays DEF CountersInStep, IndicesInStep, startingCall, priming,
     pollingCall, Sends, Receives, Last
<1>7. Attribution'
  BY <1>1, <1>2 DEF Attribution, startingCall, pollingCall, HandlersIdle, AllDone, isBusy,
     historyVars
<1>8. Ledger'
  <2> SUFFICES ASSUME ~raced', owed' PROVE Ledger'
    BY DEF Ledger
  <2>1. /\ ~Between({"count"}) /\ Between({"count"})'
        /\ Between({"countRx"})' = Between({"countRx"})
    BY <1>1 DEF Between, Contexts, Handlers, CountersInStep, Scheduling, HandlersIdle,
       startingCall, Starting, priming
  <2>2. pc["fg"] # "arm" /\ InStep /\ op # "rx" /\ txRem > 0
    BY <1>1, <1>2 DEF historyVars, Ledger, Attribution, HandlersIdle, CountersInStep, InStep
  <2>3. txBuf \in 1 .. MaxCount
    BY <2>1, <2>2, CountersTyped DEF InStep, MemberTypeOK
  <2>4. txBuf' = txBuf + 1
    BY <1>2, <2>3, AdvancedInside DEF MemberTypeOK
  <2>5. InStep'
    BY <1>2, <2>1, <2>2, <2>3, <2>4, CountersTyped
       DEF InStep, Fits, HasExtension, isTransmitMode, historyVars
  <2> QED
    BY <1>1, <1>2, <2>2, <2>5 DEF Ledger, startingCall, historyVars
<1>9. /\ EnableOrder' = EnableOrder /\ Stored' = Stored
      /\ \A b \in Blocks : Awaited(b)' = Awaited(b)
  BY <1>1, <1>2 DEF EnableOrder, DataInterrupt, Stored, priming, TxBlock, RxBlock, Awaited, TxOf,
     RxOf, Duplex, isTransmitMode
<1>10. \A b \in Blocks : EnabledSoFar(b)' = EnabledSoFar(b)
  BY <1>9 DEF EnabledSoFar
<1>11. Enabled'
  <2>1. /\ \A k \in Handlers : pc'[k] # "complete" /\ pc[k] # "complete"
        /\ pc'[h] \notin Uncounted
    BY <1>1 DEF Uncounted, Capturing
  <2> QED
    BY <1>1, <1>2, <1>9, <1>10, <2>1, OrderStays
       DEF Enabled, startingCall, cancelling, HasExtension, historyVars
<1> QED
  BY <1>3, <1>4, <1>5, <1>6, <1>7, <1>8, <1>11

\* A start call of one block has two interrupts to enable, and has come to the error
\* interrupt at most as long as it runs (i2s_driver.hpp:336-337, 356-357).
LEMMA SimpleOrder ==
  ASSUME call.kind # "transfer"
  PROVE  /\ Len(EnableOrder) = 2
         /\ EnableOrder[1] = <<"main", "ERRIE">>
         /\ EnableOrder[2] = <<"main", DataInterrupt("main")>>
BY DEF EnableOrder

LEMMA SimpleSoFar ==
  ASSUME call.kind # "transfer", ~priming, at \in 1 .. 2, NEW b \in Blocks
  PROVE  EnabledSoFar(b) = IF b = "main" /\ at = 2 THEN {"ERRIE"} ELSE {}
<1>1. Stored = at - 1 /\ (at = 1 => 1 .. Stored = {}) /\ (at = 2 => 1 .. Stored = {1})
  BY DEF Stored
<1>2. EnableOrder[1] = <<"main", "ERRIE">>
  BY SimpleOrder
<1> QED
  BY <1>1, <1>2 DEF EnabledSoFar, Blocks

\* The word is counted, and the last one takes the transmit interrupt away
\* (i2s_driver.hpp:437-440, 453-456, 476-479).
LEMMA CountWrittenKeeps ==
  ASSUME IInv, NEW h \in Handlers, CountWritten(h)
  PROVE  IInv'
<1> USE BlockAssumption DEF IInv, TypeOK
<1>1. /\ pc'["fg"] = pc["fg"] /\ pc'[h] = "rx" /\ pc[h] = "count"
      /\ \A k \in Handlers \ {h} : pc[k] = "idle" /\ pc'[k] = "idle"
      /\ pc' \in [Contexts -> FgLabels \cup IsrLabels]
  BY HandlerPlaces DEF CountWritten, IsrLabels, Goto, CallTypeOK
<1>2. /\ UNCHANGED <<system, mode, wireVars, st, err, op, txBuf, rxBuf, rxRem, found, call, at, cr2,
                     txIndex, rxIndex, historyVars>>
      /\ txRem > 0 /\ txRem' = txRem - 1 /\ txRem' \in 0 .. MaxCount
      /\ ie' = IF txRem' = 0 THEN [ie EXCEPT ![TxOf("main")] = @ \ {"TXEIE"}] ELSE ie
  BY <1>1, CountersTyped, DecrementedPositive
     DEF CountWritten, CountersInStep, TxOf, Duplex, Handlers
<1>3. BlockTypeOK' /\ MemberTypeOK'
  <2>1. BlockTypeOK'
    <3>1. ie' \in [Blocks -> SUBSET Enables]
      BY <1>2 DEF BlockTypeOK
    <3>2. UNCHANGED <<mode, on>>
      BY DEF CountWritten
    <3>3. UNCHANGED wireVars
      BY <1>2
    <3> QED
      BY <3>1, <3>2, <3>3 DEF wireVars, rxVars, txVars, BlockTypeOK
  <2>2. MemberTypeOK'
    BY <1>2 DEF MemberTypeOK, historyVars, Huge
  <2> QED
    BY <2>1, <2>2
<1>4. CallTypeOK' /\ HistoryTypeOK'
  BY <1>1, <1>2 DEF CallTypeOK, HistoryTypeOK, IsrLabels, historyVars
<1>5. Scheduling'
  BY <1>1, <1>2 DEF Scheduling, startingCall, HandlersIdle
<1>6. startingCall => call.kind # "transfer" /\ ~priming /\ pc["fg"] \in {"arm", "load", "store"}
  BY <1>1 DEF Scheduling, HandlersIdle, CountersInStep, startingCall, Starting, priming
<1>7. CountersInStep' /\ IndicesInStep'
  BY <1>1, <1>2, <1>6, OrderStays DEF CountersInStep, IndicesInStep, startingCall, Starting,
     priming, pollingCall, Sends, Receives, Last, Huge
<1>8. Attribution'
  <2>1. ~raced => owed /\ pc["fg"] # "arm" /\ ~pollingCall /\ pc["fg"] \notin {"flush", "drop"}
    BY <1>1 DEF Attribution, HandlersIdle
  <2> QED
    BY <1>1, <1>2, <2>1 DEF Attribution, startingCall, pollingCall, HandlersIdle, isBusy, historyVars
<1>9. Ledger'
  <2> SUFFICES ASSUME ~raced', owed' PROVE Ledger'
    BY DEF Ledger
  <2>1. /\ Between({"count"}) /\ ~Between({"count"})'
        /\ Between({"countRx"})' = Between({"countRx"})
    BY <1>1, <1>6 DEF Between, Contexts, Handlers, startingCall, Starting, priming
  <2>2. pc["fg"] # "arm" /\ InStep /\ op # "rx"
    BY <1>1, <1>2 DEF historyVars, Ledger, Attribution, HandlersIdle, InStep
  <2>3. InStep'
    BY <1>2, <2>1, <2>2, CountersTyped
       DEF InStep, Fits, HasExtension, isTransmitMode, historyVars, MemberTypeOK
  <2> QED
    BY <1>1, <1>2, <2>2, <2>3 DEF Ledger, startingCall, historyVars
<1>10. Enabled'
  <2> SUFFICES ASSUME ~raced' PROVE Enabled'
    BY DEF Enabled
  <2>1. ~raced /\ owed /\ owed' /\ pc["fg"] # "arm"
    BY <1>1, <1>2 DEF Attribution, HandlersIdle, historyVars
  <2>2. CASE startingCall
    <3>1. /\ at \in 1 .. 2 /\ at' = at /\ ~priming' /\ startingCall' /\ call' = call
          /\ pc'["fg"] = pc["fg"] /\ cr2' = cr2 /\ EnableOrder' = EnableOrder /\ ~cancelling'
      BY <1>1, <1>2, <1>6, <2>1, <2>2
         DEF CountersInStep, priming, startingCall, EnableOrder, DataInterrupt, TxBlock, RxBlock,
             isTransmitMode, Starting, cancelling, Cancelling
    <3>2. \A b \in Blocks : /\ EnabledSoFar(b) = IF b = "main" /\ at = 2 THEN {"ERRIE"} ELSE {}
                            /\ EnabledSoFar(b)' = EnabledSoFar(b)
      BY <1>6, <2>2, <3>1, SimpleSoFar DEF EnabledSoFar, Stored
    <3>3. \A b \in Blocks : ie'[b] = ie[b]
      BY <1>2, <2>1, <2>2, <3>2 DEF Enabled, BlockTypeOK
    <3>4. EnableOrder[at][1] \in Blocks
      BY <1>6, <2>2, <3>1, SimpleOrder DEF Blocks
    <3> QED
      BY <1>1, <2>1, <2>2, <3>1, <3>2, <3>3, <3>4 DEF Enabled, Uncounted, Capturing
  <2>3. CASE ~startingCall /\ ~cancelling
    <3>1. /\ ~startingCall' /\ ~cancelling'
          /\ \A k \in Handlers : pc[k] # "complete" /\ pc'[k] # "complete"
      BY <1>1, <2>3 DEF startingCall, cancelling
    <3>2. TxOf("main")' = TxOf("main") /\ RxOf("main")' = RxOf("main")
      BY <1>2 DEF TxOf, RxOf, Duplex, TxBlock, RxBlock, isTransmitMode
    <3>3. \A b \in Blocks : ie'[b] = Awaited(b)'
      BY <1>2, <2>1, <2>3, <3>1, <3>2, CountersTyped DEF Enabled, Awaited, BlockTypeOK
    <3> QED
      BY <2>1, <3>1, <3>3 DEF Enabled
  <2>4. CASE cancelling
    <3>1. cancelling' /\ ~startingCall' /\ pc'["fg"] = pc["fg"] /\ cr2' = cr2
      BY <1>1, <1>2, <2>4 DEF cancelling, Cancelling, startingCall, Starting
    <3>2. \A b \in Blocks : ie'[b] \subseteq ie[b]
      BY <1>2 DEF BlockTypeOK
    <3> QED
      BY <1>2, <2>1, <2>4, <3>1, <3>2, OrderStays DEF Enabled, HasExtension, Blocks
  <2> QED
    BY <2>2, <2>3, <2>4
<1> QED
  BY <1>3, <1>4, <1>5, <1>7, <1>8, <1>9, <1>10

\* The handler takes a word and stores it (i2s_driver.hpp:444, 460, 483).
LEMMA IsrReadKeeps ==
  ASSUME IInv, NEW h \in Handlers, IsrRead(h)
  PROVE  IInv'
<1> USE BlockAssumption DEF IInv, TypeOK
<1>1. /\ pc'["fg"] = pc["fg"] /\ pc'[h] = "countRx" /\ pc[h] = "read"
      /\ \A k \in Handlers \ {h} : pc[k] = "idle" /\ pc'[k] = "idle"
      /\ pc' \in [Contexts -> FgLabels \cup IsrLabels]
  BY HandlerPlaces DEF IsrRead, IsrLabels, Goto, CallTypeOK
<1>2. /\ UNCHANGED <<system, mode, ie, st, err, op, txBuf, txRem, rxRem, found, call, at, cr2,
                     txIndex, rxIndex, size, owed, clean, raced>>
      /\ rxBuf' = Advanced(rxBuf)
      /\ got' = (IF Len(got) < FrameCap THEN Append(got, DataRead(RxOf(h))) ELSE got)
  BY DEF IsrRead
<1>3. BlockTypeOK' /\ MemberTypeOK'
  <2>1. BlockTypeOK'
    BY DEF IsrRead, ReadDR, BlockTypeOK, Slot, txVars
  <2>2. MemberTypeOK'
    BY <1>2, AdvancedInside DEF MemberTypeOK
  <2> QED
    BY <2>1, <2>2
<1>4. CallTypeOK' /\ HistoryTypeOK'
  <2>1. DataRead(RxOf(h)) \in 0 .. FrameCap /\ got \in Seq(0 .. FrameCap)
    BY DEF DataRead, RXNE, BlockTypeOK, Slot, Stale, Empty, FrameCap, HistoryTypeOK
  <2>2. got' \in Seq(0 .. FrameCap)
    BY <1>2, <2>1, AppendProperties
  <2>3. CallTypeOK'
    BY <1>1, <1>2 DEF CallTypeOK, IsrLabels
  <2> QED
    BY <1>2, <2>2, <2>3 DEF HistoryTypeOK
<1>5. Scheduling'
  BY <1>1, <1>2 DEF Scheduling, startingCall, HandlersIdle
<1>6. CountersInStep' /\ IndicesInStep'
  BY <1>1, <1>2, OrderStays DEF CountersInStep, IndicesInStep, startingCall, priming,
     pollingCall, Sends, Receives, Last
<1>7. Attribution'
  BY <1>1, <1>2 DEF Attribution, startingCall, pollingCall, HandlersIdle, AllDone, isBusy
<1>8. Ledger'
  <2> SUFFICES ASSUME ~raced', owed' PROVE Ledger'
    BY DEF Ledger
  <2>1. /\ ~Between({"countRx"}) /\ Between({"countRx"})'
        /\ Between({"count"})' = Between({"count"})
    BY <1>1 DEF Between, Contexts, Handlers, CallTypeOK, FgLabels, Starting, Polling, Capturing,
       Cancelling
  <2>2. pc["fg"] # "arm" /\ InStep /\ op # "tx" /\ rxRem > 0
    BY <1>1, <1>2 DEF Ledger, Attribution, HandlersIdle, CountersInStep, InStep
  <2>3. rxBuf \in 1 .. MaxCount /\ Len(got) = rxBuf - 1
    BY <2>1, <2>2, CountersTyped DEF InStep, MemberTypeOK, HistoryTypeOK
  <2>4. rxBuf' = rxBuf + 1 /\ Len(got') = Len(got) + 1
    <3>1. Len(got) < FrameCap /\ DataRead(RxOf(h)) \in 0 .. FrameCap
      BY <2>3 DEF FrameCap, DataRead, RXNE, BlockTypeOK, Slot, Stale, Empty
    <3> QED
      BY <1>2, <2>3, <3>1, AdvancedInside, AppendProperties DEF MemberTypeOK, HistoryTypeOK
  <2>5. rxBuf' + rxRem' = size' + 1 + 1 /\ Len(got') = rxBuf' - 1 /\ rxBuf' <= size' + 1
    <3>1. rxBuf + rxRem = size + 1 /\ rxRem \in Nat /\ size \in Nat
      BY <2>1, <2>2, CountersTyped DEF InStep, HistoryTypeOK
    <3> QED
      BY <1>2, <2>2, <2>3, <2>4, <3>1
  <2>6. /\ op' = op /\ Fits(op)' = Fits(op)
        /\ txBuf' = txBuf /\ txRem' = txRem /\ size' = size
    BY <1>2 DEF Fits, HasExtension, isTransmitMode
  <2>7. InStep'
    BY <2>1, <2>2, <2>5, <2>6 DEF InStep
  <2> QED
    BY <1>1, <1>2, <2>2, <2>7 DEF Ledger, startingCall
<1>9. /\ EnableOrder' = EnableOrder /\ Stored' = Stored
      /\ \A b \in Blocks : Awaited(b)' = Awaited(b)
  BY <1>1, <1>2 DEF EnableOrder, DataInterrupt, Stored, priming, TxBlock, RxBlock, Awaited, TxOf,
     RxOf, Duplex, isTransmitMode
<1>10. \A b \in Blocks : EnabledSoFar(b)' = EnabledSoFar(b)
  BY <1>9 DEF EnabledSoFar
<1>11. Enabled'
  <2>1. /\ \A k \in Handlers : pc'[k] # "complete" /\ pc[k] # "complete"
        /\ pc'[h] \notin Uncounted
    BY <1>1 DEF Uncounted, Capturing
  <2> QED
    BY <1>1, <1>2, <1>9, <1>10, <2>1, OrderStays
       DEF Enabled, startingCall, cancelling, HasExtension
<1> QED
  BY <1>3, <1>4, <1>5, <1>6, <1>7, <1>8, <1>11

\* The word read is counted, and the last one takes the receive interrupt away
\* (i2s_driver.hpp:445-448, 461-464, 484-487).
LEMMA CountReadKeeps ==
  ASSUME IInv, NEW h \in Handlers, CountRead(h)
  PROVE  IInv'
<1> USE BlockAssumption DEF IInv, TypeOK
<1>1. /\ pc'["fg"] = pc["fg"] /\ pc'[h] = "done" /\ pc[h] = "countRx"
      /\ \A k \in Handlers \ {h} : pc[k] = "idle" /\ pc'[k] = "idle"
      /\ pc' \in [Contexts -> FgLabels \cup IsrLabels]
  BY HandlerPlaces DEF CountRead, IsrLabels, Goto, CallTypeOK
<1>2. /\ UNCHANGED <<system, mode, wireVars, st, err, op, txBuf, rxBuf, txRem, found, call, at, cr2,
                     txIndex, rxIndex, historyVars>>
      /\ rxRem > 0 /\ rxRem' = rxRem - 1 /\ rxRem' \in 0 .. MaxCount
      /\ ie' = IF rxRem' = 0 THEN [ie EXCEPT ![RxOf("main")] = @ \ {"RXNEIE"}] ELSE ie
  BY <1>1, CountersTyped, DecrementedPositive
     DEF CountRead, CountersInStep, RxOf, Duplex, Handlers
<1>3. BlockTypeOK' /\ MemberTypeOK'
  <2>1. BlockTypeOK'
    <3>1. ie' \in [Blocks -> SUBSET Enables]
      BY <1>2 DEF BlockTypeOK
    <3>2. UNCHANGED <<mode, on>>
      BY DEF CountRead
    <3>3. UNCHANGED wireVars
      BY <1>2
    <3> QED
      BY <3>1, <3>2, <3>3 DEF wireVars, rxVars, txVars, BlockTypeOK
  <2>2. MemberTypeOK'
    BY <1>2 DEF MemberTypeOK, historyVars, Huge
  <2> QED
    BY <2>1, <2>2
<1>4. CallTypeOK' /\ HistoryTypeOK'
  BY <1>1, <1>2 DEF CallTypeOK, HistoryTypeOK, IsrLabels, historyVars
<1>5. Scheduling'
  BY <1>1, <1>2 DEF Scheduling, startingCall, HandlersIdle
<1>6. startingCall => call.kind # "transfer" /\ ~priming /\ pc["fg"] \in {"arm", "load", "store"}
  BY <1>1 DEF Scheduling, HandlersIdle, CountersInStep, startingCall, Starting, priming
<1>7. CountersInStep' /\ IndicesInStep'
  BY <1>1, <1>2, <1>6, OrderStays DEF CountersInStep, IndicesInStep, startingCall, Starting,
     priming, pollingCall, Sends, Receives, Last, Huge
<1>8. Attribution'
  <2>1. ~raced => owed /\ pc["fg"] # "arm" /\ ~pollingCall /\ pc["fg"] \notin {"flush", "drop"}
    BY <1>1 DEF Attribution, HandlersIdle
  <2> QED
    BY <1>1, <1>2, <2>1 DEF Attribution, startingCall, pollingCall, HandlersIdle, isBusy, historyVars
<1>9. Ledger'
  <2> SUFFICES ASSUME ~raced', owed' PROVE Ledger'
    BY DEF Ledger
  <2>1. /\ Between({"countRx"}) /\ ~Between({"countRx"})'
        /\ Between({"count"})' = Between({"count"})
    BY <1>1, <1>6 DEF Between, Contexts, Handlers, startingCall, Starting, priming,
       CallTypeOK, FgLabels, Polling, Capturing, Cancelling
  <2>2. pc["fg"] # "arm" /\ InStep /\ op # "tx"
    BY <1>1, <1>2 DEF historyVars, Ledger, Attribution, HandlersIdle, InStep
  <2>3. InStep'
    BY <1>2, <2>1, <2>2, CountersTyped
       DEF InStep, Fits, HasExtension, isTransmitMode, historyVars, MemberTypeOK
  <2> QED
    BY <1>1, <1>2, <1>6, <2>2, <2>3 DEF Ledger, startingCall, historyVars
<1>10. Enabled'
  <2> SUFFICES ASSUME ~raced' PROVE Enabled'
    BY DEF Enabled
  <2>1. ~raced /\ owed /\ owed' /\ pc["fg"] # "arm"
    BY <1>1, <1>2 DEF Attribution, HandlersIdle, historyVars
  <2>2. CASE startingCall
    <3>1. /\ at \in 1 .. 2 /\ at' = at /\ ~priming' /\ startingCall' /\ call' = call
          /\ pc'["fg"] = pc["fg"] /\ cr2' = cr2 /\ EnableOrder' = EnableOrder /\ ~cancelling'
      BY <1>1, <1>2, <1>6, <2>1, <2>2
         DEF CountersInStep, priming, startingCall, EnableOrder, DataInterrupt, TxBlock, RxBlock,
             isTransmitMode, Starting, cancelling, Cancelling
    <3>2. \A b \in Blocks : /\ EnabledSoFar(b) = IF b = "main" /\ at = 2 THEN {"ERRIE"} ELSE {}
                            /\ EnabledSoFar(b)' = EnabledSoFar(b)
      BY <1>6, <2>2, <3>1, SimpleSoFar DEF EnabledSoFar, Stored
    <3>3. \A b \in Blocks : ie'[b] = ie[b]
      BY <1>2, <2>1, <2>2, <3>2 DEF Enabled, BlockTypeOK
    <3>4. EnableOrder[at][1] \in Blocks
      BY <1>6, <2>2, <3>1, SimpleOrder DEF Blocks
    <3> QED
      BY <1>1, <2>1, <2>2, <3>1, <3>2, <3>3, <3>4 DEF Enabled, Uncounted, Capturing
  <2>3. CASE ~startingCall /\ ~cancelling
    <3>1. /\ ~startingCall' /\ ~cancelling'
          /\ \A k \in Handlers : pc[k] # "complete" /\ pc'[k] # "complete"
      BY <1>1, <2>3 DEF startingCall, cancelling
    <3>2. TxOf("main")' = TxOf("main") /\ RxOf("main")' = RxOf("main")
      BY <1>2 DEF TxOf, RxOf, Duplex, TxBlock, RxBlock, isTransmitMode
    <3>3. \A b \in Blocks : ie'[b] = Awaited(b)'
      BY <1>2, <2>1, <2>3, <3>1, <3>2, CountersTyped DEF Enabled, Awaited, BlockTypeOK
    <3> QED
      BY <2>1, <3>1, <3>3 DEF Enabled
  <2>4. CASE cancelling
    <3>1. cancelling' /\ ~startingCall' /\ pc'["fg"] = pc["fg"] /\ cr2' = cr2
      BY <1>1, <1>2, <2>4 DEF cancelling, Cancelling, startingCall, Starting
    <3>2. \A b \in Blocks : ie'[b] \subseteq ie[b]
      BY <1>2 DEF BlockTypeOK
    <3> QED
      BY <1>2, <2>1, <2>4, <3>1, <3>2, OrderStays DEF Enabled, HasExtension, Blocks
  <2> QED
    BY <2>2, <2>3, <2>4
<1> QED
  BY <1>3, <1>4, <1>5, <1>7, <1>8, <1>9, <1>10

----------------------------------------------------------------------------
(* Starting an interrupt-driven operation *)

\* The argument and state checks and beginAsync (i2s_driver.hpp:322-329, 342-349, 365-372,
\* 602-606): an
\* application that is Orderly starts transfers with interrupts masked, and finds none
\* enabled.
LEMMA StartKeeps ==
  ASSUME IInv, Orderly, NEW kind \in AsyncKinds \cap Calls, NEW n \in Counts, Start(kind, n)
  PROVE  IInv'
<1> USE BlockAssumption DEF IInv, TypeOK
<1>1. /\ HandlersIdle /\ ~isBusy /\ HandlersIdle' /\ pc'["fg"] = "arm"
      /\ pc' = [pc EXCEPT !["fg"] = "arm"]
      /\ startingCall' /\ ~pollingCall' /\ ~priming' /\ ~cancelling /\ ~cancelling'
  BY FgRuns DEF Start, MayCall, Goto, CallTypeOK, Contexts, Handlers, HandlersIdle, startingCall,
     Starting, pollingCall, Polling, Capturing, priming, cancelling, Cancelling
<1>2. /\ UNCHANGED <<system, mode, ie, op, txBuf, rxBuf, txRem, rxRem, found, cr2, txIndex,
                     rxIndex, size>>
      /\ call' = [kind |-> kind, n |-> n] /\ at' = 1 /\ owed' /\ err' = {} /\ st' = BusyState(kind)
      /\ Fits(kind) /\ n \in 1 .. MaxCount
  BY DEF Start, Counts
<1>3. ~raced' => \A b \in Blocks : ie'[b] = {}
  BY <1>1, IdleOwesNothing DEF Start, BeginHistory
<1>4. BlockTypeOK'
  <2>1. UNCHANGED <<mode, ie, ovr, ovrSeq, udr, fre, frame>> /\ on' \in [Blocks -> BOOLEAN]
    BY DEF Start, BlockTypeOK
  <2>2. txb' \in Slot /\ rxb' \in Slot
    BY DEF Start, BlockTypeOK, BeginHistory, AsStale, Slot, Empty, Stale, FrameCap
  <2>3. sent' = <<>> /\ arrived' = 0 /\ dry' = 0 /\ FrameCap \in Nat
    BY DEF Start, BeginHistory, FrameCap
  <2>4. sent' \in Seq(0 .. FrameCap) /\ Len(sent') <= FrameCap
    BY <2>3
  <2> QED
    BY <2>1, <2>2, <2>3, <2>4 DEF BlockTypeOK
<1>5. MemberTypeOK'
  BY <1>2 DEF MemberTypeOK, BusyState, States, CountersInStep
<1>6. CallTypeOK'
  BY <1>1, <1>2 DEF CallTypeOK, FgLabels, Starting, Contexts, Handlers
<1>7. got' = <<>> /\ HistoryTypeOK'
  <2>1. got' = <<>> /\ got' \in Seq(0 .. FrameCap)
    BY DEF Start, BeginHistory
  <2>2. clean' \in BOOLEAN /\ raced' \in BOOLEAN /\ owed' \in BOOLEAN
    BY DEF Start, BeginHistory, HistoryTypeOK
  <2> QED
    BY <1>2, <2>1, <2>2 DEF HistoryTypeOK
<1>8. Scheduling'
  BY <1>1, <1>2 DEF Scheduling, HandlersIdle, Orderly, Calls
<1>9. CountersInStep' /\ IndicesInStep'
  BY <1>1, <1>2 DEF CountersInStep, IndicesInStep, HandlersIdle
<1>10. Attribution'
  BY <1>1, <1>2, <1>3 DEF Attribution, HandlersIdle, isBusy, BusyState
<1>11. Ledger'
  BY <1>1, <1>2, <1>7 DEF Ledger, Armed, Fits, HasExtension, isTransmitMode
<1>12. Enabled'
  BY <1>1 DEF Enabled, cancelling, Cancelling
<1> QED
  BY <1>4, <1>5, <1>6, <1>7, <1>8, <1>9, <1>10, <1>11, <1>12

\* What every step of a start call leaves alone
LEMMA StartingPlaces ==
  ASSUME IInv, startingCall, Runs("fg"), NEW label \in FgLabels, Goto("fg", label)
  PROVE  /\ HandlersIdle /\ HandlersIdle' /\ pc'["fg"] = label /\ CallTypeOK
         /\ \A h \in Handlers : pc[h] = "idle" /\ pc'[h] = "idle"
         /\ pc' \in [Contexts -> FgLabels \cup IsrLabels]
BY FgRuns DEF IInv, TypeOK, Goto, CallTypeOK, Contexts, Handlers, HandlersIdle

LEMMA SchedulingKept ==
  ASSUME Scheduling, HandlersIdle', startingCall, system' = system,
         startingCall' => call' = call
  PROVE  Scheduling'
BY DEF Scheduling, HandlersIdle

\* The members are set, in program order (i2s_driver.hpp:330-334, 350-354, 373-381).
LEMMA ArmKeeps ==
  ASSUME IInv, Arm
  PROVE  IInv'
<1> USE BlockAssumption DEF IInv, TypeOK
<1>1. PICK label \in {"arm", "load"} : Goto("fg", label) /\ label = (IF at < 5 THEN "arm" ELSE "load")
  BY DEF Arm
<1>2. /\ pc["fg"] = "arm" /\ startingCall /\ Runs("fg") /\ label \in FgLabels
      /\ at \in 1 .. 5 /\ call.kind \in AsyncKinds /\ call.n \in 1 .. MaxCount
  BY <1>1 DEF Arm, startingCall, Starting, FgLabels, CountersInStep, CallTypeOK
<1>3. /\ HandlersIdle /\ HandlersIdle' /\ pc'["fg"] = label
      /\ \A h \in Handlers : pc[h] = "idle" /\ pc'[h] = "idle"
      /\ pc' \in [Contexts -> FgLabels \cup IsrLabels]
  BY <1>1, <1>2, StartingPlaces
<1>4. /\ startingCall' /\ ~pollingCall' /\ ~priming' /\ ~cancelling'
  BY <1>1, <1>3 DEF startingCall, Starting, pollingCall, Polling, Capturing, priming, cancelling,
     Cancelling
<1>5. /\ UNCHANGED <<system, mode, ie, wireVars, st, err, found, call, cr2, txIndex, rxIndex, got,
                     owed, clean, raced>>
      /\ txBuf' = IF at = 1 THEN (IF call.kind # "rx" THEN 1 ELSE Null) ELSE txBuf
      /\ rxBuf' = IF at = 2 THEN (IF call.kind # "tx" THEN 1 ELSE Null) ELSE rxBuf
      /\ txRem' = IF at = 3 THEN (IF call.kind # "rx" THEN call.n ELSE 0) ELSE txRem
      /\ rxRem' = IF at = 4 THEN (IF call.kind # "tx" THEN call.n ELSE 0) ELSE rxRem
      /\ op' = (IF at = 5 THEN call.kind ELSE op)
      /\ size' = (IF at = 1 THEN call.n ELSE size)
      /\ at' = (IF at < 5 THEN at + 1 ELSE 1)
  BY DEF Arm
<1>6. BlockTypeOK'
  BY DEF Arm, BlockTypeOK, wireVars, rxVars, txVars
<1>7. MemberTypeOK'
  <2>1. txBuf' \in 0 .. PastEnd /\ rxBuf' \in 0 .. PastEnd /\ op' \in AsyncKinds \cup {"none"}
    BY <1>2, <1>5 DEF MemberTypeOK, Null, PastEnd
  <2>2. txRem' \in 0 .. MaxCount /\ rxRem' \in 0 .. MaxCount
    BY <1>2, <1>5, CountersTyped
  <2> QED
    BY <1>5, <2>1, <2>2 DEF MemberTypeOK, Huge
<1>8. CallTypeOK' /\ HistoryTypeOK'
  BY <1>2, <1>3, <1>5 DEF CallTypeOK, HistoryTypeOK, IsrLabels
<1>9. Scheduling'
  BY <1>2, <1>3, <1>5, SchedulingKept
<1>10. CountersInStep'
  <2>1. txRem' # Huge /\ rxRem' # Huge
    BY <1>2, <1>5 DEF CountersInStep, Huge
  <2>2. label = "arm" => at' \in 1 .. 5 /\ (call.kind = "transfer" /\ at' > 3 => txRem' = call.n)
    BY <1>1, <1>2, <1>5 DEF CountersInStep
  <2>3. label = "load" => at' = 1 /\ (call.kind = "transfer" => txRem' = call.n)
    BY <1>1, <1>2, <1>5 DEF CountersInStep
  <2> QED
    BY <1>1, <1>2, <1>3, <1>4, <1>5, <2>1, <2>2, <2>3 DEF CountersInStep
<1>11. IndicesInStep'
  BY <1>4 DEF IndicesInStep
<1>12. Attribution'
  BY <1>2, <1>3, <1>4, <1>5 DEF Attribution, isBusy
<1>13. ASSUME ~raced PROVE owed /\ Armed /\ got = <<>> /\ Fits(call.kind)
                           /\ \A b \in Blocks : ie[b] = {}
  BY <1>2, <1>13 DEF Attribution, Ledger
<1>14. ASSUME ~raced, label = "load" PROVE InStep' /\ op' = call.kind /\ size' = call.n
                                          /\ (op' = "transfer" => rxRem' = size')
                                          /\ (txRem' > 0 \/ rxRem' > 0)
  <2>1. ~Between({"count"})' /\ ~Between({"countRx"})'
    BY <1>3, <1>14 DEF Between, Contexts
  <2>2. /\ at = 5 /\ size = call.n /\ txBuf = (IF call.kind = "rx" THEN Null ELSE 1)
        /\ rxBuf = (IF call.kind = "tx" THEN Null ELSE 1)
        /\ txRem = (IF call.kind = "rx" THEN 0 ELSE call.n)
        /\ rxRem = (IF call.kind = "tx" THEN 0 ELSE call.n)
    BY <1>1, <1>2, <1>13, <1>14 DEF Armed
  <2>3. Fits(op)'
    BY <1>5, <1>13, <1>14, <2>2 DEF Fits, HasExtension, isTransmitMode
  <2>4. Len(got') = 0
    BY <1>5, <1>13, <1>14
  <2> QED
    BY <1>2, <1>5, <2>1, <2>2, <2>3, <2>4 DEF InStep, Null, AsyncKinds
<1>15. Ledger'
  <2> SUFFICES ASSUME ~raced', owed' PROVE Ledger'
    BY DEF Ledger
  <2>1. CASE label = "load"
    BY <1>3, <1>5, <1>14, <2>1 DEF Ledger
  <2>2. CASE label = "arm"
    <3>1. Armed'
      BY <1>1, <1>2, <1>5, <1>13, <2>2 DEF Armed
    <3>2. Fits(call.kind)' /\ got' = <<>>
      BY <1>5, <1>13 DEF Fits, HasExtension, isTransmitMode
    <3> QED
      BY <1>3, <2>2, <3>1, <3>2 DEF Ledger
  <2> QED
    BY <2>1, <2>2
<1>16. Enabled'
  <2> SUFFICES ASSUME ~raced', label = "load" PROVE Enabled'
    BY <1>1, <1>3, <1>4 DEF Enabled
  <2>1. Stored' = 0
    BY <1>1, <1>2, <1>4, <1>5 DEF Stored
  <2>2. \A b \in Blocks : EnabledSoFar(b)' = {}
    BY <2>1 DEF EnabledSoFar
  <2>3. ~raced /\ \A b \in Blocks : ie'[b] = {}
    BY <1>5, <1>13
  <2> QED
    BY <1>3, <1>4, <1>14, <2>2, <2>3 DEF Enabled
<1> QED
  BY <1>6, <1>7, <1>8, <1>9, <1>10, <1>11, <1>12, <1>15, <1>16

\* The start of a transfer has four interrupts to enable and, after it has written the
\* only word, one to disable again (i2s_driver.hpp:383-405).
LEMMA TransferOrder ==
  ASSUME call.kind = "transfer"
  PROVE  /\ Len(EnableOrder) = 5
         /\ EnableOrder[1] = <<"ext", "ERRIE">>
         /\ EnableOrder[2] = <<"ext", DataInterrupt("ext")>>
         /\ EnableOrder[3] = <<"main", "ERRIE">>
         /\ EnableOrder[4] = <<"main", DataInterrupt("main")>>
         /\ EnableOrder[5] = <<TxBlock, "TXEIE">>
<1> DEFINE Pairs  == Blocks \X Enables
           first  == <<"ext", "ERRIE">>
           second == <<"ext", DataInterrupt("ext")>>
           third  == <<"main", "ERRIE">>
           fourth == <<"main", DataInterrupt("main")>>
           fifth  == <<TxBlock, "TXEIE">>
<1>1. EnableOrder = <<first, second>> \o <<third, fourth>> \o <<fifth>>
  BY DEF EnableOrder
<1>2. first \in Pairs /\ second \in Pairs /\ third \in Pairs /\ fourth \in Pairs /\ fifth \in Pairs
  BY DEF DataInterrupt, TxBlock, Blocks, Enables
<1> HIDE DEF Pairs, first, second, third, fourth, fifth
<1> DEFINE four == <<first, second>> \o <<third, fourth>>
<1>3. <<first, second>> \in Seq(Pairs) /\ <<third, fourth>> \in Seq(Pairs) /\ <<fifth>> \in Seq(Pairs)
  BY <1>2
<1>4. four \in Seq(Pairs) /\ Len(four) = 4
  BY <1>3, ConcatProperties
<1>5. four[1] = first /\ four[2] = second /\ four[3] = third /\ four[4] = fourth
  BY <1>3, ConcatProperties
<1> HIDE DEF four
<1> DEFINE last == <<fifth>>
<1>6. last \in Seq(Pairs) /\ Len(last) = 1 /\ last[1] = fifth
  BY <1>3
<1> HIDE DEF last
<1>7. /\ Len(four \o last) = 5
      /\ \A i \in 1 .. 5 : (four \o last)[i] = IF i <= 4 THEN four[i] ELSE last[i - 4]
  <2>1. /\ Len(four \o last) = Len(four) + Len(last)
        /\ \A i \in 1 .. Len(four) + Len(last) :
             (four \o last)[i] = IF i <= Len(four) THEN four[i] ELSE last[i - Len(four)]
    BY <1>4, <1>6, ConcatProperties, Zenon
  <2> QED
    BY <1>4, <1>6, <2>1
<1>8. /\ (four \o last)[1] = four[1] /\ (four \o last)[2] = four[2]
      /\ (four \o last)[3] = four[3] /\ (four \o last)[4] = four[4]
      /\ (four \o last)[5] = last[1]
  BY <1>7
<1> QED
  BY <1>1, <1>5, <1>6, <1>7, <1>8 DEF last, four, first, second, third, fourth, fifth

\* The block and the bit of every read-modify-write of CR2 exist.
LEMMA OrderTyped ==
  ASSUME IInv, pc["fg"] \in {"load", "store"}
  PROVE  /\ at \in 1 .. (IF call.kind = "transfer" THEN 5 ELSE 2)
         /\ EnableOrder[at][1] \in Blocks /\ EnableOrder[at][2] \in Enables
<1>1. at \in 1 .. (IF call.kind = "transfer" THEN 5 ELSE 2)
  BY DEF IInv, CountersInStep
<1>2. DataInterrupt("main") \in Enables /\ DataInterrupt("ext") \in Enables /\ TxBlock \in Blocks
  BY DEF DataInterrupt, Enables, TxBlock, Blocks
<1>3. CASE call.kind = "transfer"
  BY <1>1, <1>2, <1>3, TransferOrder DEF Blocks, Enables
<1>4. CASE call.kind # "transfer"
  BY <1>1, <1>2, <1>4, SimpleOrder DEF Blocks, Enables
<1> QED
  BY <1>1, <1>3, <1>4

\* One read-modify-write further, one interrupt more is enabled.
LEMMA OneMoreEnabled ==
  ASSUME EnableOrder' = EnableOrder, Stored \in Nat, Stored' = Stored + 1, NEW b \in Blocks
  PROVE  EnabledSoFar(b)' =
           EnabledSoFar(b) \cup (IF EnableOrder[Stored + 1][1] = b
                                   THEN {EnableOrder[Stored + 1][2]} ELSE {})
<1>1. 1 .. Stored' = (1 .. Stored) \cup {Stored + 1}
  OBVIOUS
<1>2. EnabledSoFar(b)' = {EnableOrder[i][2] : i \in {j \in 1 .. Stored' : EnableOrder[j][1] = b}}
  BY DEF EnabledSoFar
<1> QED
  BY <1>1, <1>2 DEF EnabledSoFar

\* When the start of a transfer has enabled all it enables, each block has its error
\* interrupt and that of its direction.
LEMMA AllSoFar ==
  ASSUME call.kind = "transfer", Stored = 4, NEW b \in Blocks
  PROVE  EnabledSoFar(b) = {"ERRIE", DataInterrupt(b)}
<1>1. 1 .. Stored = {1, 2, 3, 4}
  OBVIOUS
<1>2. CASE b = "main"
  <2>1. {j \in 1 .. Stored : EnableOrder[j][1] = b} = {3, 4}
    BY <1>1, <1>2, TransferOrder
  <2> QED
    BY <1>2, <2>1, TransferOrder DEF EnabledSoFar
<1>3. CASE b = "ext"
  <2>1. {j \in 1 .. Stored : EnableOrder[j][1] = b} = {1, 2}
    BY <1>1, <1>3, TransferOrder
  <2> QED
    BY <1>3, <2>1, TransferOrder DEF EnabledSoFar
<1> QED
  BY <1>2, <1>3 DEF Blocks

\* What the rest of a start call keeps: the members have their values, and the operation
\* is the call's.
LEMMA StartingOperation ==
  ASSUME IInv, ~raced, startingCall, pc["fg"] # "arm", HandlersIdle
  PROVE  /\ owed /\ InStep /\ op = call.kind /\ size = call.n /\ call.n \in 1 .. MaxCount
         /\ op = "transfer" => rxRem = size
         /\ op # "transfer" => txRem > 0 \/ rxRem > 0
         /\ \A b \in Blocks : ie[b] = EnabledSoFar(b)
BY DEF IInv, TypeOK, Attribution, Ledger, Enabled, CountersInStep, CallTypeOK, HandlersIdle,
   Uncounted

\* A step of a start call that moves no word: it goes on with the next interrupt, or returns.
LEMMA StartingKeeps ==
  ASSUME IInv, startingCall, pc["fg"] # "arm", Runs("fg"), NEW label \in {"idle"} \cup Starting,
         label # "arm", Goto("fg", label), BlockTypeOK', MemberTypeOK',
         UNCHANGED <<system, mode, st, op, txBuf, rxBuf, txRem, rxRem, found, txIndex, rxIndex,
                     historyVars>>,
         cr2' \subseteq Enables, at' \in 0 .. 7,
         label = "idle" => call' = NoCall,
         label # "idle" => call' = call,
         ~(label = "count" \/ pc["fg"] = "count"),
         CountersInStep', Enabled'
  PROVE  IInv'
<1> USE BlockAssumption DEF IInv, TypeOK, historyVars
<1>1. label \in FgLabels
  BY DEF FgLabels
<1>2. /\ HandlersIdle /\ HandlersIdle' /\ pc'["fg"] = label
      /\ \A h \in Handlers : pc[h] = "idle" /\ pc'[h] = "idle"
      /\ pc' \in [Contexts -> FgLabels \cup IsrLabels]
  BY <1>1, StartingPlaces
<1>3. /\ startingCall' <=> label # "idle"
      /\ ~pollingCall' /\ ~cancelling'
  BY <1>2 DEF startingCall, Starting, pollingCall, Polling, Capturing, cancelling, Cancelling
<1>4. CallTypeOK' /\ HistoryTypeOK'
  BY <1>1, <1>2 DEF CallTypeOK, HistoryTypeOK, IsrLabels, NoCall
<1>5. Scheduling'
  BY <1>2, <1>3, SchedulingKept
<1>6. IndicesInStep'
  BY <1>3 DEF IndicesInStep
<1>7. Attribution'
  BY <1>2, <1>3 DEF Attribution, isBusy, Starting
<1>8. Ledger'
  <2> SUFFICES ASSUME ~raced', owed' PROVE Ledger'
    BY DEF Ledger
  <2>1. /\ Between({"count"})' = Between({"count"})
        /\ Between({"countRx"})' = Between({"countRx"})
    BY <1>2 DEF Between, Contexts, Handlers, Starting, startingCall
  <2>2. InStep'
    BY <2>1, StartingOperation, <1>2 DEF InStep, Fits, HasExtension, isTransmitMode
  <2> QED
    BY <1>2, <1>3, <2>2, StartingOperation DEF Ledger
<1> QED
  BY <1>4, <1>5, <1>6, <1>7, <1>8

\* The first half of a read-modify-write of CR2 (i2s_driver.hpp:661-731)
LEMMA LoadKeeps ==
  ASSUME IInv, LoadCr2
  PROVE  IInv'
<1> USE BlockAssumption DEF IInv, TypeOK
<1>1. /\ pc["fg"] = "load" /\ startingCall /\ Runs("fg") /\ Goto("fg", "store")
      /\ "store" \in {"idle"} \cup Starting /\ "store" \in FgLabels
      /\ UNCHANGED <<system, blockVars, memberVars, found, call, at, txIndex, rxIndex, historyVars>>
      /\ cr2' = ie[EnableOrder[at][1]]
  BY DEF LoadCr2, startingCall, Starting, FgLabels
<1>2. /\ HandlersIdle /\ pc'["fg"] = "store"
      /\ \A h \in Handlers : pc[h] = "idle" /\ pc'[h] = "idle"
      /\ startingCall' /\ ~priming /\ ~priming' /\ ~cancelling'
  BY <1>1, StartingPlaces DEF startingCall, Starting, priming, cancelling, Cancelling
<1>3. EnableOrder[at][1] \in Blocks
  BY <1>1, OrderTyped
<1>4. cr2' \subseteq Enables
  BY <1>1, <1>3 DEF BlockTypeOK
<1>5. BlockTypeOK' /\ MemberTypeOK'
  BY <1>1 DEF blockVars, wireVars, rxVars, txVars, memberVars, historyVars, BlockTypeOK, MemberTypeOK
<1>6. CountersInStep'
  BY <1>1, <1>2 DEF CountersInStep, memberVars
<1>7. /\ EnableOrder' = EnableOrder /\ Stored' = Stored
  BY <1>1, <1>2 DEF EnableOrder, DataInterrupt, Stored, TxBlock, isTransmitMode, blockVars
<1>8. \A b \in Blocks : EnabledSoFar(b)' = EnabledSoFar(b)
  BY <1>7 DEF EnabledSoFar
<1>9. Enabled'
  BY <1>1, <1>2, <1>7, <1>8 DEF Enabled, blockVars, memberVars, historyVars, Uncounted
<1>10. at' \in 0 .. 7
  BY <1>1 DEF CallTypeOK
<1> QED
  BY <1>1, <1>2, <1>4, <1>5, <1>6, <1>9, <1>10, StartingKeeps DEF memberVars, blockVars

\* With everything stored, the interrupts of the operation that has begun are the awaited
\* ones.
LEMMA SimpleAwaited ==
  ASSUME IInv, InStep, op = call.kind, op # "transfer", txRem > 0 \/ rxRem > 0, NEW b \in Blocks
  PROVE  Awaited(b) = IF b = "main" THEN {"ERRIE", DataInterrupt("main")} ELSE {}
<1>1. TxOf("main") = "main" /\ RxOf("main") = "main"
  BY DEF TxOf, RxOf, Duplex
<1>2. CASE op = "tx"
  <2>1. txRem > 0 /\ ~(rxRem > 0) /\ DataInterrupt("main") = "TXEIE"
    BY <1>2 DEF InStep, Fits, DataInterrupt, TxBlock
  <2> QED
    BY <1>1, <1>2, <2>1 DEF Awaited
<1>3. CASE op = "rx"
  <2>1. rxRem > 0 /\ ~(txRem > 0) /\ DataInterrupt("main") = "RXNEIE"
    BY <1>3 DEF InStep, Fits, DataInterrupt, TxBlock
  <2> QED
    BY <1>1, <1>3, <2>1 DEF Awaited
<1> QED
  BY <1>2, <1>3 DEF InStep, AsyncKinds

LEMMA TransferAwaited ==
  ASSUME op = "transfer", rxRem > 0, NEW b \in Blocks
  PROVE  Awaited(b) = {"ERRIE", DataInterrupt(b)} \ (IF txRem > 0 \/ b # TxBlock THEN {} ELSE {"TXEIE"})
BY DEF Awaited, TxOf, RxOf, Duplex, DataInterrupt, TxBlock, RxBlock, Blocks

\* The second half of a read-modify-write of CR2; after the last one the start call returns.
LEMMA StoreKeeps ==
  ASSUME IInv, StoreCr2
  PROVE  IInv'
<1> USE BlockAssumption DEF IInv, TypeOK
<1> DEFINE b   == EnableOrder[at][1]
           bit == EnableOrder[at][2]
<1>0. pc["fg"] = "store" /\ startingCall /\ Runs("fg")
  BY DEF StoreCr2, startingCall, Starting
<1>1. /\ at \in 1 .. (IF call.kind = "transfer" THEN 5 ELSE 2) /\ b \in Blocks /\ bit \in Enables
      /\ Len(EnableOrder) = IF call.kind = "transfer" THEN 5 ELSE 2
      /\ HandlersIdle
  BY <1>0, OrderTyped, SimpleOrder, TransferOrder, FgRuns
<1>2. /\ ie' = [ie EXCEPT ![b] = IF at = 5 THEN cr2 \ {bit} ELSE cr2 \cup {bit}] /\ cr2' = {}
      /\ UNCHANGED <<system, mode, on, wireVars, memberVars, found, txIndex, rxIndex, historyVars>>
  BY DEF StoreCr2
<1>3. PICK label \in {"load", "write", "idle"} :
        /\ Goto("fg", label)
        /\ label = (IF at = 4 THEN "write" ELSE IF at = Len(EnableOrder) THEN "idle" ELSE "load")
        /\ label = "load" => at' = at + 1 /\ call' = call
        /\ label = "write" => at' = at /\ call' = call
        /\ label = "idle" => at' = 0 /\ call' = NoCall
  <2>1. CASE at < Len(EnableOrder) /\ at # 4
    BY <1>1, <2>1 DEF StoreCr2
  <2>2. CASE at = 4
    BY <1>1, <2>2 DEF StoreCr2
  <2>3. CASE ~(at < Len(EnableOrder)) /\ at # 4
    BY <1>1, <2>3 DEF StoreCr2, StartReturn
  <2> QED
    BY <2>1, <2>2, <2>3
<1> HIDE DEF b, bit
<1>4. /\ label \in {"idle"} \cup Starting /\ label \in FgLabels
  BY DEF Starting, FgLabels
<1>5. /\ HandlersIdle' /\ pc'["fg"] = label
      /\ \A h \in Handlers : pc[h] = "idle" /\ pc'[h] = "idle"
  BY <1>0, <1>3, <1>4, StartingPlaces
<1>6. /\ startingCall' <=> label # "idle"
      /\ ~priming /\ (priming' <=> label = "write") /\ ~cancelling'
  BY <1>0, <1>5 DEF startingCall, Starting, priming, cancelling, Cancelling
<1>7. BlockTypeOK' /\ MemberTypeOK'
  <2>1. BlockTypeOK'
    BY <1>1, <1>2 DEF wireVars, rxVars, txVars, BlockTypeOK, CallTypeOK
  <2>2. MemberTypeOK'
    BY <1>2 DEF memberVars, historyVars, MemberTypeOK
  <2> QED
    BY <2>1, <2>2
<1>8. CountersInStep'
  <2>1. /\ label = "load" => at' \in 1 .. (IF call.kind = "transfer" THEN 5 ELSE 2) /\ at' # 5
        /\ label = "write" => at' = 4 /\ call.kind = "transfer"
    BY <1>1, <1>3
  <2>2. call.kind \in AsyncKinds /\ call.n > 0
    BY <1>0 DEF CountersInStep
  <2>3. call.kind = "transfer" => txRem = (IF at = 5 THEN 0 ELSE call.n)
    BY <1>0 DEF CountersInStep
  <2> QED
    BY <1>0, <1>1, <1>2, <1>3, <1>5, <1>6, <2>1, <2>2, <2>3 DEF CountersInStep, memberVars
<1>9. Enabled'
  <2> SUFFICES ASSUME ~raced' PROVE Enabled'
    BY DEF Enabled
  <2>1. ~raced /\ owed /\ owed'
    BY <1>0, <1>2 DEF Attribution, historyVars
  <2>2. /\ InStep /\ op = call.kind /\ (op = "transfer" => rxRem > 0)
        /\ txRem > 0 \/ rxRem > 0
        /\ \A c \in Blocks : ie[c] = EnabledSoFar(c)
        /\ cr2 = ie[b] /\ Stored = at - 1
    BY <1>0, <1>1, <1>6, <2>1, StartingOperation DEF Enabled, Stored, HandlersIdle, Uncounted, b
  <2>3. /\ EnableOrder' = IF label # "idle" THEN EnableOrder ELSE EnableOrder'
        /\ DataInterrupt("main")' = DataInterrupt("main")
    BY <1>2, <1>3 DEF EnableOrder, DataInterrupt, TxBlock, isTransmitMode
  <2>4. \A c \in Blocks : Awaited(c)' = Awaited(c)
    BY <1>2 DEF Awaited, TxOf, RxOf, Duplex, TxBlock, RxBlock, isTransmitMode, memberVars
  <2>5. CASE label # "idle"
    <3>1. EnableOrder' = EnableOrder /\ Stored \in Nat /\ Stored' = Stored + 1 /\ at # 5
      BY <1>1, <1>3, <1>6, <2>2, <2>3, <2>5 DEF Stored
    <3>2. \A c \in Blocks : EnabledSoFar(c)' = EnabledSoFar(c) \cup (IF b = c THEN {bit} ELSE {})
      BY <2>2, <3>1, OneMoreEnabled, <1>1 DEF b, bit
    <3>3. \A c \in Blocks : ie'[c] = ie[c] \cup (IF b = c THEN {bit} ELSE {})
      BY <1>1, <1>2, <2>2, <3>1 DEF BlockTypeOK
    <3>4. \A c \in Blocks : ie'[c] = EnabledSoFar(c)'
      BY <2>2, <3>2, <3>3
    <3> QED
      BY <1>2, <1>3, <1>5, <1>6, <2>2, <2>5, <3>4 DEF Enabled, memberVars
  <2>6. CASE label = "idle" /\ call.kind # "transfer"
    <3>1. at = 2 /\ \A c \in Blocks : ie[c] = IF c = "main" THEN {"ERRIE"} ELSE {}
      BY <1>1, <1>3, <1>6, <2>2, <2>6, SimpleSoFar
    <3>2. b = "main" /\ bit = DataInterrupt("main")
      BY <2>6, <3>1, SimpleOrder DEF b, bit
    <3>3. \A c \in Blocks : ie'[c] = IF c = "main" THEN {"ERRIE", bit} ELSE {}
      <4>1. ie' = [ie EXCEPT !["main"] = ie["main"] \cup {bit}]
        BY <1>2, <2>2, <3>1, <3>2
      <4>2. ie["main"] = {"ERRIE"} /\ ie["ext"] = {}
        BY <3>1 DEF Blocks
      <4> QED
        BY <4>1, <4>2 DEF BlockTypeOK, Blocks
    <3>4. \A c \in Blocks : ie'[c] = Awaited(c)
      BY <2>2, <2>6, <3>2, <3>3, SimpleAwaited
    <3> QED
      BY <1>2, <1>5, <1>6, <2>1, <2>6, <2>4, <3>4 DEF Enabled
  <2>7. CASE label = "idle" /\ call.kind = "transfer"
    <3>1. at = 5 /\ ~(txRem > 0)
      BY <1>0, <1>1, <1>3, <2>7 DEF CountersInStep
    <3>2. b = TxBlock /\ bit = "TXEIE" /\ \A c \in Blocks : ie[c] = {"ERRIE", DataInterrupt(c)}
      BY <2>2, <2>7, <3>1, TransferOrder, AllSoFar DEF b, bit
    <3>3. \A c \in Blocks : ie'[c] = Awaited(c)
      BY <1>1, <1>2, <2>2, <2>7, <3>1, <3>2, TransferAwaited DEF BlockTypeOK
    <3> QED
      BY <1>2, <1>5, <1>6, <2>1, <2>7, <2>4, <3>3 DEF Enabled
  <2> QED
    BY <2>5, <2>6, <2>7
<1>10. at' \in 0 .. 7
  BY <1>1, <1>3
<1> QED
  BY <1>0, <1>2, <1>3, <1>4, <1>7, <1>8, <1>9, <1>10, StartingKeeps DEF memberVars

\* The start of a transfer writes the first word (i2s_driver.hpp:389, 400).
LEMMA PrimeKeeps ==
  ASSUME IInv, WriteWord("fg")
  PROVE  IInv'
<1> USE BlockAssumption DEF IInv, TypeOK
<1>0. pc["fg"] = "write" /\ startingCall /\ Runs("fg") /\ Goto("fg", "count") /\ "count" \in FgLabels
  BY DEF WriteWord, startingCall, Starting, FgLabels
<1>1. /\ pc'["fg"] = "count" /\ HandlersIdle /\ HandlersIdle'
      /\ \A h \in Handlers : pc[h] = "idle" /\ pc'[h] = "idle"
      /\ pc' \in [Contexts -> FgLabels \cup IsrLabels]
  BY <1>0, StartingPlaces
<1>2. startingCall' /\ priming /\ priming' /\ ~pollingCall' /\ ~cancelling'
  BY <1>0, <1>1 DEF startingCall, Starting, priming, pollingCall, Polling, Capturing, cancelling,
     Cancelling
<1>3. /\ UNCHANGED <<system, mode, ie, st, err, op, rxBuf, txRem, rxRem, found, call, at, cr2,
                     txIndex, rxIndex, historyVars>>
      /\ txBuf' = Advanced(txBuf)
  BY DEF WriteWord
<1>4. BlockTypeOK' /\ MemberTypeOK'
  <2>1. txBuf \in Slot
    BY DEF MemberTypeOK, Slot, Stale, FrameCap, PastEnd
  <2>2. BlockTypeOK'
    BY <2>1 DEF WriteWord, WriteDR, ReadDR, BlockTypeOK, Slot
  <2>3. MemberTypeOK'
    BY <1>3, AdvancedInside DEF MemberTypeOK, historyVars
  <2> QED
    BY <2>2, <2>3
<1>5. CallTypeOK' /\ HistoryTypeOK'
  BY <1>0, <1>1, <1>3 DEF CallTypeOK, HistoryTypeOK, IsrLabels, historyVars
<1>6. Scheduling'
  BY <1>0, <1>1, <1>3, SchedulingKept
<1>7. CountersInStep' /\ IndicesInStep'
  BY <1>0, <1>1, <1>2, <1>3 DEF CountersInStep, IndicesInStep
<1>8. Attribution'
  BY <1>0, <1>1, <1>2, <1>3 DEF Attribution, isBusy, historyVars
<1>9. Ledger'
  <2> SUFFICES ASSUME ~raced', owed' PROVE Ledger'
    BY DEF Ledger
  <2>1. /\ ~Between({"count"}) /\ Between({"count"})'
        /\ ~Between({"countRx"}) /\ ~Between({"countRx"})'
    BY <1>0, <1>1 DEF Between, Contexts
  <2>2. InStep /\ op = "transfer" /\ call.kind = "transfer" /\ size = call.n /\ rxRem = size
        /\ size \in 1 .. MaxCount /\ txRem = call.n
    BY <1>0, <1>1, <1>2, <1>3, StartingOperation DEF historyVars, CountersInStep
  <2>3. txBuf = 1 /\ txBuf' = 2
    <3>1. txBuf + txRem = size + 1 /\ txBuf \in 0 .. PastEnd
      BY <2>1, <2>2 DEF InStep, MemberTypeOK
    <3>2. txBuf = 1 /\ PastEnd \in Nat
      BY <2>2, <3>1 DEF PastEnd
    <3> QED
      BY <1>3, <2>2, <3>1, <3>2, AdvancedInside
  <2>4. InStep'
    BY <1>3, <2>1, <2>2, <2>3, CountersTyped
       DEF InStep, Fits, HasExtension, isTransmitMode, historyVars, Null
  <2> QED
    BY <1>1, <1>3, <2>2, <2>4 DEF Ledger, historyVars
<1>10. EnableOrder' = EnableOrder /\ Stored' = Stored
  BY <1>2, <1>3 DEF EnableOrder, DataInterrupt, Stored, TxBlock, isTransmitMode
<1>11. \A b \in Blocks : EnabledSoFar(b)' = EnabledSoFar(b)
  BY <1>10 DEF EnabledSoFar
<1>12. Enabled'
  BY <1>0, <1>1, <1>2, <1>3, <1>11 DEF Enabled, historyVars, Uncounted
<1> QED
  BY <1>4, <1>5, <1>6, <1>7, <1>8, <1>9, <1>12

\* The first word of a transfer is counted; when it is the only one, the transmit interrupt
\* goes (i2s_driver.hpp:390-393, 401-404).
LEMMA CountPrimedKeeps ==
  ASSUME IInv, CountPrimed
  PROVE  IInv'
<1> USE BlockAssumption DEF IInv, TypeOK
<1>0. pc["fg"] = "count" /\ startingCall /\ Runs("fg") /\ pc["fg"] # "arm" /\ priming
  BY DEF CountPrimed, startingCall, Starting, priming
<1>1. /\ call.kind = "transfer" /\ at = 4 /\ call.n \in 1 .. MaxCount /\ txRem = call.n
      /\ txRem' = call.n - 1 /\ txRem' \in 0 .. MaxCount
  <2>1. call.kind = "transfer" /\ at = 4 /\ call.n \in 1 .. MaxCount /\ txRem = call.n
    BY <1>0 DEF CountersInStep, CallTypeOK
  <2> QED
    BY <2>1, DecrementedPositive DEF CountPrimed
<1>2. PICK label \in {"load", "idle"} :
        /\ Goto("fg", label)
        /\ label = "load" => txRem' = 0 /\ at' = 5 /\ call' = call
        /\ label = "idle" => txRem' > 0 /\ at' = 0 /\ call' = NoCall
  BY <1>1 DEF CountPrimed, StartReturn
<1>3. UNCHANGED <<system, blockVars, st, err, op, txBuf, rxBuf, rxRem, found, cr2, txIndex,
                  rxIndex, historyVars>>
  BY DEF CountPrimed
<1>4. /\ pc'["fg"] = label /\ HandlersIdle /\ HandlersIdle' /\ label \in FgLabels
      /\ \A h \in Handlers : pc[h] = "idle" /\ pc'[h] = "idle"
      /\ pc' \in [Contexts -> FgLabels \cup IsrLabels]
  BY <1>0, <1>2, StartingPlaces DEF FgLabels, Starting
<1>5. (startingCall' <=> label = "load") /\ ~priming' /\ ~pollingCall' /\ ~cancelling'
  BY <1>4 DEF startingCall, Starting, priming, pollingCall, Polling, Capturing, cancelling,
     Cancelling
<1>6. BlockTypeOK' /\ MemberTypeOK'
  <2>1. BlockTypeOK'
    BY <1>3 DEF blockVars, wireVars, rxVars, txVars, BlockTypeOK
  <2>2. MemberTypeOK'
    BY <1>1, <1>3 DEF MemberTypeOK, historyVars, Huge
  <2> QED
    BY <2>1, <2>2
<1>7. CallTypeOK' /\ HistoryTypeOK'
  BY <1>1, <1>2, <1>3, <1>4 DEF CallTypeOK, HistoryTypeOK, IsrLabels, historyVars, NoCall
<1>8. Scheduling'
  BY <1>0, <1>2, <1>3, <1>4, <1>5, SchedulingKept
<1>9. CountersInStep' /\ IndicesInStep'
  BY <1>0, <1>1, <1>2, <1>3, <1>4, <1>5 DEF CountersInStep, IndicesInStep, Huge
<1>10. Attribution'
  BY <1>0, <1>3, <1>4, <1>5 DEF Attribution, isBusy, historyVars, blockVars
<1>11. ASSUME ~raced
       PROVE  /\ owed /\ InStep /\ op = "transfer" /\ size = call.n /\ rxRem = size
              /\ \A b \in Blocks : ie[b] = EnabledSoFar(b)
  BY <1>0, <1>1, <1>4, <1>11, StartingOperation
<1>12. Ledger'
  <2> SUFFICES ASSUME ~raced', owed' PROVE Ledger'
    BY DEF Ledger
  <2>1. /\ Between({"count"}) /\ ~Between({"count"})'
        /\ ~Between({"countRx"}) /\ ~Between({"countRx"})'
    BY <1>0, <1>4 DEF Between, Contexts
  <2>2. InStep'
    BY <1>1, <1>3, <1>11, <2>1, CountersTyped
       DEF InStep, Fits, HasExtension, isTransmitMode, historyVars, blockVars, MemberTypeOK
  <2> QED
    BY <1>1, <1>2, <1>3, <1>4, <1>5, <1>11, <2>2 DEF Ledger, historyVars
<1>13. Enabled'
  <2> SUFFICES ASSUME ~raced' PROVE Enabled'
    BY DEF Enabled
  <2>1. ~raced /\ owed' /\ rxRem' > 0 /\ rxRem > 0 /\ op' = "transfer" /\ op = "transfer"
    BY <1>1, <1>3, <1>11 DEF historyVars
  <2>2. /\ EnableOrder' = IF label = "load" THEN EnableOrder ELSE EnableOrder'
        /\ Stored = 4 /\ (label = "load" => Stored' = 4)
    BY <1>0, <1>2, <1>3, <1>5 DEF EnableOrder, DataInterrupt, TxBlock, isTransmitMode, Stored,
       blockVars
  <2>3. CASE label = "load"
    <3>1. \A b \in Blocks : ie'[b] = EnabledSoFar(b)'
      BY <1>3, <1>11, <2>1, <2>2, <2>3 DEF EnabledSoFar, blockVars
    <3> QED
      BY <1>4, <1>5, <2>1, <2>3, <3>1 DEF Enabled
  <2>4. CASE label = "idle"
    <3>1. \A b \in Blocks : ie[b] = {"ERRIE", DataInterrupt(b)}
      BY <1>1, <1>11, <2>1, <2>2, AllSoFar
    <3>2. \A b \in Blocks : Awaited(b)' = {"ERRIE", DataInterrupt(b)}
      BY <1>2, <1>3, <2>1, <2>4 DEF Awaited, TxOf, RxOf, Duplex, DataInterrupt, TxBlock, RxBlock,
         Blocks, isTransmitMode, blockVars
    <3>3. \A b \in Blocks : ie'[b] = Awaited(b)'
      BY <1>3, <3>1, <3>2 DEF blockVars
    <3>4. ~startingCall' /\ ~cancelling' /\ \A h \in Handlers : pc'[h] # "complete"
      BY <1>4, <1>5, <2>4
    <3> QED
      BY <2>1, <3>3, <3>4 DEF Enabled
  <2> QED
    BY <2>3, <2>4
<1> QED
  BY <1>6, <1>7, <1>8, <1>9, <1>10, <1>12, <1>13

----------------------------------------------------------------------------
(* cancelInterrupt *)

\* disableInterrupts stores to CR2 of the main block three times, and then to that of the
\* companion (i2s_driver.hpp:649-659).
LEMMA CancelOrder ==
  /\ Len(DisableOrder) = IF HasExtension THEN 6 ELSE 3
  /\ DisableOrder[1] = <<"main", "TXEIE">>
  /\ DisableOrder[2] = <<"main", "RXNEIE">>
  /\ DisableOrder[3] = <<"main", "ERRIE">>
  /\ HasExtension => /\ DisableOrder[4] = <<"ext", "TXEIE">>
                     /\ DisableOrder[5] = <<"ext", "RXNEIE">>
                     /\ DisableOrder[6] = <<"ext", "ERRIE">>
<1> DEFINE Pairs == Blocks \X Enables
           of(b) == << <<b, "TXEIE">>, <<b, "RXNEIE">>, <<b, "ERRIE">> >>
           main  == of("main")
           ext   == of("ext")
<1>1. CASE ~HasExtension
  BY <1>1 DEF DisableOrder
<1>2. CASE HasExtension
  <2>1. DisableOrder = main \o ext
    BY <1>2 DEF DisableOrder
  <2>2. /\ main \in Seq(Pairs) /\ Len(main) = 3
        /\ main[1] = <<"main", "TXEIE">> /\ main[2] = <<"main", "RXNEIE">>
        /\ main[3] = <<"main", "ERRIE">>
    BY DEF Blocks, Enables
  <2>3. /\ ext \in Seq(Pairs) /\ Len(ext) = 3
        /\ ext[1] = <<"ext", "TXEIE">> /\ ext[2] = <<"ext", "RXNEIE">>
        /\ ext[3] = <<"ext", "ERRIE">>
    BY DEF Blocks, Enables
  <2> HIDE DEF Pairs, of, main, ext
  <2>4. /\ Len(main \o ext) = Len(main) + Len(ext)
        /\ \A i \in 1 .. Len(main) + Len(ext) :
             (main \o ext)[i] = IF i <= Len(main) THEN main[i] ELSE ext[i - Len(main)]
    BY <2>2, <2>3, ConcatProperties, Zenon
  <2>5. /\ Len(main \o ext) = 6
        /\ \A i \in 1 .. 3 : (main \o ext)[i] = main[i]
        /\ \A i \in 4 .. 6 : (main \o ext)[i] = ext[i - 3]
    BY <2>2, <2>3, <2>4
  <2>6. /\ (main \o ext)[1] = main[1] /\ (main \o ext)[2] = main[2] /\ (main \o ext)[3] = main[3]
        /\ (main \o ext)[4] = ext[1] /\ (main \o ext)[5] = ext[2] /\ (main \o ext)[6] = ext[3]
    BY <2>5
  <2> QED
    BY <1>2, <2>1, <2>2, <2>3, <2>5, <2>6
<1> QED
  BY <1>1, <1>2

\* A cancel counts its read-modify-writes up to seven.
LEMMA CancelSteps ==
  ASSUME NEW i, i = Len(DisableOrder) + 1 \/ i \in 1 .. Len(DisableOrder)
  PROVE  i \in 0 .. 7
<1>1. CASE HasExtension
  <2>1. Len(DisableOrder) = 6
    BY <1>1, CancelOrder
  <2> QED
    BY <2>1
<1>2. CASE ~HasExtension
  <2>1. Len(DisableOrder) = 3
    BY <1>2, CancelOrder
  <2> QED
    BY <2>1
<1> QED
  BY <1>1, <1>2

\* The block and the bit of every read-modify-write of CR2 exist.
LEMMA CancelOrderTyped ==
  ASSUME NEW i \in 1 .. Len(DisableOrder)
  PROVE  DisableOrder[i][1] \in Blocks /\ DisableOrder[i][2] \in Enables
<1>1. CASE HasExtension
  BY <1>1, CancelOrder DEF Blocks, Enables
<1>2. CASE ~HasExtension
  BY <1>2, CancelOrder DEF Blocks, Enables
<1> QED
  BY <1>1, <1>2

\* One read-modify-write further, one interrupt more is disabled.
LEMMA OneMoreDisabled ==
  ASSUME system' = system, at \in Nat \ {0}, at' = at + 1, NEW b \in Blocks
  PROVE  DisabledSoFar(b)' =
           DisabledSoFar(b) \cup (IF DisableOrder[at][1] = b THEN {DisableOrder[at][2]} ELSE {})
<1>1. 1 .. at' - 1 = (1 .. at - 1) \cup {at}
  OBVIOUS
<1>2. DisabledSoFar(b)' = {DisableOrder[i][2] : i \in {j \in 1 .. at' - 1 : DisableOrder[j][1] = b}}
  BY OrderStays DEF DisabledSoFar
<1> QED
  BY <1>1, <1>2 DEF DisabledSoFar

\* After the last one all are.
LEMMA AllDisabled ==
  ASSUME at = Len(DisableOrder) + 1, NEW b \in Blocks, b = "main" \/ HasExtension
  PROVE  Enables \subseteq DisabledSoFar(b)
<1>1. ASSUME NEW i \in 1 .. Len(DisableOrder), DisableOrder[i][1] = b
      PROVE  DisableOrder[i][2] \in DisabledSoFar(b)
  BY <1>1, CancelOrder DEF DisabledSoFar
<1>2. CASE b = "main"
  BY <1>1, <1>2, CancelOrder DEF Enables
<1>3. CASE b = "ext" /\ HasExtension
  BY <1>1, <1>3, CancelOrder DEF Enables
<1> QED
  BY <1>2, <1>3 DEF Blocks

\* A step of a cancel that changes no member of the driver
LEMMA CancellingKeeps ==
  ASSUME IInv, HandlersIdle, pc["fg"] \in {"idle"} \cup Cancelling,
         NEW label \in Cancelling, Goto("fg", label), BlockTypeOK',
         UNCHANGED <<system, mode, memberVars, found, call, txIndex, rxIndex, historyVars>>,
         cr2' \subseteq Enables,
         label = "forget" => at' = Len(DisableOrder) + 1,
         label # "forget" => at' \in 1 .. Len(DisableOrder),
         Enabled'
  PROVE  IInv'
<1> USE DEF IInv, TypeOK, historyVars, memberVars
<1>1. /\ HandlersIdle' /\ pc'["fg"] = label
      /\ \A h \in Handlers : pc[h] = "idle" /\ pc'[h] = "idle"
      /\ pc' \in [Contexts -> FgLabels \cup IsrLabels]
  BY DEF Goto, CallTypeOK, FgLabels, Contexts, Handlers, HandlersIdle
<1>2. /\ ~startingCall' /\ ~pollingCall' /\ ~priming' /\ cancelling' /\ ~pollingCall
      /\ pc["fg"] # "arm" /\ pc'["fg"] # "arm"
      /\ ~startingCall
  BY <1>1 DEF startingCall, Starting, pollingCall, Polling, Capturing, priming, cancelling, Cancelling
<1>3. MemberTypeOK' /\ HistoryTypeOK'
  BY DEF MemberTypeOK, HistoryTypeOK
<1>4. CallTypeOK'
  <2>1. at' \in 0 .. 7
    <3>1. at' = Len(DisableOrder) + 1 \/ at' \in 1 .. Len(DisableOrder)
      OBVIOUS
    <3> QED
      BY <3>1, CancelSteps
  <2> QED
    BY <1>1, <2>1 DEF CallTypeOK, FgLabels, IsrLabels
<1>5. Scheduling'
  BY <1>1, <1>2 DEF Scheduling
<1>6. CountersInStep'
  BY <1>1, <1>2, OrderStays DEF CountersInStep, Cancelling
<1>7. IndicesInStep'
  BY <1>2 DEF IndicesInStep
<1>8. Attribution'
  BY <1>1, <1>2 DEF Attribution, isBusy, Cancelling
<1>9. Ledger'
  <2>1. /\ Between({"count"})' = Between({"count"})
        /\ Between({"countRx"})' = Between({"countRx"})
    BY <1>1 DEF Between, Contexts, Handlers, Cancelling
  <2> QED
    BY <1>2, <2>1 DEF Ledger, InStep, Fits, HasExtension, isTransmitMode
<1> QED
  BY <1>3, <1>4, <1>5, <1>6, <1>7, <1>8, <1>9

\* cancelInterrupt is called, from any state (i2s_driver.hpp:407-410): a board without a
\* companion block has enabled none of that block's interrupts.
LEMMA CancelKeeps ==
  ASSUME IInv, Cancel
  PROVE  IInv'
<1> USE BlockAssumption DEF IInv, TypeOK
<1>1. /\ HandlersIdle /\ pc["fg"] = "idle" /\ Goto("fg", "cancelLoad") /\ at' = 1
      /\ pc'["fg"] = "cancelLoad" /\ "cancelLoad" \in Cancelling
      /\ UNCHANGED <<system, blockVars, memberVars, found, call, cr2, txIndex, rxIndex, historyVars>>
  BY FgRuns DEF Cancel, MayCall, Contexts, Goto, CallTypeOK, Cancelling
<1>2. BlockTypeOK' /\ cr2' \subseteq Enables
  BY <1>1 DEF blockVars, wireVars, rxVars, txVars, BlockTypeOK, CallTypeOK
<1>3. 1 \in 1 .. Len(DisableOrder)
  BY CancelOrder
<1>4. ~startingCall /\ ~cancelling /\ ~startingCall' /\ cancelling'
  BY <1>1 DEF startingCall, Starting, cancelling, Cancelling
<1>5. Enabled'
  <2> SUFFICES ASSUME ~raced' PROVE Enabled'
    BY DEF Enabled
  <2>1. ~raced /\ ie' = ie
    BY <1>1 DEF historyVars, blockVars
  <2>2. \A b \in Blocks : DisabledSoFar(b)' = {}
    BY <1>1 DEF DisabledSoFar
  <2>3. ASSUME ~HasExtension PROVE ie["ext"] = {}
    <3>1. CASE ~owed
      BY <1>4, <2>1, <3>1 DEF Enabled, Blocks
    <3>2. CASE owed
      <4>1. op # "transfer" /\ op \in AsyncKinds
        BY <1>1, <2>1, <2>3, <3>2 DEF Ledger, InStep, Fits
      <4>2. Awaited("ext") = {}
        BY <4>1 DEF Awaited, TxOf, RxOf, Duplex
      <4> QED
        BY <1>1, <1>4, <2>1, <3>2, <4>2 DEF Enabled, HandlersIdle, Blocks
    <3> QED
      BY <3>1, <3>2
  <2> QED
    BY <1>1, <1>4, <2>1, <2>2, <2>3 DEF Enabled, HasExtension
<1> QED
  BY <1>1, <1>2, <1>3, <1>5, CancellingKeeps DEF blockVars

\* The first half of a read-modify-write of CR2 (i2s_driver.hpp:676-689, 716-731)
LEMMA CancelLoadKeeps ==
  ASSUME IInv, CancelLoad
  PROVE  IInv'
<1> USE BlockAssumption DEF IInv, TypeOK
<1>1. /\ HandlersIdle /\ pc["fg"] = "cancelLoad" /\ Goto("fg", "cancelStore")
      /\ pc'["fg"] = "cancelStore" /\ pc["fg"] \in Cancelling /\ "cancelStore" \in Cancelling
      /\ cr2' = ie[DisableOrder[at][1]] /\ at \in 1 .. Len(DisableOrder)
      /\ UNCHANGED <<system, blockVars, memberVars, found, call, at, txIndex, rxIndex, historyVars>>
  BY FgRuns DEF CancelLoad, Goto, CallTypeOK, Contexts, Cancelling, CountersInStep
<1>2. DisableOrder[at][1] \in Blocks
  BY <1>1, CancelOrderTyped
<1>3. BlockTypeOK' /\ cr2' \subseteq Enables
  BY <1>1, <1>2 DEF blockVars, wireVars, rxVars, txVars, BlockTypeOK
<1>4. ~startingCall' /\ cancelling /\ cancelling'
  BY <1>1 DEF startingCall, Starting, cancelling, Cancelling
<1>5. Enabled'
  BY <1>1, <1>2, <1>4, OrderStays DEF Enabled, HasExtension, historyVars, blockVars
<1> QED
  BY <1>1, <1>3, <1>5, CancellingKeeps DEF blockVars

\* The second half: what a handler did to CR2 in between is lost, but nothing that this
\* cancel has already disabled comes back.
LEMMA CancelStoreKeeps ==
  ASSUME IInv, CancelStore
  PROVE  IInv'
<1> USE BlockAssumption DEF IInv, TypeOK
<1> DEFINE b   == DisableOrder[at][1]
           bit == DisableOrder[at][2]
<1>1. /\ HandlersIdle /\ pc["fg"] = "cancelStore" /\ pc["fg"] \in Cancelling
      /\ at \in 1 .. Len(DisableOrder) /\ at' = at + 1 /\ cr2' = {}
      /\ ie' = [ie EXCEPT ![b] = cr2 \ {bit}]
      /\ UNCHANGED <<system, mode, on, wireVars, memberVars, found, call, txIndex, rxIndex,
                     historyVars>>
  BY FgRuns DEF CancelStore, Cancelling, CountersInStep
<1>2. PICK label \in {"cancelLoad", "forget"} :
        Goto("fg", label) /\ label = (IF at < Len(DisableOrder) THEN "cancelLoad" ELSE "forget")
  BY DEF CancelStore
<1>3. pc'["fg"] = label /\ label \in Cancelling
  BY <1>2 DEF Goto, CallTypeOK, Contexts, Cancelling
<1>4. b \in Blocks /\ bit \in Enables
  BY <1>1, CancelOrderTyped
<1> HIDE DEF b, bit
<1>5. BlockTypeOK'
  BY <1>1, <1>4 DEF wireVars, rxVars, txVars, BlockTypeOK, CallTypeOK
<1>6. /\ label = "forget" => at' = Len(DisableOrder) + 1
      /\ label # "forget" => at' \in 1 .. Len(DisableOrder)
  <2>1. Len(DisableOrder) \in Nat
    BY CancelOrder
  <2> QED
    BY <1>1, <1>2, <2>1
<1>7. ~startingCall' /\ cancelling /\ cancelling' /\ pc'["fg"] # "cancelStore"
  BY <1>1, <1>2, <1>3 DEF startingCall, Starting, cancelling, Cancelling
<1>8. Enabled'
  <2> SUFFICES ASSUME ~raced' PROVE Enabled'
    BY DEF Enabled
  <2>1. ~raced /\ at \in Nat \ {0}
    BY <1>1 DEF historyVars
  <2>2. /\ \A c \in Blocks : ie[c] \cap DisabledSoFar(c) = {}
        /\ cr2 \cap DisabledSoFar(b) = {} /\ (~HasExtension => ie["ext"] = {})
    BY <1>1, <1>7, <2>1 DEF Enabled, b
  <2>3. \A c \in Blocks :
          DisabledSoFar(c)' = DisabledSoFar(c) \cup (IF b = c THEN {bit} ELSE {})
    BY <1>1, <2>1, OneMoreDisabled DEF b, bit
  <2>4. \A c \in Blocks : ie'[c] = IF b = c THEN cr2 \ {bit} ELSE ie[c]
    BY <1>1, <1>4 DEF BlockTypeOK
  <2>5. \A c \in Blocks : ie'[c] \cap DisabledSoFar(c)' = {}
    BY <2>2, <2>3, <2>4
  <2>6. ASSUME ~HasExtension PROVE ie'["ext"] = {}
    <3>1. b = "main"
      BY <1>1, <2>6, CancelOrder DEF b
    <3> QED
      BY <2>2, <2>4, <2>6, <3>1 DEF Blocks
  <2> QED
    BY <1>1, <1>7, <2>5, <2>6 DEF Enabled, HasExtension
<1> QED
  BY <1>1, <1>2, <1>3, <1>5, <1>6, <1>8, CancellingKeeps

\* With every interrupt disabled the operation is forgotten (i2s_driver.hpp:411-416).
LEMMA CancelForgetKeeps ==
  ASSUME IInv, CancelForget
  PROVE  IInv'
<1> USE BlockAssumption DEF IInv, TypeOK
<1>1. /\ HandlersIdle /\ pc["fg"] = "forget" /\ Goto("fg", "idle") /\ pc'["fg"] = "idle"
      /\ \A h \in Handlers : pc'[h] = pc[h]
      /\ at = Len(DisableOrder) + 1
      /\ UNCHANGED <<system, blockVars, err, found, call, cr2, txIndex, rxIndex, size, got, clean,
                     raced>>
  BY FgRuns DEF CancelForget, Goto, CallTypeOK, Contexts, Handlers, CountersInStep
<1>2. BlockTypeOK'
  BY <1>1 DEF BlockTypeOK, blockVars, wireVars, rxVars, txVars
<1>3. MemberTypeOK'
  BY <1>1 DEF CancelForget, MemberTypeOK, States, Null, PastEnd, Huge
<1>4. CallTypeOK'
  BY <1>1 DEF CancelForget, Goto, CallTypeOK, FgLabels, Contexts, Handlers
<1>5. HistoryTypeOK'
  BY <1>1 DEF CancelForget, HistoryTypeOK
<1>6. IndicesInStep'
  BY <1>1 DEF IndicesInStep, pollingCall, Polling, Capturing
<1>7. ASSUME ~raced PROVE \A b \in Blocks : ie'[b] = {}
  <2>1. /\ \A b \in Blocks : ie[b] \cap DisabledSoFar(b) = {} /\ ie[b] \subseteq Enables
        /\ ~HasExtension => ie["ext"] = {}
    BY <1>1, <1>7 DEF Enabled, cancelling, Cancelling, BlockTypeOK
  <2>2. \A b \in Blocks : ie[b] = {}
    BY <1>1, <2>1, AllDisabled DEF Blocks
  <2> QED
    BY <1>1, <2>2 DEF blockVars
<1>8. ~isBusy' /\ ~owed' /\ txRem' = 0 /\ rxRem' = 0
  BY DEF CancelForget, isBusy
<1> QED
  BY <1>1, <1>2, <1>3, <1>4, <1>5, <1>6, <1>7, <1>8, CallingKeeps

----------------------------------------------------------------------------
(* The inductive step *)

\* Every step of an orderly system, and stuttering, keeps the inductive invariant.
LEMMA NextKeeps ==
  ASSUME IInv, Orderly, [Next]_vars
  PROVE  IInv'
<1>1. CASE BlockActs
  BY <1>1, BlockKeeps
<1>2. CASE AppCall
  BY <1>2, StartKeeps, StartPollKeeps, CancelKeeps, ConfigureKeeps, ClearKeeps, FlushKeeps
     DEF AppCall
<1>3. CASE CallStep
  BY <1>3, ArmKeeps, LoadKeeps, StoreKeeps, PrimeKeeps, CountPrimedKeeps DEF CallStep
<1>4. CASE CancelStep
  BY <1>4, CancelLoadKeeps, CancelStoreKeeps, CancelForgetKeeps DEF CancelStep
<1>5. CASE PollStep
  <2>1. CheckOverrun("fg") \/ PollVerdict => pollingCall
    BY DEF CheckOverrun, PollVerdict, Verdict, pollingCall, Capturing
  <2> QED
    BY <1>5, <2>1, PollWaitKeeps, PollPutKeeps, PollTakeKeeps, PollCaptureKeeps DEF PollStep
<1>6. CASE PollTimeout
  BY <1>6, PollWaitKeeps
<1>7. CASE FlushStep
  BY <1>7, FlushKeeps
<1>8. ASSUME NEW h \in Handlers, IsrEnter(h) PROVE IInv'
  BY <1>8, IsrEnterKeeps
<1>9. ASSUME NEW h \in Handlers, IsrStep(h) PROVE IInv'
  BY <1>9, IsrTestKeeps, IsrVerdictKeeps, IsrFailKeeps, IsrWriteKeeps, CountWrittenKeeps,
     IsrReadKeeps, CountReadKeeps, IsrDisableKeeps, IsrCompleteKeeps DEF IsrStep
<1>10. CASE UNCHANGED vars
  <2>1. UNCHANGED <<system, blockVars, memberVars, callVars, historyVars>>
    BY <1>10 DEF vars
  <2>2. BlockTypeOK' /\ MemberTypeOK' /\ (isBusy' <=> isBusy)
    BY <2>1 DEF IInv, TypeOK, blockVars, wireVars, rxVars, txVars, memberVars, historyVars,
       BlockTypeOK, MemberTypeOK, isBusy
  <2> QED
    BY <2>1, <2>2, OnlookingKeeps DEF blockVars, memberVars
<1> QED
  BY <1>1, <1>2, <1>3, <1>4, <1>5, <1>6, <1>7, <1>8, <1>9, <1>10 DEF Next

----------------------------------------------------------------------------
(* The theorems *)

\* The inductive invariant holds in every state of an orderly system: who owes a report,
\* which interrupts are enabled, and how counters, pointers and indices stand, at every
\* step of the handlers, the start calls and the polling loops.
THEOREM Invariance == ASSUME Orderly PROVE Spec => []IInv
<1>1. Init => IInv
  BY InitEstablishes
<1>2. IInv /\ [Next]_vars => IInv'
  BY NextKeeps
<1> QED
  BY <1>1, <1>2, PTL DEF Spec

\* Every variable keeps its type; the unsigned counters and the polling indices stay in
\* their ranges (i2s_driver.hpp:187, 224, 268).
THEOREM TypeCorrect == ASSUME Orderly PROVE Spec => []TypeOK
<1>1. IInv => TypeOK
  BY DEF IInv
<1> QED
  BY <1>1, Invariance, PTL

\* txRemaining and rxRemaining (i2s_driver.hpp:390, 437-485) never wrap in an orderly
\* system; the run on UnmaskedSystems shows that they do in one that is not.
THEOREM CountersNeverWrap == ASSUME Orderly PROVE Spec => []NoCounterWraps
<1>1. IInv => NoCounterWraps
  BY DEF IInv, CountersInStep, NoCounterWraps
<1> QED
  BY <1>1, Invariance, PTL

\* The buffer pointers and counters of an operation move together, and no handler leaves
\* the caller's buffers (i2s_driver.hpp:436-487).
THEOREM LedgerHolds == ASSUME Orderly PROVE Spec => []BufferLedger
<1>1. IInv => BufferLedger
  <2> SUFFICES ASSUME IInv, owed, ~raced, pc["fg"] # "arm" PROVE BufferLedger
    BY DEF BufferLedger
  <2>1. InStep /\ op \in AsyncKinds
    BY DEF IInv, Ledger, InStep
  <2> QED
    BY <2>1 DEF InStep, BufferLedger
<1> QED
  BY <1>1, Invariance, PTL

\* Outside the handlers, the start calls and cancelInterrupt the interrupts that are enabled
\* are the ones the operation in progress waits for, on both blocks; and none is when a
\* cancel has made its six stores (i2s_driver.hpp:649-659).
THEOREM InterruptsAreAwaited ==
  ASSUME Orderly PROVE Spec => []InterruptsAreTheAwaitedOnes
<1>1. IInv => InterruptsAreTheAwaitedOnes
  <2> SUFFICES ASSUME IInv, ~raced, ~startingCall, ~cancelling,
                      \A h \in Handlers : pc[h] = "idle"
      PROVE  ie = [b \in Blocks |-> IF owed THEN Awaited(b) ELSE {}]
    BY DEF InterruptsAreTheAwaitedOnes
  <2>1. \A b \in Blocks : ie[b] = IF owed THEN Awaited(b) ELSE {}
    BY DEF IInv, Enabled
  <2> QED
    BY <2>1 DEF IInv, TypeOK, BlockTypeOK
<1> QED
  BY <1>1, Invariance, PTL

----------------------------------------------------------------------------
(* Each step of the driver is a step of AsyncTransfer, or leaves it alone *)

\* The application's steps find the handlers idle and leave them there.
FgStep == AppCall \/ CallStep \/ CancelStep \/ PollStep \/ PollTimeout \/ FlushStep

LEMMA FgStepPlaces ==
  ASSUME IInv, FgStep
  PROVE  HandlersIdle /\ HandlersIdle'
<1>1. HandlersIdle
  BY FgRuns DEF FgStep, AppCall, CallStep, CancelStep, CancelLoad, CancelStore, CancelForget, PollStep, FlushStep, Start, StartPoll, Cancel, Configure,
     Refuse, ClearError, ClearOverrun, ClearUnderrun, FlushStart, SetEnable, Arm, LoadCr2,
     StoreCr2, WriteWord, CountPrimed, PollWait, PollPut, PollTake, CheckOverrun, PollVerdict,
     Verdict, PollTimeout, FlushCheck, FlushDrop
<1>2. \A label : Goto("fg", label) => HandlersIdle'
  BY <1>1 DEF Goto, HandlersIdle, Handlers, IInv, TypeOK, CallTypeOK, Contexts
<1>3. pc' = pc => HandlersIdle'
  BY <1>1 DEF HandlersIdle
<1>4. CASE AppCall
  BY <1>1, <1>2, <1>3, <1>4 DEF AppCall, Start, StartPoll, Cancel, Configure, Refuse, ClearError,
     ClearOverrun, ClearUnderrun, FlushStart, SetEnable, callVars
<1>5. CASE CallStep
  BY <1>1, <1>2, <1>5 DEF CallStep, Arm, LoadCr2, StoreCr2, StartReturn, WriteWord, CountPrimed
<1>6. CASE PollStep \/ PollTimeout
  BY <1>1, <1>2, <1>6 DEF PollStep, PollWait, PollPut, PollTake, CheckOverrun, PollVerdict, Verdict,
     PollTimeout, PollReturn, PollGoto
<1>7. CASE FlushStep
  BY <1>1, <1>2, <1>7 DEF FlushStep, FlushCheck, FlushDrop
<1>8. CASE CancelStep
  BY <1>1, <1>2, <1>8 DEF CancelStep, CancelLoad, CancelStore, CancelForget
<1> QED
  BY <1>1, <1>4, <1>5, <1>6, <1>7, <1>8 DEF FgStep

\* A handler's step moves that handler only.
LEMMA HandlerStepPlaces ==
  ASSUME IInv, NEW h \in Handlers, IsrEnter(h) \/ IsrStep(h)
  PROVE  /\ pc'["fg"] = pc["fg"]
         /\ \A k \in Handlers \ {h} : pc[k] = "idle" => pc'[k] = "idle"
         /\ pc[h] # "idle" => \A k \in Handlers \ {h} : pc[k] = "idle" /\ pc'[k] = "idle"
<1>1. \E label : Goto(h, label)
  BY DEF IsrEnter, IsrStep, IsrCheckBusy, CheckOverrun, IsrVerdict, Verdict, IsrFail, IsrTx,
     WriteWord, CountWritten, IsrRx, IsrRead, CountRead, IsrDone, IsrDisable, IsrComplete, IsrReturn
<1> QED
  BY <1>1 DEF Goto, Handlers, IInv, TypeOK, CallTypeOK, Contexts, Scheduling

Allowed == Transfer!Next \/ UNCHANGED Transfer!vars

\* After a race nothing is said of the operation until the next one begins.
LEMMA RacedIsQuiet ==
  ASSUME raced, raced'
  PROVE  Allowed
BY DEF Allowed, Transfer!vars, transferPhase, transferToSend, transferToStore

\* No operation is in progress and no callback is made.
LEMMA IdleIsQuiet ==
  ASSUME ~raced, ~raced', ~owed, ~owed', HandlersIdle, HandlersIdle'
  PROVE  Allowed
BY DEF Allowed, Transfer!vars, transferPhase, transferToSend, transferToStore, HandlersIdle

\* An operation is in progress, its members are set, and the counters stay.
LEMMA RunningIsQuiet ==
  ASSUME ~raced, ~raced', owed, owed', pc["fg"] # "arm", pc'["fg"] # "arm",
         txRem' = txRem, rxRem' = rxRem
  PROVE  Allowed
BY DEF Allowed, Transfer!vars, transferPhase, transferToSend, transferToStore

\* beginAsync and the start calls (i2s_driver.hpp:321-405, 602-607) begin an operation with
\* as many words in each direction as its kind has.
LEMMA StartAllowed ==
  ASSUME IInv, NEW kind \in AsyncKinds, NEW n \in Counts, Start(kind, n)
  PROVE  Allowed
<1>1. CASE raced'
  BY <1>1, RacedIsQuiet DEF Start, BeginHistory
<1>2. CASE ~raced'
  <2>1. transferPhase # "running"
    BY FgRuns, IdleOwesNothing DEF Start, transferPhase
  <2>2. owed' /\ pc'["fg"] = "arm" /\ call'.kind = kind /\ call'.n = n
    BY DEF Start, Goto, IInv, TypeOK, CallTypeOK, Contexts
  <2>3. /\ transferPhase' = "running"
        /\ transferToSend' = (IF kind = "rx" THEN 0 ELSE n)
        /\ transferToStore' = (IF kind = "tx" THEN 0 ELSE n)
    BY <1>2, <2>2 DEF transferPhase, transferToSend, transferToStore, Planned, AsyncKinds
  <2>4. <<transferToSend', transferToStore'>> \in {<<n, n>>, <<n, 0>>, <<0, n>>}
    BY <2>3
  <2>5. Transfer!Begin
    BY <2>1, <2>3, <2>4 DEF Transfer!Begin, Counts
  <2> QED
    BY <2>5 DEF Allowed, Transfer!Next
<1> QED
  BY <1>1, <1>2

\* Setting the members (i2s_driver.hpp:330-334, 350-354, 373-377) changes nothing of it; when
\* the last one is set, the counters are what the operation asked for.
LEMMA ArmAllowed ==
  ASSUME IInv, Arm
  PROVE  Allowed
<1>0. /\ raced' = raced /\ owed' = owed /\ call' = call /\ pc["fg"] = "arm" /\ at \in 1 .. 5
  BY DEF Arm, IInv, CountersInStep
<1>1. CASE raced
  BY <1>0, <1>1, RacedIsQuiet
<1>2. CASE ~raced
  <2>1. owed /\ Armed /\ call.kind \in AsyncKinds
    BY <1>0, <1>2 DEF IInv, Attribution, Ledger, CountersInStep, startingCall, Starting
  <2>2. /\ transferPhase = "running" /\ transferPhase' = "running"
        /\ transferToSend = Planned({"tx", "transfer"})
        /\ transferToStore = Planned({"rx", "transfer"})
    BY <1>0, <1>2, <2>1 DEF transferPhase, transferToSend, transferToStore
  <2>3. CASE at < 5
    <3>1. pc'["fg"] = "arm"
      BY <2>3 DEF Arm, Goto, IInv, TypeOK, CallTypeOK, Contexts
    <3>2. /\ transferToSend' = Planned({"tx", "transfer"})
          /\ transferToStore' = Planned({"rx", "transfer"})
      BY <1>0, <1>2, <2>1, <3>1 DEF transferToSend, transferToStore, Planned
    <3> QED
      BY <2>2, <3>2 DEF Allowed, Transfer!vars
  <2>4. CASE at = 5
    <3>1. pc'["fg"] = "load" /\ txRem' = txRem /\ rxRem' = rxRem
      BY <2>4 DEF Arm, Goto, IInv, TypeOK, CallTypeOK, Contexts
    <3>2. txRem = Planned({"tx", "transfer"}) /\ rxRem = Planned({"rx", "transfer"})
      BY <2>1, <2>4 DEF Armed, Planned, AsyncKinds
    <3>3. transferToSend' = txRem /\ transferToStore' = rxRem
      BY <1>0, <1>2, <2>1, <3>1 DEF transferToSend, transferToStore
    <3> QED
      BY <2>2, <3>2, <3>3 DEF Allowed, Transfer!vars
  <2> QED
    BY <1>0, <2>3, <2>4
<1> QED
  BY <1>1, <1>2

\* The read-modify-writes of CR2 and the priming write are part of starting.
LEMMA StartingAllowed ==
  ASSUME IInv, LoadCr2 \/ StoreCr2 \/ WriteWord("fg")
  PROVE  Allowed
<1>1. /\ UNCHANGED <<txRem, rxRem, raced, owed>>
      /\ pc["fg"] \in {"load", "store", "write"}
      /\ pc'["fg"] # "arm"
  BY DEF LoadCr2, StoreCr2, StartReturn, WriteWord, Goto, memberVars, historyVars, IInv, TypeOK,
     CallTypeOK, Contexts
<1>2. CASE raced
  BY <1>1, <1>2, RacedIsQuiet
<1>3. CASE ~raced
  <2>1. owed
    BY <1>1, <1>3 DEF IInv, Attribution, startingCall, Starting
  <2> QED
    BY <1>1, <1>3, <2>1, RunningIsQuiet
<1> QED
  BY <1>2, <1>3

\* A word is counted by the start call of a transfer (i2s_driver.hpp:390) or by a handler
\* (i2s_driver.hpp:437, 453, 476): one more is handed over.
LEMMA SentAllowed ==
  ASSUME IInv, ~raced, ~raced', owed, owed', pc["fg"] # "arm", pc'["fg"] # "arm",
         txRem > 0, txRem' = Decremented(txRem), rxRem' = rxRem
  PROVE  Allowed
<1>1. txRem' = txRem - 1
  BY CountersTyped, DecrementedPositive
<1>2. /\ transferPhase = "running" /\ transferPhase' = "running"
      /\ transferToSend = txRem /\ transferToSend' = txRem - 1
      /\ transferToStore' = transferToStore
  BY <1>1 DEF transferPhase, transferToSend, transferToStore
<1> QED
  BY <1>2 DEF Allowed, Transfer!Next, Transfer!SendWord

LEMMA CountPrimedAllowed ==
  ASSUME IInv, CountPrimed
  PROVE  Allowed
<1>1. /\ UNCHANGED <<raced, owed, rxRem>> /\ txRem' = Decremented(txRem)
      /\ pc["fg"] = "count" /\ pc'["fg"] # "arm"
  BY DEF CountPrimed, StartReturn, Goto, historyVars, IInv, TypeOK, CallTypeOK, Contexts
<1>2. CASE raced
  BY <1>1, <1>2, RacedIsQuiet
<1>3. CASE ~raced
  <2>1. startingCall /\ at = 4 /\ call.kind = "transfer" /\ txRem = call.n /\ call.n > 0
    BY <1>1 DEF IInv, CountersInStep, startingCall, Starting, priming
  <2>2. owed
    BY <1>3, <2>1 DEF IInv, Attribution
  <2> QED
    BY <1>1, <1>3, <2>1, <2>2, SentAllowed
<1> QED
  BY <1>2, <1>3

\* What a handler does before it reports belongs to an operation that is running, but for
\* its entry: while a cancel is on its way it may be entered for nothing.
LEMMA HandlerRuns ==
  ASSUME IInv, ~raced, NEW h \in Handlers, IsrEnter(h) \/ IsrStep(h), pc[h] # "callback"
  PROVE  pc["fg"] # "arm" /\ pc'["fg"] # "arm" /\ (owed \/ pc[h] \in {"idle", "entry"})
<1>1. CASE pc[h] = "idle"
  <2>1. IsrEnter(h)
    BY <1>1 DEF IsrStep, IsrCheckBusy, CheckOverrun, IsrVerdict, Verdict, IsrFail, IsrTx,
       WriteWord, CountWritten, IsrRx, IsrRead, CountRead, IsrDone, IsrDisable, IsrComplete,
       IsrReturn
  <2>2. \E b \in Blocks : ie[b] # {}
    BY <2>1 DEF IsrEnter, MayEnter, IrqLine, Handlers, Blocks
  <2> QED
    BY <2>2, HandlerStepPlaces DEF IInv, Attribution
<1>2. CASE pc[h] # "idle"
  BY <1>2, HandlerStepPlaces DEF IInv, Attribution, HandlersIdle
<1> QED
  BY <1>1, <1>2

\* The steps of onInterrupt that neither count a word nor report (i2s_driver.hpp:422-499)
LEMMA HandlerQuietAllowed ==
  ASSUME IInv, NEW h \in Handlers,
         \/ IsrEnter(h) \/ IsrCheckBusy(h) \/ CheckOverrun(h) \/ IsrVerdict(h) \/ IsrTx(h)
         \/ WriteWord(h) \/ IsrRx(h) \/ IsrRead(h) \/ IsrDone(h)
  PROVE  Allowed
<1>1. /\ UNCHANGED <<txRem, rxRem, raced, owed>> /\ pc[h] # "callback"
  BY DEF IsrEnter, MayEnter, IsrCheckBusy, CheckOverrun, IsrVerdict, Verdict, IsrTx, WriteWord,
     IsrRx, IsrRead, IsrDone, memberVars, historyVars
<1>2. CASE raced
  BY <1>1, <1>2, RacedIsQuiet
<1>3. CASE ~raced
  <2>1. pc["fg"] # "arm" /\ pc'["fg"] # "arm" /\ (owed \/ pc[h] \in {"idle", "entry"})
    BY <1>1, <1>3, HandlerRuns DEF IsrStep
  <2>2. CASE owed
    BY <1>1, <1>3, <2>1, <2>2, RunningIsQuiet
  <2>3. CASE ~owed
    <3>1. IsrEnter(h) \/ IsrCheckBusy(h)
      BY <2>1, <2>3 DEF IsrEnter, IsrCheckBusy, CheckOverrun, IsrVerdict, Verdict, IsrTx, WriteWord,
         IsrRx, IsrRead, IsrDone
    <3>2. \A k \in Handlers : pc'[k] = "callback" <=> pc[k] = "callback"
      BY <1>1, <3>1 DEF IsrEnter, IsrCheckBusy, Goto, Handlers, IInv, TypeOK, CallTypeOK, Contexts
    <3>3. st' = st
      BY <3>1 DEF IsrEnter, IsrCheckBusy, memberVars
    <3> QED
      BY <1>1, <1>3, <2>3, <3>2, <3>3
         DEF Allowed, Transfer!vars, transferPhase, transferToSend, transferToStore
  <2> QED
    BY <2>2, <2>3
<1> QED
  BY <1>2, <1>3

LEMMA HandlerCountsAllowed ==
  ASSUME IInv, NEW h \in Handlers, CountWritten(h) \/ CountRead(h)
  PROVE  Allowed
<1>1. UNCHANGED <<raced, owed>> /\ pc[h] \in {"count", "countRx"}
  BY DEF CountWritten, CountRead, historyVars
<1>2. CASE raced
  BY <1>1, <1>2, RacedIsQuiet
<1>3. CASE ~raced
  <2>1. owed /\ pc["fg"] # "arm" /\ pc'["fg"] # "arm"
    BY <1>1, <1>3, HandlerRuns DEF IsrStep
  <2>2. CASE CountWritten(h)
    <3>1. txRem > 0 /\ txRem' = Decremented(txRem) /\ rxRem' = rxRem
      BY <2>2 DEF CountWritten, IInv, CountersInStep
    <3> QED
      BY <1>1, <1>3, <2>1, <3>1, SentAllowed
  <2>3. CASE CountRead(h)
    <3>1. rxRem > 0 /\ rxRem' = Decremented(rxRem) /\ txRem' = txRem
      BY <2>3 DEF CountRead, IInv, CountersInStep
    <3>2. rxRem' = rxRem - 1
      BY <3>1, CountersTyped, DecrementedPositive
    <3>3. /\ transferPhase = "running" /\ transferPhase' = "running"
          /\ transferToStore = rxRem /\ transferToStore' = rxRem - 1
          /\ transferToSend' = transferToSend
      BY <1>1, <1>3, <2>1, <3>1, <3>2 DEF transferPhase, transferToSend, transferToStore
    <3> QED
      BY <3>1, <3>3 DEF Allowed, Transfer!Next, Transfer!StoreWord
  <2> QED
    BY <2>2, <2>3
<1> QED
  BY <1>2, <1>3

\* The error callback (i2s_driver.hpp:424-430) reports the operation in progress.
LEMMA IsrFailAllowed ==
  ASSUME IInv, NEW h \in Handlers, IsrFail(h)
  PROVE  Allowed
<1>1. CASE raced
  BY <1>1, RacedIsQuiet DEF IsrFail
<1>2. CASE ~raced
  <2>1. transferPhase = "running"
    BY <1>2, HandlerRuns DEF IsrFail, IsrStep, transferPhase
  <2>2. ~owed' /\ st' = "error"
    BY <1>2 DEF IsrFail, IInv, Attribution, memberVars
  <2>3. pc'[h] = "callback"
    BY DEF IsrFail, Goto, IInv, TypeOK, CallTypeOK, Contexts
  <2>4. CASE raced'
    BY <2>1, <2>4 DEF Allowed, Transfer!Next, Transfer!Race, Transfer!Drop, transferPhase,
       transferToSend, transferToStore
  <2>5. CASE ~raced'
    BY <2>1, <2>2, <2>3, <2>5 DEF Allowed, Transfer!Next, Transfer!Fail, Transfer!Drop,
       transferPhase, transferToSend, transferToStore
  <2> QED
    BY <2>4, <2>5
<1> QED
  BY <1>1, <1>2

\* Interrupts are disabled once nothing is left (i2s_driver.hpp:492-493): a start call that
\* was interrupted has lost the race for CR2.
LEMMA IsrDisableAllowed ==
  ASSUME IInv, NEW h \in Handlers, IsrDisable(h)
  PROVE  Allowed
<1>1. UNCHANGED <<txRem, rxRem, owed>> /\ pc[h] = "disable" /\ (raced => raced')
  BY DEF IsrDisable, memberVars
<1>2. CASE raced
  BY <1>1, <1>2, RacedIsQuiet
<1>3. CASE ~raced
  <2>1. owed /\ pc["fg"] # "arm" /\ pc'["fg"] # "arm"
    BY <1>1, <1>3, HandlerRuns DEF IsrStep
  <2>2. CASE raced'
    BY <1>3, <2>1, <2>2 DEF Allowed, Transfer!Next, Transfer!Race, Transfer!Drop, transferPhase,
       transferToSend, transferToStore
  <2>3. CASE ~raced'
    BY <1>1, <1>3, <2>1, <2>3, RunningIsQuiet
  <2> QED
    BY <2>2, <2>3
<1> QED
  BY <1>2, <1>3

\* The completion callback (i2s_driver.hpp:494-498) reports it when no word is left.
LEMMA IsrCompleteAllowed ==
  ASSUME IInv, NEW h \in Handlers, IsrComplete(h)
  PROVE  Allowed
<1>1. raced' = raced /\ pc[h] = "complete" /\ st' = "ready" /\ owed' = (owed /\ op = "none")
  BY DEF IsrComplete
<1>2. CASE raced
  BY <1>1, <1>2, RacedIsQuiet
<1>3. CASE ~raced
  <2>1. owed /\ pc["fg"] # "arm"
    BY <1>1, <1>3, HandlerRuns DEF IsrStep
  <2>2. AllDone
    BY <1>1, <1>3 DEF IInv, Attribution
  <2>3. transferPhase = "running" /\ transferToSend = 0 /\ transferToStore = 0
    BY <1>3, <2>1, <2>2 DEF AllDone, transferPhase, transferToSend, transferToStore
  <2>4. ~owed'
    BY <1>1, <2>2 DEF AllDone
  <2>5. pc'[h] = "callback"
    BY DEF IsrComplete, Goto, IInv, TypeOK, CallTypeOK, Contexts
  <2>6. transferPhase' = "completed" /\ transferToSend' = 0 /\ transferToStore' = 0
    BY <1>1, <1>3, <2>4, <2>5 DEF transferPhase, transferToSend, transferToStore
  <2> QED
    BY <2>3, <2>6 DEF Allowed, Transfer!Next, Transfer!Complete
<1> QED
  BY <1>2, <1>3

\* The callback, and with it onInterrupt, returns.
LEMMA IsrReturnAllowed ==
  ASSUME IInv, NEW h \in Handlers, IsrReturn(h)
  PROVE  Allowed
<1>1. UNCHANGED <<raced, owed>> /\ pc[h] = "callback"
  BY DEF IsrReturn, historyVars
<1>2. CASE raced
  BY <1>1, <1>2, RacedIsQuiet
<1>3. CASE ~raced
  <2>1. ~owed
    BY <1>1, <1>3 DEF IInv, Attribution
  <2>2. \A k \in Handlers : pc'[k] = "idle"
    <3>1. pc'[h] = "idle"
      BY DEF IsrReturn, Goto, IInv, TypeOK, CallTypeOK, Contexts
    <3> QED
      BY <1>1, <3>1, HandlerStepPlaces DEF IsrStep
  <2>3. transferPhase \in {"completed", "failed"}
    BY <1>1, <1>3, <2>1 DEF transferPhase
  <2>4. Transfer!Drop("idle")
    BY <1>1, <1>3, <2>1, <2>2
       DEF Transfer!Drop, transferPhase, transferToSend, transferToStore
  <2> QED
    BY <2>3, <2>4 DEF Allowed, Transfer!Next, Transfer!Return
<1> QED
  BY <1>2, <1>3

\* cancelInterrupt (i2s_driver.hpp:407-416) ends what is in progress, when its last store
\* is done: until then a handler may still send and store words, and report.
LEMMA CancelAllowed ==
  ASSUME IInv, Cancel \/ CancelLoad \/ CancelStore
  PROVE  Allowed
<1>1. /\ UNCHANGED <<txRem, rxRem, raced, owed>> /\ pc["fg"] # "arm" /\ pc'["fg"] # "arm"
      /\ HandlersIdle
  BY FgRuns DEF Cancel, CancelLoad, CancelStore, MayCall, Goto, memberVars, historyVars, IInv, TypeOK,
     CallTypeOK, Contexts
<1>2. HandlersIdle'
  BY <1>1 DEF Cancel, CancelLoad, CancelStore, Goto, HandlersIdle, Handlers, IInv, TypeOK,
     CallTypeOK, Contexts
<1>3. CASE raced
  BY <1>1, <1>3, RacedIsQuiet
<1>4. CASE ~raced /\ owed
  BY <1>1, <1>4, RunningIsQuiet
<1>5. CASE ~raced /\ ~owed
  BY <1>1, <1>2, <1>5, IdleIsQuiet
<1> QED
  BY <1>3, <1>4, <1>5

LEMMA CancelForgetAllowed ==
  ASSUME IInv, CancelForget
  PROVE  Allowed
<1>1. raced' = raced /\ ~owed' /\ HandlersIdle
  BY FgRuns DEF CancelForget
<1>2. HandlersIdle'
  BY <1>1 DEF CancelForget, Goto, HandlersIdle, Handlers, IInv, TypeOK, CallTypeOK, Contexts
<1>3. CASE raced
  BY <1>1, <1>3, RacedIsQuiet
<1>4. CASE ~raced /\ owed
  BY <1>1, <1>2, <1>4 DEF Allowed, Transfer!Next, Transfer!Cancel, Transfer!Drop, transferPhase,
     transferToSend, transferToStore, HandlersIdle
<1>5. CASE ~raced /\ ~owed
  BY <1>1, <1>2, <1>5, IdleIsQuiet
<1> QED
  BY <1>3, <1>4, <1>5

\* A polling operation (i2s_driver.hpp:173-319) ends what a race had left.
LEMMA StartPollAllowed ==
  ASSUME IInv, NEW kind \in PollKinds, NEW n \in Counts, StartPoll(kind, n)
  PROVE  Allowed
<1>1. ~owed' /\ HandlersIdle /\ (raced' => raced) /\ ~isBusy
  BY FgRuns DEF StartPoll, BeginHistory
<1>2. HandlersIdle'
  BY <1>1 DEF StartPoll, Goto, HandlersIdle, Handlers, IInv, TypeOK, CallTypeOK, Contexts
<1>3. CASE raced'
  BY <1>1, <1>3, RacedIsQuiet
<1>4. CASE ~raced' /\ raced
  BY <1>1, <1>2, <1>4 DEF Allowed, Transfer!Next, Transfer!Return, Transfer!Drop, transferPhase,
     transferToSend, transferToStore, HandlersIdle
<1>5. CASE ~raced' /\ ~raced
  BY <1>1, <1>2, <1>5, IdleOwesNothing, IdleIsQuiet
<1> QED
  BY <1>3, <1>4, <1>5

\* The other calls of the application and the polling loops touch no operation in progress.
LEMMA OtherCallAllowed ==
  ASSUME IInv,
         \/ Configure \/ Refuse \/ ClearError \/ ClearOverrun \/ ClearUnderrun \/ FlushStart
         \/ SetEnable \/ PollStep \/ PollTimeout \/ FlushStep
  PROVE  Allowed
<1>1. HandlersIdle /\ HandlersIdle'
  BY FgStepPlaces DEF FgStep, AppCall
<1>2. UNCHANGED <<txRem, rxRem, raced, owed>>
  BY DEF Configure, Refuse, ClearError, ClearOverrun, ClearUnderrun, FlushStart, SetEnable, PollStep,
     PollWait, PollPut, PollTake, CheckOverrun, PollVerdict, Verdict, PollTimeout, PollUnchanged,
     FlushStep, FlushCheck, FlushDrop, memberVars, historyVars
<1>3. pc["fg"] # "arm" /\ pc'["fg"] # "arm"
  <2>1. \A label : Goto("fg", label) => pc'["fg"] = label
    BY DEF Goto, IInv, TypeOK, CallTypeOK, Contexts
  <2>2. CASE Configure \/ Refuse \/ ClearError \/ ClearOverrun \/ ClearUnderrun \/ FlushStart
               \/ SetEnable \/ FlushStep
    BY <2>1, <2>2 DEF Configure, Refuse, ClearError, ClearOverrun, ClearUnderrun, FlushStart,
       SetEnable, MayCall, Contexts, callVars, FlushStep, FlushCheck, FlushDrop
  <2>3. CASE PollWait \/ PollTimeout
    BY <2>1, <2>3 DEF PollWait, PollTimeout, PollReturn, PollGoto, AfterWait, Waits
  <2>4. CASE PollPut \/ PollTake \/ CheckOverrun("fg") \/ PollVerdict
    BY <2>1, <2>4 DEF PollPut, PollTake, CheckOverrun, PollVerdict, Verdict
  <2> QED
    BY <2>2, <2>3, <2>4 DEF PollStep
<1>4. CASE raced
  BY <1>2, <1>4, RacedIsQuiet
<1>5. CASE ~raced /\ owed
  BY <1>2, <1>3, <1>5, RunningIsQuiet
<1>6. CASE ~raced /\ ~owed
  BY <1>1, <1>2, <1>6, IdleIsQuiet
<1> QED
  BY <1>4, <1>5, <1>6

\* One case for each action
LEMMA NextAllowed ==
  ASSUME IInv, [Next]_vars
  PROVE  Allowed
<1>1. CASE AppCall
  BY <1>1, StartAllowed, StartPollAllowed, CancelAllowed, OtherCallAllowed DEF AppCall
<1>2. CASE CallStep
  BY <1>2, ArmAllowed, StartingAllowed, CountPrimedAllowed DEF CallStep
<1>3. CASE PollStep \/ PollTimeout \/ FlushStep
  BY <1>3, OtherCallAllowed
<1>4. CASE CancelStep
  BY <1>4, CancelAllowed, CancelForgetAllowed DEF CancelStep
<1>5. ASSUME NEW h \in Handlers, IsrEnter(h) \/ IsrStep(h)
      PROVE  Allowed
  BY <1>5, HandlerQuietAllowed, HandlerCountsAllowed, IsrFailAllowed, IsrDisableAllowed,
     IsrCompleteAllowed, IsrReturnAllowed DEF IsrStep
<1>6. CASE BlockActs \/ UNCHANGED vars
  <2>1. UNCHANGED <<memberVars, callVars, historyVars>>
    BY <1>6 DEF BlockActs, vars
  <2> QED
    BY <2>1 DEF Allowed, Transfer!vars, transferPhase, transferToSend, transferToStore, Planned,
       memberVars, callVars, historyVars
<1> QED
  BY <1>1, <1>2, <1>3, <1>4, <1>5, <1>6 DEF Next

\* The start calls, onInterrupt reached from both blocks, and cancelInterrupt
\* (i2s_driver.hpp:321-499) carry out AsyncTransfer in every orderly system: no word is
\* handed over twice, completion is reported once and only when no word is left.
THEOREM I2sImplementsTransfer == ASSUME Orderly PROVE Spec => ImplementsTransfer
<1>1. Init => Transfer!Init
  <2>1. ASSUME Init PROVE ~raced /\ ~owed /\ \A h \in Handlers : pc[h] = "idle"
    BY <2>1 DEF Init, Contexts
  <2> QED
    BY <2>1 DEF Transfer!Init, transferPhase, transferToSend, transferToStore
<1>2. IInv /\ [Next]_vars => [Transfer!Next]_Transfer!vars
  BY NextAllowed DEF Allowed
<1> QED
  BY <1>1, <1>2, Invariance, PTL DEF Spec, ImplementsTransfer, Transfer!Spec
=============================================================================
