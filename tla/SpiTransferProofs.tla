------------------------- MODULE SpiTransferProofs -------------------------
(***************************************************************************)
(* SpiDriver implements AsyncTransfer, for every buffer length, set of     *)
(* faults, bus modes and entry points: what the start calls, the interrupt *)
(* handler, cancelInterrupt and the callbacks do to one operation is what  *)
(* the abstract module promises.  The step simulation rests on IInv        *)
(* (module SpiDriverProofs) and on one more invariant, Planned.            *)
(***************************************************************************)
EXTENDS SpiDriverProofs

----------------------------------------------------------------------------
(* Planned is an invariant *)

\* No operation is in progress at first.
LEMMA InitPlanned == Init => Planned
  BY DEF Init, Planned, Contexts

\* A step that neither begins a call nor sets a member leaves alone what Planned speaks
\* of, for every context that sets members: the other context does not run meanwhile.
Undisturbed(c) == /\ pc[c] = "arm" /\ at'[c] = at[c] /\ args'[c] = args[c]
                  /\ mode' = mode /\ txRem' = txRem /\ rxRem' = rxRem

LEMMA UndisturbedIsPlanned ==
  ASSUME Planned,
         pc'["isr"] = "fail" => st' = "error",
         ~raced' /\ owed' =>
           ~raced /\ owed /\ \A c \in Contexts : pc'[c] = "arm" => Undisturbed(c)
  PROVE  Planned'
<1> SUFFICES ASSUME ~raced', owed', NEW c \in Contexts, pc'[c] = "arm"
             PROVE  /\ at'[c] > 2 => txRem' = WordsToSend(c)'
                    /\ at'[c] > 4 => rxRem' = WordsToReceive(c)'
  BY DEF Planned
<1>1. ~raced /\ owed /\ Undisturbed(c)
  OBVIOUS
<1>2. WordsToSend(c)' = WordsToSend(c) /\ WordsToReceive(c)' = WordsToReceive(c)
  BY <1>1 DEF Undisturbed, WordsToSend, WordsToReceive
<1> QED
  BY <1>1, <1>2 DEF Planned, Undisturbed

\* The member assignments of the start calls (spi_driver.hpp:284-334)
LEMMA ArmPlanned ==
  ASSUME IInv, IInv', Planned, NEW c \in Contexts, Arm(c)
  PROVE  Planned'
<1>0. pc'["isr"] = "fail" => st' = "error"
  BY DEF Arm, Goto, Planned, IInv, TypeOK, CallTypeOK, Contexts
<1> SUFFICES ASSUME ~raced', owed'
             PROVE  \A d \in Contexts : pc'[d] = "arm" =>
                      /\ at'[d] > 2 => txRem' = WordsToSend(d)'
                      /\ at'[d] > 4 => rxRem' = WordsToReceive(d)'
  BY <1>0 DEF Planned
<1>1. ~raced /\ owed /\ pc[c] = "arm" /\ mode' = mode /\ at[c] \in 1 .. 5
  BY DEF Arm, blockVars, IInv, CountersInStep
<1>2. \A d \in Contexts : pc'[d] = "arm" => d = c
  BY <1>1 DEF Arm, Goto, IInv, Attribution, Contexts, TypeOK, CallTypeOK
<1>3. ASSUME pc'[c] = "arm"
      PROVE  /\ at'[c] > 2 => txRem' = WordsToSend(c)'
             /\ at'[c] > 4 => rxRem' = WordsToReceive(c)'
  <2>1. at[c] < 5 /\ at'[c] = at[c] + 1 /\ args'[c] = args[c]
    BY <1>1, <1>3 DEF Arm, Goto, IInv, TypeOK, CallTypeOK
  <2>2. at[c] = 2 => txRem' = WordsToSend(c)
    BY DEF Arm, WordsToSend
  <2>3. at[c] = 4 => rxRem' = WordsToReceive(c)
    BY DEF Arm, WordsToReceive
  <2>4. (at[c] # 2 => txRem' = txRem) /\ (at[c] # 4 => rxRem' = rxRem)
    BY DEF Arm
  <2>5. WordsToSend(c)' = WordsToSend(c) /\ WordsToReceive(c)' = WordsToReceive(c)
    BY <1>1, <2>1 DEF WordsToSend, WordsToReceive
  <2> QED
    BY <1>1, <2>1, <2>2, <2>3, <2>4, <2>5 DEF Planned
<1> QED
  BY <1>2, <1>3

\* beginAsync (spi_driver.hpp:276-338): nothing is set yet, and nobody else sets members.
LEMMA StartPlanned ==
  ASSUME IInv, IInv', Planned, NEW c \in Contexts, NEW kind \in AsyncKinds, NEW n \in Counts,
         Start(c, kind, n)
  PROVE  Planned'
<1>1. pc' = [pc EXCEPT ![c] = "arm"] /\ at'[c] = 1 /\ pc["isr"] # "fail"
  BY DEF Start, Goto, MayCall, IInv, TypeOK, CallTypeOK
<1>2. ~raced' => \A d \in Contexts : pc'[d] = "arm" => d = c
  BY <1>1 DEF Start, MayCall, BeginHistory, Contexts, IInv, Attribution, TypeOK, CallTypeOK
<1>3. pc'["isr"] # "fail"
  BY <1>1 DEF IInv, TypeOK, CallTypeOK
<1> QED
  BY <1>1, <1>2, <1>3 DEF Planned

\* The steps of the interrupt handler: none runs while the application sets members, and
\* none while a callback does (spi_driver.hpp:352-385).
LEMMA IsrPlanned ==
  ASSUME IInv, Planned, IsrEnter \/ IsrStep
  PROVE  Planned'
<1> USE DEF IInv, TypeOK, CallTypeOK, Contexts
<1>1. pc'["isr"] = "fail" => st' = "error"
  <2>1. CASE IsrCapture
    BY <2>1 DEF IsrCapture, captureErrors, Goto
  <2>2. CASE ~IsrCapture
    BY <2>2 DEF IsrEnter, IsrStep, IsrCheckBusy, IsrFail, IsrTxReady, IsrWrite, IsrRxReady,
       IsrRead, IsrComplete, IsrReturn, Goto
  <2> QED
    BY <2>1, <2>2
<1>2. ASSUME ~raced', owed'
      PROVE  ~raced /\ owed /\ \A c \in Contexts : pc'[c] = "arm" => Undisturbed(c)
  <2>1. ~raced /\ owed /\ pc["isr"] # "arm" /\ pc'["isr"] # "arm" /\ pc'["fg"] = pc["fg"]
    BY <1>2 DEF IsrEnter, IsrStep, IsrCheckBusy, IsrCapture, IsrFail, IsrTxReady, IsrWrite,
       IsrRxReady, IsrRead, IsrComplete, IsrReturn, Goto, Report, historyVars, HistoryTypeOK
  <2>2. pc["fg"] # "arm"
    <3>1. SUFFICES ASSUME pc["fg"] = "arm" PROVE FALSE
      OBVIOUS
    <3>2. pc["isr"] = "idle" /\ ie = {}
      BY <2>1, <3>1 DEF Attribution
    <3> QED
      BY <3>2 DEF IsrEnter, IrqLine, IsrStep, IsrCheckBusy, IsrCapture, IsrFail, IsrTxReady,
         IsrWrite, IsrRxReady, IsrRead, IsrComplete, IsrReturn
  <2> QED
    BY <2>1, <2>2
<1> QED
  BY <1>1, <1>2, UndisturbedIsPlanned

\* The other steps of the calls, of the application and of a callback
LEMMA CallPlanned ==
  ASSUME IInv, Planned,
         \/ \E c \in Contexts : EnableCheck(c) \/ EnableLoad(c) \/ EnableStore(c) \/ Cancel(c)
         \/ \E kind \in PollKinds, n \in Counts : StartPoll(kind, n)
         \/ Configure \/ ClearError \/ ClearOverrun \/ FlushStart \/ SetEnable
         \/ PollStep \/ PollTimeout \/ FlushStep
  PROVE  Planned'
<1> USE DEF IInv, TypeOK, CallTypeOK, Contexts
<1>1. CASE \E c \in Contexts : EnableCheck(c) \/ EnableLoad(c) \/ EnableStore(c)
  <2> PICK c \in Contexts : EnableCheck(c) \/ EnableLoad(c) \/ EnableStore(c)
    BY <1>1
  <2>1. /\ pc'[c] \notin {"arm", "fail"} /\ \A d \in Contexts \ {c} : pc'[d] = pc[d]
        /\ \A d \in Contexts \ {c} : at'[d] = at[d]
        /\ args' = args /\ mode' = mode /\ UNCHANGED <<memberVars, historyVars>>
    BY DEF EnableCheck, EnableLoad, EnableStore, Goto, blockVars
  <2>2. pc'["isr"] = "fail" => st' = "error"
    BY <2>1 DEF Planned, memberVars
  <2>3. ~raced' /\ owed' =>
          ~raced /\ owed /\ \A d \in Contexts : pc'[d] = "arm" => Undisturbed(d)
    BY <2>1 DEF Undisturbed, memberVars, historyVars
  <2> QED
    BY <2>2, <2>3, UndisturbedIsPlanned
<1>2. CASE (\E c \in Contexts : Cancel(c))
             \/ \E kind \in PollKinds, n \in Counts : StartPoll(kind, n)
  BY <1>2 DEF Cancel, StartPoll, MayCall, Goto, Planned, HistoryTypeOK
<1>3. CASE \/ Configure \/ ClearError \/ ClearOverrun \/ FlushStart \/ SetEnable
           \/ PollStep \/ PollTimeout \/ FlushStep
  <2>1. pc["isr"] = "idle" /\ pc'["isr"] = "idle" /\ pc'["fg"] # "arm"
    BY <1>3 DEF Configure, ClearError, ClearOverrun, FlushStart, SetEnable, MayCall, callVars,
       PollStep, PollTxReady, PollWrite, PollRxReady, PollRead, PollCapture, PollTimeout,
       PollReturn, FlushStep, FlushCheck, FlushDrop, Runs, Goto
  <2>2. raced' = raced /\ owed' = owed
    BY <1>3 DEF Configure, ClearError, ClearOverrun, FlushStart, SetEnable, historyVars,
       PollStep, PollTxReady, PollWrite, PollRxReady, PollRead, PollCapture, PollTimeout,
       FlushStep, FlushCheck, FlushDrop
  <2> QED
    BY <2>1, <2>2 DEF Planned
<1> QED
  BY <1>1, <1>2, <1>3

\* The steps of the block (module SpiBlock) touch neither the members nor the mode.
LEMMA BlockActsPlanned ==
  ASSUME IInv, Planned, BlockActs
  PROVE  Planned'
<1>1. mode' = mode /\ UNCHANGED <<memberVars, callVars, historyVars>>
  BY DEF BlockActs, BlockStep, LoadShift, FrameDone, FrameArrives, RaiseFault, ClearFault
<1> QED
  BY <1>1, UndisturbedIsPlanned DEF Undisturbed, Planned, memberVars, callVars, historyVars

\* One case for each action of the application, the interrupt handler and the block
LEMMA NextPlanned ==
  ASSUME IInv, IInv', Planned, [Next]_vars
  PROVE  Planned'
<1>1. CASE AppCall \/ CallbackCall
  BY <1>1, StartPlanned, CallPlanned DEF AppCall, CallbackCall, Contexts
<1>2. CASE \E c \in Contexts : CallStep(c)
  BY <1>2, ArmPlanned, CallPlanned DEF CallStep
<1>3. CASE PollStep \/ PollTimeout \/ FlushStep
  BY <1>3, CallPlanned
<1>4. CASE UNCHANGED vars
  BY <1>4, UndisturbedIsPlanned
     DEF Undisturbed, Planned, vars, blockVars, memberVars, callVars, historyVars
<1> QED
  BY <1>1, <1>2, <1>3, <1>4, IsrPlanned, BlockActsPlanned DEF Next

\* Both invariants hold in every reachable state (spi_driver.hpp:276-385).
LEMMA PlannedInvariance == Spec => [](IInv /\ Planned)
<1>1. Init => Planned
  BY InitPlanned
<1>2. IInv /\ IInv' /\ Planned /\ [Next]_vars => Planned'
  BY NextPlanned
<1> QED
  BY <1>1, <1>2, Invariance, PTL DEF Spec

----------------------------------------------------------------------------
(* Each step of the driver is a step of AsyncTransfer, or leaves it alone *)

Allowed == Transfer!Next \/ UNCHANGED Transfer!vars

\* After a race nothing is said of the operation until the next one begins.
LEMMA RacedIsQuiet ==
  ASSUME raced, raced'
  PROVE  Allowed
BY DEF Allowed, Transfer!vars, transferPhase, transferToSend, transferToStore

\* No operation is in progress and no callback is made.
LEMMA IdleIsQuiet ==
  ASSUME ~raced, ~raced', ~owed, ~owed', pc["isr"] # "callback", pc'["isr"] # "callback"
  PROVE  Allowed
BY DEF Allowed, Transfer!vars, transferPhase, transferToSend, transferToStore

\* An operation is in progress, its members are set, and the counters stay.
NoArm == pc["fg"] # "arm" /\ pc["isr"] # "arm"

LEMMA RunningIsQuiet ==
  ASSUME ~raced, ~raced', owed, owed', NoArm, NoArm', txRem' = txRem, rxRem' = rxRem
  PROVE  Allowed
BY DEF Allowed, NoArm, Transfer!vars, transferPhase, transferToSend, transferToStore

\* beginAsync (spi_driver.hpp:276-338) begins an operation with as many words in each
\* direction as the bus mode gives it.
LEMMA StartAllowed ==
  ASSUME IInv, NEW c \in Contexts, NEW kind \in AsyncKinds, NEW n \in Counts,
         Start(c, kind, n)
  PROVE  Allowed
<1> USE DEF IInv, TypeOK, CallTypeOK, HistoryTypeOK, Contexts
<1>1. CASE raced'
  BY <1>1, RacedIsQuiet DEF Start, BeginHistory
<1>2. CASE ~raced'
  <2>1. transferPhase # "running"
    BY DEF Start, MayCall, Attribution, transferPhase
  <2>2. transferPhase' = "running"
    BY <1>2 DEF Start, transferPhase
  <2>3. /\ pc'[c] = "arm" /\ args'[c].kind = kind /\ args'[c].n = n /\ mode' = mode
        /\ c = "fg" => pc'["isr"] # "arm"
    BY DEF Start, MayCall, Goto
  <2>4. transferToSend' = WordsToSend(c)' /\ transferToStore' = WordsToReceive(c)'
    BY <1>2, <2>3 DEF Start, transferToSend, transferToStore
  <2>5. /\ transferToSend' = (IF kind = "rx" /\ mode # "fullDuplex" THEN 0 ELSE n)
        /\ transferToStore' = (IF kind = "tx" /\ mode # "fullDuplex" THEN 0 ELSE n)
    BY <2>3, <2>4 DEF WordsToSend, WordsToReceive
  <2>6. <<transferToSend', transferToStore'>> \in {<<n, n>>, <<n, 0>>, <<0, n>>}
    BY <2>5 DEF Start, AsyncKinds, Supports, supportsTransfer
  <2>7. Transfer!Begin
    BY <2>1, <2>2, <2>6 DEF Transfer!Begin, Counts
  <2> QED
    BY <2>7 DEF Allowed, Transfer!Next
<1> QED
  BY <1>1, <1>2

\* Setting the members (spi_driver.hpp:284-334) changes nothing of it; when the last one
\* is set, the counters are what the operation asked for.
LEMMA ArmAllowed ==
  ASSUME IInv, Planned, NEW c \in Contexts, Arm(c)
  PROVE  Allowed
<1> USE DEF IInv, TypeOK, CallTypeOK, HistoryTypeOK, Contexts
<1>0. /\ raced' = raced /\ owed' = owed /\ mode' = mode
      /\ pc[c] = "arm" /\ at[c] \in 1 .. 5
  BY DEF Arm, blockVars, CountersInStep
<1>1. CASE raced
  BY <1>0, <1>1, RacedIsQuiet
<1>2. CASE ~raced
  <2>1. owed /\ \A d \in Contexts \ {c} : pc[d] # "arm" /\ pc'[d] # "arm"
    BY <1>0, <1>2 DEF Arm, Goto, Attribution, Enabling
  <2>2. transferToSend = WordsToSend(c) /\ transferToStore = WordsToReceive(c)
    BY <1>0, <1>2, <2>1 DEF transferToSend, transferToStore
  <2>3. CASE at[c] < 5
    <3>1. pc'[c] = "arm" /\ args'[c] = args[c]
      BY <2>3 DEF Arm, Goto
    <3>2. transferToSend' = WordsToSend(c)' /\ transferToStore' = WordsToReceive(c)'
      BY <1>0, <1>2, <2>1, <3>1 DEF transferToSend, transferToStore
    <3>3. WordsToSend(c)' = WordsToSend(c) /\ WordsToReceive(c)' = WordsToReceive(c)
      BY <1>0, <3>1 DEF WordsToSend, WordsToReceive
    <3> QED
      BY <1>0, <1>2, <2>1, <2>2, <3>2, <3>3 DEF Allowed, Transfer!vars, transferPhase
  <2>4. CASE at[c] = 5
    <3>1. pc'[c] = "enable" /\ txRem' = txRem /\ rxRem' = rxRem
      BY <2>4 DEF Arm, Goto
    <3>2. txRem = WordsToSend(c) /\ rxRem = WordsToReceive(c)
      BY <1>0, <1>2, <2>1, <2>4 DEF Planned
    <3>3. transferToSend' = txRem' /\ transferToStore' = rxRem'
      BY <1>0, <1>2, <2>1, <3>1 DEF transferToSend, transferToStore
    <3> QED
      BY <1>0, <1>2, <2>1, <2>2, <3>1, <3>2, <3>3 DEF Allowed, Transfer!vars, transferPhase
  <2> QED
    BY <1>0, <2>3, <2>4
<1> QED
  BY <1>1, <1>2

\* enableAsyncInterrupts (spi_driver.hpp:548-557) is part of starting.
LEMMA EnableAllowed ==
  ASSUME IInv, NEW c \in Contexts, EnableCheck(c) \/ EnableLoad(c) \/ EnableStore(c)
  PROVE  Allowed
<1> USE DEF IInv, TypeOK, CallTypeOK, Contexts
<1>1. /\ UNCHANGED <<memberVars, historyVars>>
      /\ pc[c] \in Enabling /\ pc'[c] # "arm" /\ Runs(c)
      /\ \A d \in Contexts \ {c} : pc'[d] = pc[d]
  BY DEF EnableCheck, EnableLoad, EnableStore, Goto, Enabling
<1>2. CASE raced
  BY <1>1, <1>2, RacedIsQuiet DEF historyVars
<1>3. CASE ~raced
  <2>1. owed /\ NoArm /\ NoArm'
    BY <1>1, <1>3 DEF Attribution, NoArm, Enabling, Runs
  <2> QED
    BY <1>1, <1>3, <2>1, RunningIsQuiet DEF memberVars, historyVars
<1> QED
  BY <1>2, <1>3

\* cancelInterrupt (spi_driver.hpp:340-348) ends what is in progress, or a callback.
LEMMA CancelAllowed ==
  ASSUME IInv, NEW c \in Contexts, Cancel(c)
  PROVE  Allowed
<1> USE DEF IInv, TypeOK, CallTypeOK, HistoryTypeOK, Contexts
<1>1. CASE raced
  BY <1>1, RacedIsQuiet DEF Cancel
<1>2. CASE ~raced
  <2>1. ~raced' /\ ~owed' /\ pc'["isr"] = "idle"
    BY <1>2 DEF Cancel, MayCall, Attribution, fgEnabling, Enabling, Goto
  <2>2. Transfer!Drop("idle")
    BY <2>1 DEF Transfer!Drop, transferPhase, transferToSend, transferToStore
  <2>3. CASE owed
    BY <1>2, <2>2, <2>3 DEF Allowed, Transfer!Next, Transfer!Cancel, transferPhase
  <2>4. CASE ~owed /\ pc["isr"] = "callback"
    <3>1. transferPhase \in {"completed", "failed"}
      BY <1>2, <2>4 DEF transferPhase
    <3> QED
      BY <2>2, <3>1 DEF Allowed, Transfer!Next, Transfer!Return
  <2>5. CASE ~owed /\ pc["isr"] # "callback"
    BY <1>2, <2>1, <2>5, IdleIsQuiet
  <2> QED
    BY <2>3, <2>4, <2>5
<1> QED
  BY <1>1, <1>2

\* The steps of onInterrupt that neither move a word nor report (spi_driver.hpp:352-385)
LEMMA IsrQuietAllowed ==
  ASSUME IInv, IsrEnter \/ IsrCheckBusy \/ IsrCapture \/ IsrTxReady \/ IsrRxReady
                 \/ (IsrReturn /\ pc["isr"] = "done")
  PROVE  Allowed
<1> USE DEF IInv, TypeOK, CallTypeOK, Contexts
<1>1. /\ UNCHANGED <<txRem, rxRem, historyVars>>
      /\ pc["isr"] \notin {"callback", "arm"} /\ pc'["isr"] # "arm" /\ pc'["fg"] = pc["fg"]
      /\ pc["isr"] # "idle" \/ ie # {}
  BY DEF IsrEnter, IsrCheckBusy, IsrCapture, IsrTxReady, IsrRxReady, IsrReturn, Goto,
     memberVars, IrqLine
<1>2. CASE raced
  BY <1>1, <1>2, RacedIsQuiet DEF historyVars
<1>3. CASE ~raced
  <2>1. owed /\ NoArm /\ NoArm'
    BY <1>1, <1>3 DEF Attribution, NoArm
  <2> QED
    BY <1>1, <1>3, <2>1, RunningIsQuiet DEF historyVars
<1> QED
  BY <1>2, <1>3

\* writeNextAsyncWord (spi_driver.hpp:363-368) hands over one more word.
LEMMA IsrWriteAllowed ==
  ASSUME IInv, IsrWrite
  PROVE  Allowed
<1> USE DEF IInv, TypeOK, CallTypeOK, Contexts
<1>1. raced' = raced /\ owed' = owed
  BY DEF IsrWrite, historyVars
<1>2. CASE raced
  BY <1>1, <1>2, RacedIsQuiet
<1>3. CASE ~raced
  <2>1. owed /\ txRem > 0 /\ NoArm /\ NoArm'
    BY <1>3 DEF IsrWrite, Goto, Attribution, CountersInStep, NoArm
  <2>2. /\ transferPhase = "running" /\ transferPhase' = "running"
        /\ transferToSend = txRem /\ transferToSend' = txRem - 1
        /\ transferToStore' = transferToStore
    BY <1>1, <1>3, <2>1
       DEF IsrWrite, NoArm, transferPhase, transferToSend, transferToStore
  <2> QED
    BY <2>1, <2>2 DEF Allowed, Transfer!Next, Transfer!SendWord
<1> QED
  BY <1>2, <1>3

\* readNextAsyncWord (spi_driver.hpp:370-375) stores one more word.
LEMMA IsrReadAllowed ==
  ASSUME IInv, IsrRead
  PROVE  Allowed
<1> USE DEF IInv, TypeOK, CallTypeOK, Contexts
<1>1. raced' = raced /\ owed' = owed
  BY DEF IsrRead
<1>2. CASE raced
  BY <1>1, <1>2, RacedIsQuiet
<1>3. CASE ~raced
  <2>1. owed /\ rxRem > 0 /\ NoArm /\ NoArm'
    BY <1>3 DEF IsrRead, Goto, Attribution, CountersInStep, NoArm
  <2>2. /\ transferPhase = "running" /\ transferPhase' = "running"
        /\ transferToStore = rxRem /\ transferToStore' = rxRem - 1
        /\ transferToSend' = transferToSend
    BY <1>1, <1>3, <2>1
       DEF IsrRead, NoArm, transferPhase, transferToSend, transferToStore
  <2> QED
    BY <2>1, <2>2 DEF Allowed, Transfer!Next, Transfer!StoreWord
<1> QED
  BY <1>2, <1>3

\* The error callback (spi_driver.hpp:358-360) reports the operation in progress.
LEMMA IsrFailAllowed ==
  ASSUME IInv, Planned, IsrFail
  PROVE  Allowed
<1> USE DEF IInv, TypeOK, CallTypeOK, HistoryTypeOK, Contexts
<1>1. CASE raced
  BY <1>1, RacedIsQuiet DEF IsrFail
<1>2. CASE ~raced
  <2>1. transferPhase = "running"
    BY <1>2 DEF IsrFail, Attribution, transferPhase
  <2>2. ~owed' /\ pc'["isr"] = "callback" /\ st' = "error"
    BY DEF IsrFail, Report, Goto, Planned, memberVars
  <2>3. CASE raced'
    BY <2>1, <2>3 DEF Allowed, Transfer!Next, Transfer!Race, Transfer!Drop, transferPhase,
       transferToSend, transferToStore
  <2>4. CASE ~raced'
    BY <2>1, <2>2, <2>4 DEF Allowed, Transfer!Next, Transfer!Fail, Transfer!Drop,
       transferPhase, transferToSend, transferToStore
  <2> QED
    BY <2>3, <2>4
<1> QED
  BY <1>1, <1>2

\* The completion callback (spi_driver.hpp:378-384) reports it when no word is left.
LEMMA IsrCompleteAllowed ==
  ASSUME IInv, IsrComplete
  PROVE  Allowed
<1> USE DEF IInv, TypeOK, CallTypeOK, HistoryTypeOK, Contexts
<1>1. CASE raced
  BY <1>1, RacedIsQuiet DEF IsrComplete
<1>2. CASE ~raced
  <2>1. owed /\ NoArm /\ txRem = 0 /\ rxRem = 0
    BY <1>2 DEF IsrComplete, AllDone, Attribution, NoArm
  <2>2. transferPhase = "running" /\ transferToSend = 0 /\ transferToStore = 0
    BY <1>2, <2>1 DEF NoArm, transferPhase, transferToSend, transferToStore
  <2>3. /\ ~owed' /\ pc'["isr"] = "callback" /\ st' = "ready"
        /\ transferToSend' = 0 /\ transferToStore' = 0
    BY DEF IsrComplete, Report, Goto, transferToSend, transferToStore
  <2>4. CASE raced'
    BY <2>2, <2>3, <2>4
       DEF Allowed, Transfer!Next, Transfer!Race, Transfer!Drop, transferPhase
  <2>5. CASE ~raced'
    BY <2>2, <2>3, <2>5 DEF Allowed, Transfer!Next, Transfer!Complete, transferPhase
  <2> QED
    BY <2>4, <2>5
<1> QED
  BY <1>1, <1>2

\* A callback returns, and with it onInterrupt (spi_driver.hpp:360, 384).
LEMMA CallbackReturnAllowed ==
  ASSUME IInv, IsrReturn, pc["isr"] = "callback"
  PROVE  Allowed
<1> USE DEF IInv, TypeOK, CallTypeOK, HistoryTypeOK, Contexts
<1>1. /\ UNCHANGED <<txRem, rxRem, raced, owed>>
      /\ pc'["isr"] = "idle" /\ pc'["fg"] = pc["fg"]
  BY DEF IsrReturn, Goto, memberVars, historyVars
<1>2. CASE raced
  BY <1>1, <1>2, RacedIsQuiet
<1>3. CASE ~raced /\ owed
  <2>1. NoArm /\ NoArm'
    BY <1>1, <1>3 DEF Attribution, NoArm
  <2> QED
    BY <1>1, <1>3, <2>1, RunningIsQuiet
<1>4. CASE ~raced /\ ~owed
  <2>1. transferPhase \in {"completed", "failed"}
    BY <1>4 DEF transferPhase
  <2>2. Transfer!Drop("idle")
    BY <1>1, <1>4 DEF Transfer!Drop, transferPhase, transferToSend, transferToStore
  <2> QED
    BY <2>1, <2>2 DEF Allowed, Transfer!Next, Transfer!Return
<1> QED
  BY <1>2, <1>3, <1>4

\* A polling operation (spi_driver.hpp:160-252) ends what a race had left.
LEMMA StartPollAllowed ==
  ASSUME IInv, NEW kind \in PollKinds, NEW n \in Counts, StartPoll(kind, n)
  PROVE  Allowed
<1> USE DEF IInv, TypeOK, CallTypeOK, HistoryTypeOK, Contexts
<1>1. ~owed' /\ pc["isr"] = "idle" /\ pc'["isr"] = "idle" /\ (raced' => raced)
  BY DEF StartPoll, MayCall, Goto, BeginHistory
<1>2. CASE raced'
  BY <1>1, <1>2, RacedIsQuiet
<1>3. CASE ~raced' /\ raced
  BY <1>1, <1>3 DEF Allowed, Transfer!Next, Transfer!Return, Transfer!Drop, transferPhase,
     transferToSend, transferToStore
<1>4. CASE ~raced' /\ ~raced
  <2>1. ~owed
    BY <1>1, <1>4 DEF StartPoll, Attribution
  <2> QED
    BY <1>1, <1>4, <2>1, IdleIsQuiet
<1> QED
  BY <1>2, <1>3, <1>4

\* The other calls of the application and the polling loops do not touch an operation in
\* progress: they are refused, or only clear the sticky error (spi_driver.hpp:80-155,
\* 160-274).
LEMMA OtherCallAllowed ==
  ASSUME IInv, \/ Configure \/ ClearError \/ ClearOverrun \/ FlushStart \/ SetEnable
               \/ PollStep \/ PollTimeout \/ FlushStep
  PROVE  Allowed
<1> USE DEF IInv, TypeOK, CallTypeOK, HistoryTypeOK, Contexts
<1>1. /\ pc["isr"] = "idle" /\ pc'["isr"] = "idle" /\ raced' = raced /\ owed' = owed
      /\ pc["fg"] # "arm" /\ pc'["fg"] # "arm"
  BY DEF Configure, ClearError, ClearOverrun, FlushStart, SetEnable, MayCall, callVars,
     historyVars, PollStep, PollTxReady, PollWrite, PollRxReady, PollRead, PollCapture,
     PollTimeout, PollReturn, FlushStep, FlushCheck, FlushDrop, Runs, Goto, Polling, Flushing
<1>2. CASE raced
  BY <1>1, <1>2, RacedIsQuiet
<1>3. CASE ~raced /\ ~owed
  BY <1>1, <1>3, IdleIsQuiet
<1>4. CASE ~raced /\ owed
  <2>1. ClearError
    <3>1. isBusy /\ pc["fg"] \notin Polling \cup Flushing
      BY <1>1, <1>4 DEF Attribution
    <3> QED
      BY <3>1 DEF Configure, ClearOverrun, FlushStart, SetEnable, PollStep, PollTxReady,
         PollWrite, PollRxReady, PollRead, PollCapture, PollTimeout, FlushStep, FlushCheck,
         FlushDrop, Polling, Flushing
  <2> QED
    BY <1>1, <1>4, <2>1, RunningIsQuiet DEF ClearError, NoArm
<1> QED
  BY <1>2, <1>3, <1>4

\* What the abstract operation is seen through is left alone.
LEMMA UntouchedAllowed ==
  ASSUME mode' = mode, UNCHANGED <<memberVars, callVars, historyVars>>
  PROVE  Allowed
BY DEF Allowed, Transfer!vars, transferPhase, transferToSend, transferToStore, WordsToSend,
   WordsToReceive, memberVars, callVars, historyVars

\* One case for each action
LEMMA NextAllowed ==
  ASSUME IInv, Planned, [Next]_vars
  PROVE  Allowed
<1>1. CASE AppCall
  <2>1. CASE \E kind \in AsyncKinds \cap Calls, n \in Counts : Start("fg", kind, n)
    BY <2>1, StartAllowed DEF Contexts
  <2>2. CASE \E kind \in PollKinds \cap Calls, n \in Counts : StartPoll(kind, n)
    BY <2>2, StartPollAllowed
  <2>3. CASE Cancel("fg")
    BY <2>3, CancelAllowed DEF Contexts
  <2> QED
    BY <1>1, <2>1, <2>2, <2>3, OtherCallAllowed DEF AppCall
<1>2. CASE CallbackCall
  BY <1>2, StartAllowed, CancelAllowed DEF CallbackCall, Contexts
<1>3. CASE \E c \in Contexts : CallStep(c)
  BY <1>3, ArmAllowed, EnableAllowed DEF CallStep
<1>4. CASE PollStep \/ PollTimeout \/ FlushStep
  BY <1>4, OtherCallAllowed
<1>5. CASE IsrEnter \/ IsrStep
  <2>1. IsrReturn => pc["isr"] \in {"done", "callback"}
    BY DEF IsrReturn
  <2> QED
    BY <1>5, <2>1, IsrQuietAllowed, IsrWriteAllowed, IsrReadAllowed, IsrFailAllowed,
       IsrCompleteAllowed, CallbackReturnAllowed DEF IsrStep
<1>6. CASE BlockActs
  <2>1. mode' = mode
    BY <1>6 DEF BlockActs, BlockStep, LoadShift, FrameDone, FrameArrives, RaiseFault, ClearFault
  <2> QED
    BY <1>6, <2>1, UntouchedAllowed DEF BlockActs
<1>7. CASE UNCHANGED vars
  BY <1>7, UntouchedAllowed DEF vars, blockVars
<1> QED
  BY <1>1, <1>2, <1>3, <1>4, <1>5, <1>6, <1>7 DEF Next

\* The start calls, onInterrupt, cancelInterrupt and the callbacks (spi_driver.hpp:276-385,
\* 548-621) carry out AsyncTransfer, for every buffer length, set of faults, bus modes and
\* entry points: no word is handed over twice, completion is reported once and only when
\* no word is left, and only a race for CR2 leaves an operation undefined.
THEOREM SpiImplementsTransfer == Spec => ImplementsTransfer
<1>1. Init => Transfer!Init
  <2>1. ASSUME Init PROVE ~raced /\ ~owed /\ pc["isr"] # "callback"
    BY <2>1 DEF Init, Contexts
  <2> QED
    BY <2>1 DEF Transfer!Init, transferPhase, transferToSend, transferToStore
<1>2. IInv /\ Planned /\ [Next]_vars => [Transfer!Next]_Transfer!vars
  BY NextAllowed DEF Allowed
<1> QED
  BY <1>1, <1>2, PlannedInvariance, PTL DEF Spec, ImplementsTransfer, Transfer!Spec
=============================================================================
