--------------------------- MODULE SpiWireProofs ---------------------------
(***************************************************************************)
(* The words of an operation on the wire and in the receive buffer, for    *)
(* every buffer length, set of faults, bus modes and entry points:         *)
(* WireOrder, CompletedTransferIsExact and PolledTransferIsExact (module   *)
(* SpiDriver) follow from WireInv, which counts the words written and the  *)
(* replies taken against txRemaining, rxRemaining and the polling index,   *)
(* and follows each reply from the shift register to the buffer.           *)
(***************************************************************************)
EXTENDS SpiTransferProofs

Exact == Supported /\ Outgoing /\ Incoming /\ Replies

----------------------------------------------------------------------------
(* Sequences of the words in order *)

\* NumberedTo(n) has n words, none at first, and the next one is appended to it.
LEMMA NumberedProperties ==
  ASSUME NEW n \in Nat
  PROVE  /\ Len(NumberedTo(n)) = n
         /\ NumberedTo(0) = <<>>
         /\ Append(NumberedTo(n), n + 1) = NumberedTo(n + 1)
<1>1. NumberedTo(n) \in Seq(Nat) /\ Len(NumberedTo(n)) = n
  BY DEF NumberedTo
<1>2. NumberedTo(0) = <<>>
  BY DEF NumberedTo
<1> DEFINE longer == Append(NumberedTo(n), n + 1)
<1>3. longer \in Seq(Nat) /\ NumberedTo(n + 1) \in Seq(Nat)
  BY <1>1, AppendProperties DEF NumberedTo
<1>4. Len(longer) = n + 1 /\ Len(NumberedTo(n + 1)) = n + 1
  BY <1>1, AppendProperties DEF NumberedTo
<1>5. \A i \in 1 .. n + 1 : longer[i] = NumberedTo(n + 1)[i]
  BY <1>1, AppendProperties DEF NumberedTo
<1>6. longer = NumberedTo(n + 1)
  BY <1>3, <1>4, <1>5, SeqEqual
<1> QED
  BY <1>1, <1>2, <1>6

----------------------------------------------------------------------------
(* Steps that leave the words alone *)

\* What a mode supports does not change under an operation.
LEMMA SupportedKept ==
  ASSUME Supported, UNCHANGED <<mode, op>>,
         ~raced' => ~raced,
         owed' /\ ~arming' => owed /\ ~arming,
         \A c \in Contexts : pc'[c] = "arm" => pc[c] = "arm" /\ args'[c] = args[c],
         polling' => polling /\ args'["fg"] = args["fg"] /\ (isBusy => isBusy')
  PROVE  Supported'
<1>1. Supports(op)' <=> Supports(op)
  BY DEF Supports, supportsTransmit, supportsReceive, supportsTransfer
<1>2. polling' => (Supports(args["fg"].kind)' <=> Supports(args["fg"].kind))
  BY DEF Supports, supportsTransmit, supportsReceive, supportsTransfer
<1>3. \A c \in Contexts :
        pc'[c] = "arm" => (Supports(args[c].kind)' <=> Supports(args[c].kind))
  BY DEF Supports, supportsTransmit, supportsReceive, supportsTransfer
<1> QED
  BY <1>1, <1>2, <1>3 DEF Supported

\* No operation is in progress afterwards: only the words that have been sent matter.
LEMMA OverIsExact ==
  ASSUME Exact,
         ovrSeq' => ovr',
         ~raced' => /\ ~raced /\ ~owed' /\ UNCHANGED <<txb, sent>>
                    /\ pc'["fg"] \notin {"arm"} \cup Polling
                    /\ pc'["isr"] \notin {"arm", "write", "read"}
  PROVE  Exact'
<1> USE DEF Exact, Contexts, arming, polling, Polling
<1>1. Supported' /\ Incoming'
  BY DEF Supported, Incoming
<1>2. Outgoing'
  BY DEF Outgoing
<1>3. Replies'
  BY DEF Replies, inProgress
<1> QED
  BY <1>1, <1>2, <1>3

\* The operation, its words and the contexts that move them stay where they are.
Onlooking == {"idle", "entry", "capture", "done", "callback"} \cup Enabling

LEMMA UntouchedIsExact ==
  ASSUME Exact,
         UNCHANGED <<mode, wireVars, historyVars, index, op, rxBuf, txRem, rxRem>>,
         args'["fg"] = args["fg"],
         \A c \in Contexts : pc'[c] = "arm" => pc[c] = "arm" /\ args'[c] = args[c],
         polling /\ isBusy => isBusy',
         \/ pc'["fg"] = pc["fg"]
         \/ {pc["fg"], pc'["fg"]} \subseteq {"idle"} \cup Enabling \cup Flushing,
         pc'["isr"] = pc["isr"] \/ {pc["isr"], pc'["isr"]} \subseteq Onlooking
  PROVE  Exact'
<1> USE DEF Exact, Contexts, Onlooking, Enabling, Flushing, arming, polling, Polling, wireVars,
            historyVars
<1>1. Supported'
  BY DEF Supported, Supports, supportsTransmit, supportsReceive, supportsTransfer
<1>2. Outgoing'
  BY DEF Outgoing, Written, Held, Listens, Writes
<1>3. Incoming'
  BY DEF Incoming, Listens
<1>4. Replies'
  BY DEF Replies, inProgress, EchoChain, FrameChain, taken, stores, Held, Listens
<1> QED
  BY <1>1, <1>2, <1>3, <1>4

\* The steps of enableAsyncInterrupts (spi_driver.hpp:548-557), the entry and the return of
\* the handler, and the calls that leave the wire alone
LEMMA QuietExact ==
  ASSUME IInv, Exact,
         \/ \E c \in Contexts : EnableCheck(c) \/ EnableLoad(c) \/ EnableStore(c)
         \/ IsrEnter \/ IsrCheckBusy \/ IsrReturn \/ ClearError \/ FlushStart \/ SetEnable
  PROVE  Exact'
<1> USE DEF IInv, TypeOK, CallTypeOK, Contexts, Onlooking, Enabling, Flushing, Goto, wireVars,
            blockVars, memberVars, callVars, historyVars
<1>1. CASE \E c \in Contexts : EnableCheck(c) \/ EnableLoad(c) \/ EnableStore(c)
  BY <1>1, UntouchedIsExact DEF EnableCheck, EnableLoad, EnableStore, isBusy
<1>2. CASE IsrEnter \/ IsrCheckBusy \/ IsrReturn
  BY <1>2, UntouchedIsExact DEF IsrEnter, IsrCheckBusy, IsrReturn, isBusy
<1>3. CASE ClearError \/ FlushStart \/ SetEnable
  BY <1>3, UntouchedIsExact DEF ClearError, FlushStart, SetEnable, MayCall, isBusy
<1> QED
  BY <1>1, <1>2, <1>3

\* The steps that end an operation, by a report, by cancelInterrupt or by the return of a
\* polling call, and the calls the application makes when none is in progress
LEMMA EndExact ==
  ASSUME IInv, Exact,
         \/ IsrFail \/ IsrComplete \/ (\E c \in Contexts : Cancel(c))
         \/ PollTimeout \/ FlushStep \/ Configure \/ ClearOverrun
  PROVE  Exact'
<1> USE DEF IInv, TypeOK, CallTypeOK, Contexts, Goto, Runs, wireVars, txVars, historyVars, Exact,
            Incoming, HistoryTypeOK
<1>1. CASE IsrFail \/ IsrComplete
  <2>1. /\ ~owed' /\ UNCHANGED wireVars /\ pc'["fg"] = pc["fg"] /\ pc'["isr"] = "callback"
        /\ raced' = (raced \/ fgEnabling)
    BY <1>1 DEF IsrFail, IsrComplete, Report
  <2>2. ~raced => pc["fg"] \in {"idle"} \cup Enabling
    BY <1>1 DEF IsrFail, IsrComplete, Attribution, FgLabels
  <2> QED
    BY <2>1, <2>2, OverIsExact DEF fgEnabling, Enabling, Polling
<1>2. CASE \E c \in Contexts : Cancel(c)
  BY <1>2, OverIsExact
     DEF Cancel, MayCall, fgEnabling, Attribution, Enabling, Polling
<1>3. CASE PollTimeout \/ FlushStep
  <2>1. /\ UNCHANGED <<txb, sent, owed, raced>> /\ pc'["isr"] = "idle" /\ pc["isr"] = "idle"
        /\ pc'["fg"] \in {"idle"} \cup Flushing /\ pc["fg"] \in Polling \cup Flushing
    BY <1>3 DEF PollTimeout, PollReturn, FlushStep, FlushCheck, FlushDrop, Polling, Flushing
  <2>2. ovrSeq' => ovr'
    BY <1>3 DEF PollTimeout, FlushStep, FlushCheck, FlushDrop, ReadSR, ReadDR, BlockTypeOK
  <2>3. ~raced => ~owed
    BY <2>1 DEF Attribution
  <2> QED
    BY <2>1, <2>2, <2>3, OverIsExact DEF Flushing, Polling
<1>4. CASE Configure \/ ClearOverrun
  BY <1>4, OverIsExact
     DEF Configure, ClearOverrun, MayCall, callVars, memberVars, Attribution, Polling, isBusy
<1> QED
  BY <1>1, <1>2, <1>3, <1>4

----------------------------------------------------------------------------
(* The start of an operation *)

\* Whatever the block holds is of an earlier operation; of this one no word is written and
\* none taken, and a clean one finds the block empty (spi_driver.hpp:276-338).
LEMMA BeginIsExact ==
  ASSUME IInv, Exact, NEW c \in Contexts, BeginHistory(c),
         UNCHANGED <<mode, ovr, ovrSeq>>,
         Supported',
         \/ arming' /\ ~polling'
         \/ polling' /\ ~arming' /\ ~owed' /\ index' = 0 /\ pc'["fg"] \in {"waitTx", "waitRx"},
         polling' => (pc'["fg"] = "waitTx" <=> Writes'),
         pc'["isr"] \in {"idle", "callback", "arm"}, pc'["fg"] \notin {"write", "read"}
  PROVE  Exact'
<1> USE DEF Exact, IInv, TypeOK, BlockTypeOK, Contexts, BeginHistory, AsStale
<1>1. sent' = <<>> /\ Len(sent') = 0 /\ got' = <<>> /\ NumberedTo(0) = <<>>
  BY NumberedProperties
<1>2. txb' \in {Empty, Stale} /\ Written' = 0
  BY <1>1 DEF Written, Held
<1>3. Outgoing'
  BY <1>1, <1>2 DEF Outgoing, arming, polling, Polling
<1>4. clean' => txb' = Empty /\ shift' = Empty /\ rxb' = Empty /\ ~ovr' /\ ~ovrSeq'
  BY DEF Incoming
<1>5. Incoming'
  BY DEF Incoming, arming, polling, Polling
<1>6. taken' = 0
  BY DEF taken, polling, arming, Polling
<1>7. Replies'
  BY <1>1, <1>4, <1>6 DEF Replies, EchoChain, FrameChain, Held, Empty, Stale
<1> QED
  BY <1>3, <1>5, <1>7

\* beginAsync, and the checks and the first members of a start call (spi_driver.hpp:276-338)
LEMMA StartExact ==
  ASSUME IInv, Exact, NEW c \in Contexts, NEW kind \in AsyncKinds, NEW n \in Counts,
         Start(c, kind, n)
  PROVE  Exact'
<1> USE DEF IInv, TypeOK, CallTypeOK, Contexts, Goto
<1>1. /\ pc'[c] = "arm" /\ args'[c].kind = kind /\ Supports(kind) /\ mode' = mode
      /\ \A d \in Contexts \ {c} : pc'[d] = pc[d] /\ args'[d] = args[d]
      /\ pc["isr"] \in {"idle", "callback"}
  BY DEF Start, MayCall
<1>2. ~raced' => \A d \in Contexts \ {c} : pc'[d] = "idle"
  <2>1. CASE c = "fg"
    BY <1>1, <2>1 DEF Start, MayCall
  <2>2. CASE c = "isr"
    BY <1>1, <2>2 DEF Start, BeginHistory, MayCall, Attribution, HistoryTypeOK
  <2> QED
    BY <2>1, <2>2
<1>3. Supported'
  BY <1>1, <1>2 DEF Supported, Supports, supportsTransmit, supportsReceive, supportsTransfer,
     arming, polling, Polling
<1>4. CASE raced'
  BY <1>4 DEF Exact, Supported, Outgoing, Incoming, Replies, Start
<1>5. CASE ~raced'
  <2>1. arming' /\ ~polling'
    BY <1>1, <1>2, <1>5 DEF arming, polling, Polling
  <2> QED
    BY <1>1, <1>2, <1>3, <1>5, <2>1, BeginIsExact DEF Start
<1> QED
  BY <1>4, <1>5

\* The start of transmitPolling, receivePolling and transferPolling
\* (spi_driver.hpp:164-274)
LEMMA StartPollExact ==
  ASSUME IInv, Exact, NEW kind \in PollKinds, NEW n \in Counts, StartPoll(kind, n)
  PROVE  Exact'
<1> USE DEF IInv, TypeOK, CallTypeOK, Contexts, Goto
<1>1. /\ pc'["fg"] \in {"waitTx", "waitRx"} /\ pc'["isr"] = "idle"
      /\ pc'["fg"] = "waitRx" <=> kind = "pollRx" /\ mode # "fullDuplex"
      /\ args'["fg"].kind = kind /\ Supports(kind) /\ mode' = mode
      /\ st' = BusyState(kind) /\ index' = 0
  BY DEF StartPoll, MayCall
<1>2. polling' /\ ~arming' /\ ~owed' /\ (pc'["fg"] = "waitTx" <=> Writes')
  BY <1>1 DEF StartPoll, polling, arming, Polling, Writes
<1>3. Supported'
  BY <1>1, <1>2 DEF Supported, Supports, supportsTransmit, supportsReceive, supportsTransfer,
     isBusy, BusyState
<1> QED
  BY <1>1, <1>2, <1>3, BeginIsExact DEF StartPoll

\* The transfer members are set while nothing is written and nothing is taken; the step
\* that sets the last one leaves the counters and the buffers the operation asks for
\* (spi_driver.hpp:284-334).
LEMMA ArmExact ==
  ASSUME IInv, Planned, Exact, NEW c \in Contexts, Arm(c)
  PROVE  Exact'
<1> USE DEF IInv, TypeOK, CallTypeOK, Contexts, Goto, Exact
<1>0. /\ UNCHANGED <<blockVars, st, index, got, owed, clean, raced>> /\ pc[c] = "arm"
      /\ at[c] \in 1 .. 5 /\ args[c].kind \in AsyncKinds /\ args[c].n \in 0 .. MaxCount
  BY DEF Arm, CountersInStep
<1>1. CASE raced
  BY <1>0, <1>1 DEF blockVars, Supported, Outgoing, Incoming, Replies
<1>2. CASE ~raced
  <2>1. /\ owed /\ pc'[c] \in {"arm", "enable"}
        /\ \A d \in Contexts \ {c} : pc[d] = "idle" /\ pc'[d] = "idle"
    BY <1>0, <1>2 DEF Arm, Attribution, IsrLabels, Enabling
  <2>2. ~polling /\ ~polling' /\ arming /\ (arming' <=> pc'[c] = "arm")
    BY <1>0, <2>1 DEF polling, Polling, arming
  <2>3. Supported'
    BY <1>0, <2>1, <2>2 DEF Arm, Supported, Supports, supportsTransmit, supportsReceive,
       supportsTransfer, blockVars
  <2>4. CASE pc'[c] = "arm"
    <3>1. Outgoing'
      BY <1>0, <2>1, <2>2, <2>4 DEF blockVars, Outgoing, Written
    <3>2. Incoming'
      BY <1>0, <2>1, <2>2, <2>4 DEF blockVars, Incoming
    <3>3. taken = 0 /\ taken' = 0 /\ stores /\ stores'
      BY <2>2, <2>4 DEF taken, stores
    <3>4. Replies'
      BY <1>0, <2>1, <2>2, <2>4, <3>3
         DEF blockVars, Replies, inProgress, EchoChain, FrameChain, Listens
    <3> QED
      BY <2>3, <3>1, <3>2, <3>4
  <2>5. CASE pc'[c] = "enable"
    <3>1. at[c] = 5
      BY <1>0, <2>5 DEF Arm
    <3>2. /\ txRem' = WordsToSend(c) /\ rxRem' = WordsToReceive(c) /\ size' = args[c].n
          /\ rxBuf' = (IF args[c].kind = "tx" THEN Null ELSE 1) /\ op' = args[c].kind
      BY <1>0, <1>2, <2>1, <3>1 DEF Arm, Planned, Ledger, Armed
    <3>3. Supports(args[c].kind) /\ Written = 0 /\ ~arming'
      BY <1>0, <1>2, <2>2, <2>5 DEF Supported, Outgoing
    <3>4. Outgoing'
      BY <1>0, <1>2, <2>1, <2>2, <2>5, <3>2, <3>3
         DEF blockVars, Outgoing, Written, WordsToSend, Listens, Supports, supportsTransmit,
             supportsTransfer, Polling, AsyncKinds
    <3>5. Incoming'
      BY <1>0, <1>2, <2>1, <2>2, <2>5, <3>2, <3>3
         DEF blockVars, Incoming, WordsToReceive, Null
    <3>6. taken = 0 /\ (stores' => taken' = 0) /\ (mode = "fullDuplex" => taken' = 0) /\ stores
      BY <1>0, <2>2, <3>2, <3>3 DEF taken, stores, WordsToReceive, Null, blockVars, AsyncKinds
    <3>7. Replies'
      BY <1>0, <2>1, <2>2, <2>5, <3>6
         DEF blockVars, Replies, inProgress, EchoChain, FrameChain, Listens
    <3> QED
      BY <2>3, <3>4, <3>5, <3>7
  <2> QED
    BY <2>1, <2>4, <2>5
<1> QED
  BY <1>1, <1>2

----------------------------------------------------------------------------
(* onInterrupt *)

\* While the handler looks at the block and moves words, the application is in no start and
\* in no polling call, and the operation is the one in progress.
Handling == {"capture", "tx", "write", "rx", "read"}

LEMMA HandlingFacts ==
  ASSUME IInv, ~raced, pc["isr"] \in Handling
  PROVE  owed /\ ~polling /\ ~arming /\ inProgress
BY DEF IInv, Attribution, Handling, polling, arming, inProgress

\* After a race nothing is said of the words, until the next operation begins.
LEMMA RacedIsExact ==
  ASSUME IInv, Exact, raced', ovrSeq' => ovr'
  PROVE  Exact'
BY DEF Exact, Supported, Outgoing, Incoming, Replies

\* captureErrors (spi_driver.hpp:357, 597-621) is where an overrun ends the operation.
LEMMA IsrCaptureExact ==
  ASSUME IInv, Exact, IsrCapture
  PROVE  Exact'
<1> USE DEF IInv, TypeOK, CallTypeOK, Contexts, Goto, Exact
<1>0. /\ UNCHANGED <<mode, txVars, rxb, arrived, op, rxBuf, txRem, rxRem, args, index, historyVars>>
      /\ pc'["isr"] \in {"fail", "tx"} /\ pc["isr"] = "capture" /\ pc'["fg"] = pc["fg"]
      /\ ~ovrSeq'
    BY DEF IsrCapture, captureErrors, ReadSR
<1>a. pc'["isr"] = "tx" => ~ovr /\ ~ovr'
  BY DEF IsrCapture, captureErrors, Errors, ReadSR
<1>1. CASE raced
  BY <1>0, <1>1, RacedIsExact DEF historyVars
<1>2. CASE ~raced
  <2>1. owed /\ ~polling /\ ~polling' /\ ~arming /\ ~arming' /\ inProgress
    BY <1>0, <1>2, HandlingFacts DEF Handling, polling, arming
  <2>a. Supported'
    BY <1>0, <2>1, SupportedKept DEF historyVars
  <2>2. Supported' /\ Incoming'
    BY <1>0, <1>2, <2>1, <2>a DEF Incoming, arming, polling, historyVars
  <2>3. Outgoing'
    BY <1>0, <1>2, <2>1
       DEF Outgoing, Written, Listens, Writes, polling, Polling, txVars, historyVars
  <2>4. taken' = taken /\ stores' = stores
    BY <1>0, <2>1 DEF taken, stores, historyVars
  <2>5. Replies'
    BY <1>0, <1>a, <1>2, <2>1, <2>4 DEF Replies, inProgress, EchoChain, FrameChain, Listens,
       Held, txVars, historyVars, polling, Polling
  <2> QED
    BY <2>2, <2>3, <2>5
<1> QED
  BY <1>1, <1>2

\* The looks at TXE and at RXNE (spi_driver.hpp:363, 370) move no word; between them and
\* the access to DR the transmit buffer stays empty and the receive buffer full.
LEMMA IsrReadyExact ==
  ASSUME IInv, Exact, IsrTxReady \/ IsrRxReady
  PROVE  Exact'
<1> USE DEF IInv, TypeOK, CallTypeOK, Contexts, Goto, Exact
<1>0. /\ UNCHANGED <<mode, txVars, rxb, arrived, memberVars, args, index, historyVars>>
      /\ pc["isr"] \in {"tx", "rx"} /\ pc'["isr"] \in {"write", "rx", "read", "done"}
      /\ pc'["isr"] = "write" => txb = Empty /\ txRem > 0
      /\ pc'["isr"] = "read" => rxb # Empty
      /\ (ovrSeq' => ovr') /\ pc'["fg"] = pc["fg"]
      /\ ovrSeq' => ovrSeq
      /\ ~ovr' => ~ovr \/ ovrSeq
  BY DEF IsrTxReady, IsrRxReady, TxWanted, TXE, RXNE, ReadSR, rxVars, BlockTypeOK, Incoming
<1>1. CASE raced
  BY <1>0, <1>1, RacedIsExact DEF historyVars
<1>2. CASE ~raced
  <2>1. owed /\ ~polling /\ ~polling' /\ ~arming /\ ~arming' /\ inProgress
    BY <1>0, <1>2, HandlingFacts DEF Handling, polling, arming
  <2>a. Supported'
    BY <1>0, <2>1, SupportedKept DEF memberVars, historyVars
  <2>2. Supported' /\ Incoming'
    BY <1>0, <1>2, <2>1, <2>a DEF Incoming, arming, polling, historyVars, memberVars, Polling
  <2>3. Outgoing'
    BY <1>0, <1>2, <2>1
       DEF Outgoing, Written, Listens, Writes, polling, Polling, txVars, memberVars, historyVars
  <2>4. taken' = taken /\ stores' = stores
    BY <1>0, <2>1 DEF taken, stores, memberVars, historyVars
  <2>5. Replies'
    BY <1>0, <1>2, <2>1, <2>4 DEF Replies, inProgress, EchoChain, FrameChain, Listens, Held,
       txVars, memberVars, historyVars, polling, Polling, Outgoing
  <2> QED
    BY <2>2, <2>3, <2>5
<1> QED
  BY <1>1, <1>2

\* writeNextAsyncWord (spi_driver.hpp:363-368, 576-588) writes the next word into an empty
\* buffer; its read of DR may lose a reply for good.
LEMMA IsrWriteExact ==
  ASSUME IInv, Exact, IsrWrite
  PROVE  Exact'
<1> USE DEF IInv, TypeOK, CallTypeOK, MemberTypeOK, BlockTypeOK, HistoryTypeOK, Contexts, Goto, Exact
<1>0. /\ UNCHANGED <<mode, shift, sent, ovr, arrived, op, rxBuf, rxRem, args, index, historyVars>>
      /\ pc["isr"] = "write" /\ pc'["isr"] = "rx" /\ pc'["fg"] = pc["fg"]
      /\ txb' = NextWord /\ txRem' = txRem - 1 /\ rxb' = Empty
      /\ txRem \in Nat /\ size \in Nat /\ rxRem \in Nat
  BY DEF IsrWrite, WriteDR, ReadDR
<1>a. ovrSeq' => ovr'
  BY DEF IsrWrite, WriteDR, ReadDR, Incoming
<1> HIDE DEF IInv, TypeOK, CallTypeOK, MemberTypeOK, BlockTypeOK, HistoryTypeOK, Goto
<1>1. CASE raced
  BY <1>0, <1>a, <1>1, RacedIsExact DEF historyVars
<1>2. CASE ~raced
  <2>1. owed /\ ~polling /\ ~polling' /\ ~arming /\ ~arming' /\ inProgress
    BY <1>0, <1>2, HandlingFacts DEF Handling, polling, arming
  <2>2. txb = Empty /\ txRem > 0 /\ ~Listens
    BY <1>0, <1>2, <2>1 DEF Outgoing, CountersInStep, IInv
  <2>3. Written = Len(sent) /\ Len(sent) \in Nat /\ Len(sent) + txRem = size
    <3>1. Len(sent) \in Nat
      BY DEF IInv, TypeOK, BlockTypeOK
    <3> QED
      BY <1>0, <1>2, <2>1, <2>2, <3>1 DEF Outgoing, Written, Held, Empty, Stale
  <2>4. NextWord = Len(sent) + 1
    <3>1. txBuf # Null => txBuf = size - txRem + 1
      BY <1>0, <1>2, <2>1 DEF IInv, TypeOK, MemberTypeOK, Ledger, arming
    <3>2. Len(sent) + 1 = size - txRem + 1 /\ Len(sent) + 1 \in 1 .. size
      BY <1>0, <2>2, <2>3
    <3> QED
      BY <3>1, <3>2 DEF NextWord
  <2>5. Written' = Len(sent) + 1
    BY <1>0, <2>3, <2>4 DEF Written, Held, Empty, Stale
  <2>a. Supported'
    BY <1>0, <2>1, SupportedKept DEF historyVars
  <2>6. Supported' /\ Incoming'
    BY <1>0, <1>a, <1>2, <2>1, <2>a DEF Incoming, arming, polling, Polling, historyVars
  <2>7. Outgoing'
    BY <1>0, <1>2, <2>1, <2>2, <2>3, <2>4, <2>5
       DEF Outgoing, Listens, polling, Polling, historyVars
  <2>8. taken' = taken /\ stores' = stores /\ taken \in Nat
    BY <1>0, <1>2, <2>1 DEF taken, stores, historyVars, Incoming
  <2>9. Replies'
    BY <1>0, <1>2, <2>1, <2>2, <2>3, <2>4, <2>8
       DEF Replies, inProgress, EchoChain, Held, Listens, historyVars, Empty, Stale
  <2> QED
    BY <2>6, <2>7, <2>9
<1> QED
  BY <1>1, <1>2

\* readNextAsyncWord (spi_driver.hpp:370-375, 590-595) takes the word that was seen.
LEMMA IsrReadExact ==
  ASSUME IInv, Exact, IsrRead
  PROVE  Exact'
<1> USE DEF IInv, TypeOK, CallTypeOK, MemberTypeOK, BlockTypeOK, HistoryTypeOK, Contexts, Goto, Exact
<1>0. /\ UNCHANGED <<mode, txVars, ovr, arrived, op, txRem, args, index, size, owed, clean, raced>>
      /\ pc["isr"] = "read" /\ pc'["isr"] = "done" /\ pc'["fg"] = pc["fg"]
      /\ rxRem' = rxRem - 1 /\ rxb' = Empty
      /\ rxBuf' # Null <=> rxBuf # Null
      /\ got' = IF rxBuf # Null THEN Append(got, DataRead) ELSE got
      /\ rxRem \in Nat /\ size \in Nat /\ Len(sent) \in Nat
  BY DEF IsrRead, ReadDR, Advanced, Null
<1>a. ovrSeq' => ovr'
  BY DEF IsrRead, ReadDR, Incoming
<1> HIDE DEF IInv, TypeOK, CallTypeOK, MemberTypeOK, BlockTypeOK, HistoryTypeOK, Goto
<1>1. CASE raced
  BY <1>0, <1>a, <1>1, RacedIsExact
<1>2. CASE ~raced
  <2>1. owed /\ ~polling /\ ~polling' /\ ~arming /\ ~arming' /\ inProgress
    BY <1>0, <1>2, HandlingFacts DEF Handling, polling, arming
  <2>2. rxb # Empty /\ DataRead = rxb /\ rxRem > 0
    BY <1>0, <1>2 DEF Incoming, DataRead, RXNE, CountersInStep, IInv
  <2>3. taken' = taken + 1 /\ taken \in Nat /\ stores' = stores /\ (stores <=> rxBuf # Null)
    BY <1>0, <1>2, <2>1, <2>2 DEF taken, stores, Incoming
  <2>a. Supported'
    BY <1>0, <2>1, SupportedKept
  <2>4. Supported' /\ Incoming'
    BY <1>0, <1>a, <1>2, <2>1, <2>2, <2>a DEF Incoming, arming, polling, Polling
  <2>5. Outgoing'
    BY <1>0, <1>2, <2>1
       DEF Outgoing, Written, Listens, Writes, polling, Polling, txVars
  <2>6. stores /\ got = NumberedTo(taken) /\ rxb \in {Empty, taken + 1} =>
          got' = NumberedTo(taken')
    BY <1>0, <2>2, <2>3, NumberedProperties
  <2>7. Len(sent) \in Nat /\ Held(rxb) = 1 /\ Held(rxb') = 0 /\ Held(shift) \in {0, 1}
    BY <1>0, <2>2 DEF Held
  <2>8. EchoChain => EchoChain'
    BY <1>0, <2>2, <2>3, <2>6, <2>7 DEF EchoChain, txVars
  <2>9. FrameChain => FrameChain'
    BY <1>0, <2>1, <2>2, <2>3, <2>6, <2>7 DEF FrameChain, polling, Polling
  <2>10. Replies'
    BY <1>0, <1>2, <2>1, <2>8, <2>9 DEF Replies, inProgress, Listens, txVars
  <2> QED
    BY <2>4, <2>5, <2>10
<1> QED
  BY <1>1, <1>2

----------------------------------------------------------------------------
(* Polling operations *)

\* A polling loop runs alone; its index counts the words it has taken.
LEMMA PollingFacts ==
  ASSUME IInv, Exact, ~raced, polling
  PROVE  /\ ~owed /\ ~arming /\ inProgress /\ pc["isr"] = "idle"
         /\ index \in Nat /\ taken \in Nat
         /\ taken = index + (IF pc["fg"] = "capture" THEN 1 ELSE 0)
         /\ (stores <=> args["fg"].kind # "pollTx")
         /\ args["fg"].kind \in PollKinds /\ Supports(args["fg"].kind)
BY DEF IInv, TypeOK, CallTypeOK, Attribution, polling, Polling, arming, taken, stores, inProgress,
       Exact, Supported, CountersInStep

\* waitUntil looks at SR for TXE or for RXNE (spi_driver.hpp:172-186, 209-214, 248-259).
LEMMA PollReadyExact ==
  ASSUME IInv, Exact, PollTxReady \/ PollRxReady
  PROVE  Exact'
<1> USE DEF IInv, TypeOK, CallTypeOK, Contexts, Goto, Exact
<1>0. /\ UNCHANGED <<mode, txVars, rxb, arrived, rxBuf, txRem, rxRem, op, historyVars>>
      /\ pc["fg"] \in {"waitTx", "waitRx"} /\ pc["isr"] = "idle" /\ pc'["isr"] = "idle"
      /\ ovrSeq' = FALSE
      /\ \/ pc'["fg"] = "idle"
         \/ /\ \/ pc'["fg"] = pc["fg"]
               \/ pc["fg"] = "waitTx" /\ pc'["fg"] = "write"
               \/ pc["fg"] = "waitRx" /\ pc'["fg"] = "read"
            /\ UNCHANGED <<st, args, index>>
      /\ pc'["fg"] = "write" => txb = Empty
      /\ pc'["fg"] = "read" => rxb # Empty
  BY DEF PollTxReady, PollRxReady, PollReturn, TXE, RXNE, ReadSR, Runs, memberVars
<1>1. CASE raced
  BY <1>0, <1>1, RacedIsExact DEF historyVars
<1>2. CASE ~raced /\ pc'["fg"] = "idle"
  BY <1>0, <1>2, OverIsExact DEF historyVars, txVars, Attribution, Polling
<1>3. CASE ~raced /\ pc'["fg"] # "idle"
  <2>1. polling /\ polling' /\ ~arming' /\ ~owed' /\ ~raced'
    BY <1>0, <1>3 DEF polling, Polling, arming, Attribution, historyVars
  <2>2. Supported' /\ Incoming'
    BY <1>0, <1>3, <2>1 DEF Supported, Supports, supportsTransmit, supportsReceive,
       supportsTransfer, isBusy, Incoming
  <2>3. Outgoing'
    <3>1. Written' = Written /\ Writes' = Writes /\ UNCHANGED <<txb, sent, index>>
      BY <1>0, <1>3 DEF Written, Writes, txVars
    <3> QED
      BY <1>0, <1>3, <2>1, <3>1 DEF Outgoing
  <2>4. taken' = taken /\ stores' = stores
    <3>1. taken = index /\ (stores <=> args["fg"].kind # "pollTx")
      BY <1>0, <1>3, <2>1, PollingFacts
    <3>2. pc'["fg"] # "capture" /\ UNCHANGED <<index, args>>
      BY <1>0, <1>3
    <3>3. taken' = index' /\ (stores' <=> args'["fg"].kind # "pollTx")
      BY <2>1, <3>2 DEF taken, stores
    <3> QED
      BY <3>1, <3>2, <3>3
  <2>5. pc["fg"] = "waitRx" /\ ~ovrSeq => ovr' = ovr
    BY <1>0 DEF PollTxReady, PollRxReady, ReadSR, BlockTypeOK
  <2>6. mode = "fullDuplex" /\ EchoChain => EchoChain'
    BY <1>0, <2>4 DEF EchoChain, Held, txVars, historyVars
  <2>7. Listens => pc["fg"] = "waitRx" /\ stores
    BY <1>0, <1>3, <2>1, PollingFacts DEF Outgoing, Listens, Writes, Supports,
       supportsTransmit, supportsTransfer, PollKinds
  <2>8. Listens /\ FrameChain => FrameChain'
    BY <1>0, <1>3, <2>1, <2>4, <2>5, <2>7 DEF FrameChain, Held, historyVars
  <2>9. Replies'
    BY <1>0, <1>3, <2>1, <2>6, <2>8 DEF Replies, inProgress, Listens, txVars, historyVars
  <2> QED
    BY <2>2, <2>3, <2>9
<1> QED
  BY <1>1, <1>2, <1>3

\* writeData (spi_driver.hpp:176, 214, 252) writes the word of this turn into an empty buffer.
LEMMA PollWriteExact ==
  ASSUME IInv, Exact, PollWrite
  PROVE  Exact'
<1> USE DEF IInv, TypeOK, CallTypeOK, Contexts, Goto, Exact
<1>0. /\ UNCHANGED <<mode, shift, sent, ovr, arrived, memberVars, args, index, historyVars>>
      /\ pc["fg"] = "write" /\ pc'["fg"] = (IF Reads THEN "waitRx" ELSE "capture")
      /\ pc["isr"] = "idle" /\ pc'["isr"] = "idle"
      /\ txb' = index + 1 /\ rxb' = Empty /\ index \in Nat /\ Len(sent) \in Nat
  BY DEF PollWrite, WriteDR, ReadDR, Runs, BlockTypeOK
<1>a. ovrSeq' => ovr'
  BY DEF PollWrite, WriteDR, ReadDR, Incoming
<1> HIDE DEF IInv, TypeOK, CallTypeOK, Goto
<1>1. CASE raced
  BY <1>0, <1>a, <1>1, RacedIsExact DEF historyVars
<1>2. CASE ~raced
  <2>1. polling /\ polling' /\ ~arming' /\ ~owed' /\ ~raced'
    BY <1>0, <1>2, PollingFacts DEF polling, Polling, arming, historyVars
  <2>2. txb = Empty /\ Writes /\ Written = index /\ Len(sent) = index
    BY <1>0, <1>2 DEF Outgoing, Written, Held, Empty, Stale
  <2>3. Supported' /\ Incoming'
    BY <1>0, <1>a, <1>2, <2>1 DEF Supported, Supports, supportsTransmit, supportsReceive,
       supportsTransfer, isBusy, Incoming, memberVars
  <2>4. Written' = index + 1 /\ Writes' = Writes
    BY <1>0, <2>2 DEF Written, Held, Writes, Empty, Stale
  <2>5. Outgoing'
    BY <1>0, <1>2, <2>1, <2>2, <2>4 DEF Outgoing
  <2>6. ~Listens
    BY <1>2, <2>1, <2>2, PollingFacts DEF Writes, Listens, Supports, supportsTransmit,
       supportsTransfer, PollKinds
  <2>7. mode = "fullDuplex" => taken' = taken /\ taken \in Nat /\ stores' = stores
    <3>1. taken = index /\ (stores <=> args["fg"].kind # "pollTx")
      BY <1>0, <1>2, <2>1, PollingFacts
    <3>2. mode = "fullDuplex" => pc'["fg"] # "capture"
      BY <1>0 DEF Reads
    <3>3. stores' <=> args'["fg"].kind # "pollTx"
      BY <2>1 DEF stores
    <3>4. mode = "fullDuplex" => taken' = index
      BY <1>0, <2>1, <3>2 DEF taken
    <3> QED
      BY <1>0, <3>1, <3>3, <3>4
  <2>8. mode = "fullDuplex" /\ EchoChain => EchoChain'
    BY <1>0, <2>2, <2>7 DEF EchoChain, Held, Empty, historyVars
  <2>9. Replies'
    BY <1>0, <1>2, <2>1, <2>6, <2>8
       DEF Replies, inProgress, Listens, historyVars, Empty, Stale
  <2> QED
    BY <2>3, <2>5, <2>9
<1> QED
  BY <1>1, <1>2

\* readData (spi_driver.hpp:182, 220, 261) takes the word that was seen.
LEMMA PollReadExact ==
  ASSUME IInv, Exact, PollRead
  PROVE  Exact'
<1> USE DEF IInv, TypeOK, CallTypeOK, Contexts, Goto, Exact
<1>0. /\ UNCHANGED <<mode, txVars, ovr, arrived, memberVars, args, index>>
      /\ UNCHANGED <<size, owed, clean, raced>>
      /\ pc["fg"] = "read" /\ pc'["fg"] = "capture" /\ pc["isr"] = "idle" /\ pc'["isr"] = "idle"
      /\ got' = (IF args["fg"].kind # "pollTx" THEN Append(got, DataRead) ELSE got)
      /\ rxb' = Empty /\ index \in Nat /\ Len(sent) \in Nat
  BY DEF PollRead, ReadDR, Runs, BlockTypeOK
<1>a. ovrSeq' => ovr'
  BY DEF PollRead, ReadDR, Incoming
<1> HIDE DEF IInv, TypeOK, CallTypeOK, Goto
<1>1. CASE raced
  BY <1>0, <1>a, <1>1, RacedIsExact
<1>2. CASE ~raced
  <2>1. polling /\ polling' /\ ~arming' /\ ~owed' /\ ~raced'
    BY <1>0, <1>2, PollingFacts DEF polling, Polling, arming
  <2>2. rxb # Empty /\ DataRead = rxb
    BY <1>0, <1>2 DEF Incoming, DataRead, RXNE
  <2>3. Supported' /\ Incoming'
    BY <1>0, <1>a, <1>2, <2>1 DEF Supported, Supports, supportsTransmit, supportsReceive,
       supportsTransfer, isBusy, Incoming, memberVars
  <2>4. Written' = Written /\ Writes' = Writes
    BY <1>0 DEF Written, Writes, txVars
  <2>5. Outgoing'
    BY <1>0, <1>2, <2>1, <2>4 DEF Outgoing, txVars
  <2>6. /\ taken = index /\ taken' = taken + 1
        /\ (stores <=> args["fg"].kind # "pollTx") /\ stores' = stores
    <3>1. taken = index /\ (stores <=> args["fg"].kind # "pollTx")
      BY <1>0, <1>2, <2>1, PollingFacts
    <3>2. taken' = index + 1 /\ (stores' <=> args["fg"].kind # "pollTx")
      BY <1>0, <2>1 DEF taken, stores
    <3> QED
      BY <3>1, <3>2
  <2>7. stores /\ got = NumberedTo(taken) /\ rxb \in {Empty, taken + 1} =>
          got' = NumberedTo(taken')
    BY <1>0, <2>2, <2>6, NumberedProperties
  <2>8. Held(rxb) = 1 /\ Held(rxb') = 0 /\ Held(shift) \in {0, 1}
    BY <1>0, <2>2 DEF Held
  <2>9. EchoChain => EchoChain'
    BY <1>0, <2>2, <2>6, <2>7, <2>8 DEF EchoChain, txVars
  <2>10. FrameChain => FrameChain'
    BY <1>0, <2>2, <2>6, <2>7, <2>8 DEF FrameChain
  <2>11. Replies'
    BY <1>0, <1>2, <2>1, <2>9, <2>10 DEF Replies, inProgress, Listens, txVars
  <2> QED
    BY <2>3, <2>5, <2>11
<1> QED
  BY <1>1, <1>2

\* captureErrors in a polling loop (spi_driver.hpp:185, 222, 263): without an error the next
\* turn begins, and an overrun is an error.
LEMMA PollCaptureExact ==
  ASSUME IInv, Exact, PollCapture
  PROVE  Exact'
<1> USE DEF IInv, TypeOK, CallTypeOK, Contexts, Goto, Exact
<1>0. /\ UNCHANGED <<mode, txVars, rxb, arrived, rxBuf, txRem, rxRem, op, historyVars>>
      /\ pc["fg"] = "capture" /\ pc["isr"] = "idle" /\ pc'["isr"] = "idle"
      /\ ovrSeq' = FALSE /\ index \in Nat
      /\ \/ pc'["fg"] = "idle"
         \/ /\ pc'["fg"] = (IF Writes THEN "waitTx" ELSE "waitRx")
            /\ UNCHANGED <<st, args>> /\ index' = index + 1
  BY DEF PollCapture, PollReturn, ReadSR, Runs
<1>a. pc'["fg"] # "idle" => ~ovr
  BY DEF PollCapture, PollReturn, Errors
<1> HIDE DEF IInv, TypeOK, CallTypeOK, Goto
<1>1. CASE raced
  BY <1>0, <1>1, RacedIsExact DEF historyVars
<1>2. CASE ~raced /\ pc'["fg"] = "idle"
  BY <1>0, <1>2, OverIsExact, PollingFacts DEF historyVars, txVars, Polling, polling
<1>3. CASE ~raced /\ pc'["fg"] # "idle"
  <2>1. polling /\ polling' /\ ~arming' /\ ~owed' /\ ~raced'
    BY <1>0, <1>3, PollingFacts DEF polling, Polling, arming, historyVars
  <2>2. Supported' /\ Incoming'
    BY <1>0, <1>3, <2>1 DEF Supported, Supports, supportsTransmit, supportsReceive,
       supportsTransfer, isBusy, Incoming
  <2>3. Written' = Written /\ Writes' = Writes
    BY <1>0, <1>3 DEF Written, Writes, txVars
  <2>4. Outgoing'
    BY <1>0, <1>3, <2>1, <2>3 DEF Outgoing, txVars
  <2>5. taken' = taken /\ stores' = stores
    <3>1. taken = index + 1 /\ (stores <=> args["fg"].kind # "pollTx")
      BY <1>0, <1>3, <2>1, PollingFacts
    <3>2. pc'["fg"] # "capture" /\ UNCHANGED args /\ index' = index + 1
      BY <1>0, <1>3
    <3>3. taken' = index' /\ (stores' <=> args'["fg"].kind # "pollTx")
      BY <1>0, <2>1, <3>2 DEF taken, stores
    <3> QED
      BY <3>1, <3>2, <3>3
  <2>6. EchoChain => EchoChain'
    BY <1>0, <2>5 DEF EchoChain, Held, txVars, historyVars
  <2>7. FrameChain => FrameChain'
    BY <1>0, <1>a, <1>3, <2>5 DEF FrameChain, Held, historyVars
  <2>8. Replies'
    BY <1>0, <1>3, <2>1, <2>6, <2>7 DEF Replies, inProgress, Listens, txVars, historyVars
  <2> QED
    BY <2>2, <2>4, <2>8
<1> QED
  BY <1>1, <1>2, <1>3

----------------------------------------------------------------------------
(* The block *)

\* The words taken by an operation in progress fit its buffers.
LEMMA TakenTyped ==
  ASSUME IInv, Exact, ~raced, inProgress
  PROVE  taken \in 0 .. MaxCount
<1> USE BlockAssumption DEF IInv, TypeOK, CallTypeOK, MemberTypeOK, HistoryTypeOK
<1>1. CASE polling
  <2>1. taken = index + (IF pc["fg"] = "capture" THEN 1 ELSE 0) /\ index \in Nat
    BY <1>1, PollingFacts
  <2>2. args["fg"].n \in 0 .. MaxCount
    BY DEF Contexts
  <2>3. index <= args["fg"].n /\ (pc["fg"] = "capture" => index < args["fg"].n)
    BY <1>1, <2>1, <2>2 DEF CountersInStep, polling, Polling
  <2> QED
    BY <2>1, <2>2, <2>3
<1>2. CASE ~polling /\ arming
  <2>1. taken = 0
    BY <1>2 DEF taken
  <2> QED
    BY <2>1
<1>3. CASE ~polling /\ ~arming
  BY <1>3 DEF taken, inProgress, Exact, Incoming
<1> QED
  BY <1>1, <1>2, <1>3

\* What the block's own steps leave alone, and the invariants that speak of nothing else
LEMMA BlockKeepsPlans ==
  ASSUME Exact, BlockActs
  PROVE  /\ Supported' /\ arming' = arming /\ polling' = polling /\ Writes' = Writes
         /\ inProgress' = inProgress /\ stores' = stores /\ taken' = taken
         /\ Listens' = Listens
         /\ UNCHANGED <<mode, memberVars, callVars, historyVars>>
<1>1. UNCHANGED <<mode, memberVars, callVars, historyVars>>
  BY DEF BlockActs, BlockStep, LoadShift, FrameDone, FrameArrives, RaiseFault, ClearFault
<1> USE <1>1 DEF memberVars, callVars, historyVars
<1>3. arming' = arming /\ polling' = polling /\ Writes' = Writes /\ Listens' = Listens
  BY DEF arming, polling, Writes, Listens
<1>2. Supported'
  BY <1>3, SupportedKept DEF Exact, isBusy
<1>4. inProgress' = inProgress /\ stores' = stores /\ taken' = taken
  BY <1>3 DEF inProgress, stores, taken
<1> QED
  BY <1>2, <1>3, <1>4

\* The transmit buffer moves to the shift register (module SpiBlock): the words written are
\* as many as before, and the one that leaves is the next.
LEMMA LoadShiftExact ==
  ASSUME IInv, Exact, BlockActs, LoadShift
  PROVE  Exact'
<1>0. /\ UNCHANGED <<rxb, ovr, ovrSeq, arrived>> /\ txb # Empty /\ txb' = Empty
      /\ shift = Empty /\ shift' = txb
      /\ sent' = (IF txb = Stale THEN sent ELSE Append(sent, txb))
      /\ sent \in Seq(WireWord) /\ txb \in Slot /\ Len(sent) \in Nat
  BY DEF LoadShift, IInv, TypeOK, BlockTypeOK
<1>1. /\ Supported' /\ arming' = arming /\ polling' = polling /\ Writes' = Writes
      /\ inProgress' = inProgress /\ stores' = stores /\ taken' = taken /\ Listens' = Listens
      /\ UNCHANGED <<mode, memberVars, callVars, historyVars>>
  BY BlockKeepsPlans
<1>2. txb # Stale => Len(sent') = Len(sent) + 1
  BY <1>0, AppendProperties DEF Slot
<1>3. Written' = Written
  BY <1>0, <1>2 DEF Written, Held, Empty, Stale
<1>4. Incoming'
  BY <1>0, <1>1 DEF Exact, Incoming, memberVars, callVars, historyVars
<1>5. Outgoing'
  <2> SUFFICES ASSUME ~raced PROVE Outgoing'
    BY <1>1 DEF Outgoing, historyVars
  <2>1. sent = NumberedTo(Len(sent)) /\ txb \in {Stale, Len(sent) + 1}
    BY <1>0 DEF Exact, Outgoing
  <2>2. sent' = NumberedTo(Len(sent'))
    BY <1>0, <1>2, <2>1, NumberedProperties DEF Stale
  <2> QED
    BY <1>0, <1>1, <1>3, <2>2 DEF Exact, Outgoing, memberVars, callVars, historyVars
<1>6. Replies'
  <2>1. ASSUME ~raced, inProgress, txb # Stale, EchoChain
        PROVE  EchoChain'
    <3>1. txb = Len(sent) + 1 /\ Len(sent') = Len(sent) + 1
      BY <1>0, <1>2, <2>1 DEF Exact, Outgoing
    <3>2. Held(shift) = 0 /\ Held(shift') = 1
      BY <1>0, <3>1 DEF Held, Empty
    <3> QED
      <4>1. taken \in Int /\ Held(rxb) \in {0, 1} /\ Held(rxb') = Held(rxb)
        BY <1>0, <2>1, TakenTyped DEF Held
      <4> QED
        BY <1>0, <1>1, <2>1, <3>1, <3>2, <4>1 DEF EchoChain, historyVars
  <2>2. FrameChain => FrameChain'
    BY <1>0, <1>1 DEF FrameChain, Held, callVars, historyVars
  <2> QED
    BY <1>0, <1>1, <2>1, <2>2 DEF Exact, Replies, historyVars, Empty, Stale
<1> QED
  BY <1>1, <1>4, <1>5, <1>6 DEF Exact

\* A frame is complete and its reply arrives, or is lost.
LEMMA FrameDoneExact ==
  ASSUME IInv, Exact, BlockActs, FrameDone
  PROVE  Exact'
<1>0. /\ UNCHANGED <<txb, sent, arrived>> /\ shift # Empty /\ shift' = Empty
      /\ (mode # "fullDuplex" => UNCHANGED rxVars)
      /\ \/ rxb = Empty /\ ~ovr /\ rxb' = shift
         \/ rxb' = rxb
      /\ (rxb # Empty => rxb' # Empty) /\ Len(sent) \in Nat
  BY DEF FrameDone, TakeFrame, rxVars, IInv, TypeOK, BlockTypeOK
<1>1. /\ Supported' /\ arming' = arming /\ polling' = polling /\ Writes' = Writes
      /\ inProgress' = inProgress /\ stores' = stores /\ taken' = taken /\ Listens' = Listens
      /\ UNCHANGED <<mode, memberVars, callVars, historyVars>>
  BY BlockKeepsPlans
<1>2. ovrSeq' => ovr'
  BY DEF FrameDone, TakeFrame, rxVars, IInv, TypeOK, BlockTypeOK, Exact, Incoming
<1>3. Incoming'
  BY <1>0, <1>1, <1>2 DEF Exact, Incoming, memberVars, callVars, historyVars
<1>4. Written' = Written
  BY <1>0 DEF Written
<1>5. Outgoing'
  BY <1>0, <1>1, <1>4 DEF Exact, Outgoing, memberVars, callVars, historyVars
<1>6. Replies'
  <2>1. ASSUME mode = "fullDuplex", EchoChain, inProgress, ~raced
        PROVE  EchoChain'
    <3>1. taken \in Int
      BY <2>1, TakenTyped
    <3>2. Held(shift) = 1 /\ Held(shift') = 0
      BY <1>0 DEF Held
    <3>3. CASE rxb = Empty /\ ~ovr /\ rxb' = shift
      <4>1. Held(rxb) = 0 /\ Held(rxb') = 1
        BY <1>0, <3>3 DEF Held
      <4> QED
        BY <1>0, <1>1, <2>1, <3>1, <3>2, <3>3, <4>1 DEF EchoChain, historyVars
    <3>4. CASE rxb' = rxb
      <4>1. Held(rxb') = Held(rxb) /\ Held(rxb) \in {0, 1}
        BY <3>4 DEF Held
      <4>2. taken + Held(rxb) < Len(sent)
        BY <1>0, <2>1, <3>1, <3>2, <4>1 DEF EchoChain
      <4> QED
        BY <1>0, <1>1, <3>1, <3>2, <4>1, <4>2 DEF EchoChain
    <3> QED
      BY <1>0, <2>1, <3>3, <3>4
  <2>2. FrameChain /\ Listens => FrameChain'
    BY <1>0, <1>1 DEF FrameChain, Listens, Held, rxVars, callVars, historyVars
  <2> QED
    BY <1>0, <1>1, <2>1, <2>2 DEF Exact, Replies, historyVars
<1> QED
  BY <1>1, <1>3, <1>5, <1>6 DEF Exact

\* A frame arrives by itself in a listening mode; the first one that finds the receive
\* buffer full is lost and raises OVR.
LEMMA FrameArrivesExact ==
  ASSUME IInv, Exact, BlockActs, FrameArrives
  PROVE  Exact'
<1>0. /\ UNCHANGED <<txb, sent, shift, ovrSeq>> /\ Listens
      /\ arrived' = (IF arrived > MaxCount THEN arrived ELSE arrived + 1)
      /\ rxb' = (IF rxb = Empty /\ ~ovr THEN arrived' ELSE rxb)
      /\ (rxb # Empty => rxb' # Empty) /\ (ovr => ovr') /\ (rxb # Empty => ovr')
      /\ (~ovr' => rxb = Empty)
  BY DEF FrameArrives, TakeFrame, IInv, TypeOK, BlockTypeOK
<1>1. /\ Supported' /\ arming' = arming /\ polling' = polling /\ Writes' = Writes
      /\ inProgress' = inProgress /\ stores' = stores /\ taken' = taken /\ Listens' = Listens
      /\ UNCHANGED <<mode, memberVars, callVars, historyVars>>
  BY BlockKeepsPlans
<1>2. Incoming'
  BY <1>0, <1>1 DEF Exact, Incoming, memberVars, callVars, historyVars
<1>3. Written' = Written
  BY <1>0 DEF Written
<1>4. Outgoing'
  BY <1>0, <1>1, <1>3 DEF Exact, Outgoing, memberVars, callVars, historyVars
<1>5. ASSUME ~raced, inProgress, FrameChain, stores
      PROVE  FrameChain'
  <2>1. taken \in 0 .. MaxCount
    BY <1>5, TakenTyped
  <2>2. CASE rxb = Empty /\ ~ovr
    <3>1. arrived = taken /\ arrived' = taken + 1 /\ rxb' = taken + 1
      BY BlockAssumption, <1>0, <1>5, <2>1, <2>2 DEF FrameChain, Held
    <3>2. Held(rxb') = 1
      BY <2>1, <3>1 DEF Held, Empty
    <3> QED
      BY <1>0, <1>1, <1>5, <3>1, <3>2 DEF FrameChain, callVars, historyVars
  <2>3. CASE rxb # Empty \/ ovr
    BY <1>0, <1>1, <1>5, <2>3 DEF FrameChain, callVars, historyVars
  <2> QED
    BY <2>2, <2>3
<1>6. Replies'
  BY <1>0, <1>1, <1>5 DEF Exact, Replies, Listens, FrameChain, historyVars
<1> QED
  BY <1>1, <1>2, <1>4, <1>6 DEF Exact

\* The faults do not touch the words.
LEMMA FaultExact ==
  ASSUME Exact, BlockActs, RaiseFault \/ ClearFault
  PROVE  Exact'
BY UntouchedIsExact DEF BlockActs, RaiseFault, ClearFault, memberVars, callVars, historyVars, isBusy

----------------------------------------------------------------------------
(* Every step, and the theorems *)

\* A new driver has written nothing and read nothing.
LEMMA InitExact == Init => Exact
<1> SUFFICES ASSUME Init PROVE Exact
  OBVIOUS
<1> USE DEF Init, BlockInit
<1>1. ~arming /\ ~polling /\ ~owed /\ pc = [c \in Contexts |-> "idle"]
  BY DEF arming, polling, Polling, Contexts
<1>2. Supported /\ Incoming /\ Replies
  BY <1>1 DEF Supported, Incoming, Replies, inProgress
<1>3. sent = NumberedTo(Len(sent))
  BY NumberedProperties
<1>4. Outgoing
  BY <1>1, <1>3 DEF Outgoing, Contexts
<1> QED
  BY <1>2, <1>4 DEF Exact

\* One case for each action of the application, the interrupt handler and the block
LEMMA NextExact ==
  ASSUME IInv, Planned, Exact, [Next]_vars
  PROVE  Exact'
<1>1. CASE BlockActs
  BY <1>1, LoadShiftExact, FrameDoneExact, FrameArrivesExact, FaultExact
     DEF BlockActs, BlockStep
<1>2. CASE AppCall \/ CallbackCall
  BY <1>2, StartExact, StartPollExact, EndExact, QuietExact DEF AppCall, CallbackCall, Contexts
<1>3. CASE \E c \in Contexts : CallStep(c)
  BY <1>3, ArmExact, QuietExact DEF CallStep
<1>4. CASE PollStep \/ PollTimeout \/ FlushStep
  BY <1>4, PollReadyExact, PollWriteExact, PollReadExact, PollCaptureExact, EndExact
     DEF PollStep
<1>5. CASE IsrEnter \/ IsrStep
  BY <1>5, QuietExact, EndExact, IsrCaptureExact, IsrReadyExact, IsrWriteExact, IsrReadExact
     DEF IsrStep
<1>6. CASE UNCHANGED vars
  BY <1>6, UntouchedIsExact DEF vars, blockVars, wireVars, memberVars, callVars, isBusy
<1> QED
  BY <1>1, <1>2, <1>3, <1>4, <1>5, <1>6 DEF Next

\* The words of an operation are followed through the block in every reachable state, for
\* every buffer length, fault set, choice of modes and entry points (spi_driver.hpp:164-385).
THEOREM WireInvariance == Spec => [](IInv /\ WireInv)
<1>1. Init => Exact
  BY InitExact
<1>2. IInv /\ Planned /\ Exact /\ [Next]_vars => Exact'
  BY NextExact
<1>3. Spec => []Exact
  BY <1>1, <1>2, PlannedInvariance, PTL DEF Spec
<1>4. Planned /\ Exact <=> WireInv
  BY DEF Exact, WireInv
<1> QED
  BY <1>3, <1>4, PlannedInvariance, PTL

\* The words of an operation go onto the wire in order, none twice and none skipped,
\* whoever writes DR (spi_driver.hpp:176, 214, 252, 363-368).
THEOREM WordsInOrder == Spec => []WireOrder
<1>1. WireInv => WireOrder
  BY DEF WireInv, Outgoing, WireOrder
<1> QED
  BY <1>1, WireInvariance, PTL

\* A completion callback finds the replies to all words of the operation in the receive
\* buffer, in order, and in full duplex nothing of it on its way (spi_driver.hpp:377-384).
THEOREM CompletionIsExact == Spec => CompletedTransferIsExact
<1> DEFINE Complete == IsrComplete /\ clean /\ ~raced =>
                         /\ op \in {"rx", "transfer"} => got = NumberedTo(size)
                         /\ mode = "fullDuplex" => txb = Empty /\ shift = Empty
<1>1. ASSUME IInv, WireInv, IsrComplete, clean, ~raced
      PROVE  /\ op \in {"rx", "transfer"} => got = NumberedTo(size)
             /\ mode = "fullDuplex" => txb = Empty /\ shift = Empty
  <2>0. size \in Nat /\ Len(sent) \in Nat /\ mode \in BusModeSet /\ txRem = 0 /\ rxRem = 0
    BY <1>1 DEF IInv, TypeOK, BlockTypeOK, HistoryTypeOK, IsrComplete, AllDone
  <2>1. owed /\ ~polling /\ ~arming /\ inProgress
    BY <1>1 DEF IInv, Attribution, IsrComplete, polling, arming, inProgress
  <2>2. taken = size /\ (stores <=> rxBuf # Null) /\ (op \in {"rx", "transfer"} => stores)
    BY <1>1, <2>0, <2>1 DEF taken, stores, WireInv, Incoming
  <2>3. mode = "fullDuplex" => Written = size /\ EchoChain /\ txb # Stale
    <3>1. Written \in Nat
      BY <2>0 DEF Written, Held
    <3> QED
      BY <1>1, <2>0, <2>1, <3>1 DEF WireInv, Outgoing, Replies
  <2>4. ASSUME mode = "fullDuplex"
        PROVE  txb = Empty /\ shift = Empty /\ (stores => got = NumberedTo(size))
    BY <2>0, <2>2, <2>3, <2>4 DEF EchoChain, Held, Written
  <2>5. Listens /\ stores => got = NumberedTo(size)
    BY <1>1, <2>1, <2>2 DEF WireInv, Replies, FrameChain
  <2>6. mode = "halfDuplexTx" => op \notin {"rx", "transfer"}
    BY <1>1, <2>1 DEF WireInv, Supported, Supports, supportsReceive, supportsTransfer
  <2> QED
    BY <2>0, <2>2, <2>4, <2>5, <2>6 DEF Listens, BusModeSet
<1>2. IInv /\ WireInv /\ [Next]_vars => [Complete]_vars
  BY <1>1
<1>3. Spec => [][Complete]_vars
  BY <1>2, WireInvariance, PTL DEF Spec
<1> QED
  BY <1>3 DEF CompletedTransferIsExact

\* A polling call that succeeds has stored the replies to exactly the words it wrote, in
\* order, and transmitPolling has put every word on the wire (spi_driver.hpp:164-274).
THEOREM PollingIsExact == Spec => PolledTransferIsExact
<1> DEFINE Succeed == clean /\ ~raced /\ st' = "ready" =>
                        /\ PollCapture => got = NumberedTo(args["fg"].n)
                        /\ PollTxReady => sent = NumberedTo(args["fg"].n)
<1>1. ASSUME IInv, WireInv, PollCapture, clean, ~raced, st' = "ready"
      PROVE  got = NumberedTo(args["fg"].n)
  <2>0. pc["fg"] = "capture" /\ mode \in BusModeSet /\ Len(sent) \in Nat /\ args["fg"].n \in Nat
    BY <1>1 DEF PollCapture, IInv, TypeOK, BlockTypeOK, CallTypeOK, Contexts
  <2>1. polling /\ isBusy /\ Exact
    BY <1>1, <2>0 DEF polling, Polling, WireInv, Supported, Exact
  <2>2. index + 1 = args["fg"].n /\ args["fg"].kind # "pollTx"
    BY <1>1, <2>1 DEF PollCapture, PollReturn, isBusy
  <2>3. taken = args["fg"].n /\ stores /\ inProgress
    BY <1>1, <2>0, <2>1, <2>2, PollingFacts
  <2>4. args["fg"].kind \in {"pollRx", "pollTransfer"} /\ Supports(args["fg"].kind)
    BY <1>1, <2>1, <2>2, PollingFacts DEF PollKinds
  <2>5. CASE mode = "fullDuplex"
    <3>1. Written = index + 1 /\ EchoChain
      BY <1>1, <2>0, <2>3, <2>5 DEF WireInv, Outgoing, Replies, Writes
    <3>2. Len(sent) <= args["fg"].n /\ Held(rxb) \in {0, 1} /\ Held(shift) \in {0, 1}
      BY <2>0, <2>2, <3>1 DEF Written, Held
    <3> QED
      BY <2>0, <2>3, <3>1, <3>2 DEF EchoChain
  <2>6. CASE Listens
    BY <1>1, <2>3, <2>6 DEF WireInv, Replies, FrameChain
  <2> QED
    BY <2>0, <2>4, <2>5, <2>6
       DEF Listens, BusModeSet, Supports, supportsReceive, supportsTransfer
<1>2. ASSUME IInv, WireInv, PollTxReady, clean, ~raced, st' = "ready"
      PROVE  sent = NumberedTo(args["fg"].n)
  <2>1. pc["fg"] = "waitTx" /\ polling /\ isBusy
    BY <1>2 DEF PollTxReady, polling, Polling, WireInv, Supported
  <2>2. txb = Empty /\ index = args["fg"].n
    BY <1>2, <2>1 DEF PollTxReady, TXE, Last, isBusy
  <2>3. Written = index /\ sent = NumberedTo(Len(sent))
    BY <1>2, <2>1 DEF WireInv, Outgoing
  <2>4. Len(sent) = index
    BY <1>2, <2>2, <2>3 DEF Written, Held, Empty, Stale, IInv, TypeOK, BlockTypeOK
  <2> QED
    BY <2>2, <2>3, <2>4
<1>3. IInv /\ WireInv /\ [Next]_vars => [Succeed]_vars
  BY <1>1, <1>2
<1>4. Spec => [][Succeed]_vars
  BY <1>3, WireInvariance, PTL DEF Spec
<1> QED
  BY <1>4 DEF PolledTransferIsExact
=============================================================================
