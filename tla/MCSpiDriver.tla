----------------------------- MODULE MCSpiDriver -----------------------------
(***************************************************************************)
(* Instances of SpiDriver for TLC.  A run explores several applications,   *)
(* each with its own choice of calls, modes and faults: exploring the      *)
(* union of all choices at once would take too long.  Every step of every  *)
(* program is a step of SpiDriver.                                         *)
(***************************************************************************)
EXTENDS SpiDriver

CONSTANT Programs       \* the applications: [calls, words, modes, faults, chains]

VARIABLE program        \* the one that uses the driver in this behaviour

mcVars == <<vars, program>>

Words == 1 .. program.words

ProgramCall ==
  \/ \E kind \in AsyncKinds \cap program.calls, n \in Words : Start("fg", kind, n)
  \/ \E kind \in PollKinds \cap program.calls, n \in Words : StartPoll(kind, n)
  \/ "cancel" \in program.calls /\ Cancel("fg")
  \/ Configure /\ mode' \in program.modes
  \/ "clearError" \in program.calls /\ ClearError
  \/ "clearOverrun" \in program.calls /\ ClearOverrun
  \/ "flush" \in program.calls /\ FlushStart
  \/ "enable" \in program.calls /\ SetEnable

ProgramCallback ==
  /\ program.chains
  /\ \/ \E kind \in AsyncKinds \cap program.calls, n \in Words : Start("isr", kind, n)
     \/ "cancel" \in program.calls /\ Cancel("isr")

\* The steps that no application decides
DriverStep == \/ \E c \in Contexts : CallStep(c)
              \/ PollStep \/ PollTimeout \/ FlushStep
              \/ IsrEnter \/ IsrStep

MCInit == Init /\ program \in Programs
MCNext == \/ BlockActs /\ flags' \subseteq program.faults /\ UNCHANGED program
          \/ ProgramCall /\ UNCHANGED program
          \/ ProgramCallback /\ UNCHANGED program
          \/ DriverStep /\ UNCHANGED program

MCSpec == MCInit /\ [][MCNext]_mcVars

\* Fairness as in SpiDriver, and nobody clears a fault
MCFaultsStaySpec == MCInit /\ [][MCNext /\ flags \subseteq flags']_mcVars /\ Fairness

Program(calls, words, modes, faults, chains) ==
  [calls |-> calls, words |-> words, modes |-> modes, faults |-> faults, chains |-> chains]

\* Interrupt-driven operations of one and two words, in full duplex and in one direction,
\* and in full duplex ones that read what others left behind; polling ones; and both, with
\* callbacks that call the driver and faults, of one word
AllModes == {"fullDuplex", "halfDuplexTx", "receiveOnly"}
Interrupted == Program({"tx", "transfer", "cancel"}, 2, {"fullDuplex"}, {}, FALSE)
Receiving == Program({"tx", "rx", "cancel"}, 1, {"fullDuplex"}, {}, FALSE)
Listening == Program({"rx", "cancel", "clearError"}, 2, {"receiveOnly"}, {}, FALSE)
Sending   == Program({"tx", "cancel", "clearError"}, 2, {"halfDuplexTx"}, {}, FALSE)
Polled == Program({"pollTx", "pollRx", "pollTransfer", "clearError", "clearOverrun", "flush",
                   "enable"}, 2, AllModes, Faults, FALSE)
Chained == Program({"transfer", "pollTransfer", "cancel", "clearError"}, 1, {"fullDuplex"},
                   Faults, TRUE)
SafetyPrograms == {Interrupted, Receiving, Listening, Sending, Polled, Chained}

\* Operations whose report is awaited, and calls whose return is
Awaited == Program({"tx", "rx"}, 2, {"halfDuplexTx", "receiveOnly"}, {}, FALSE)
Called  == Program({"tx", "pollTx", "pollRx", "pollTransfer", "flush"}, 1,
                   {"fullDuplex", "halfDuplexTx"}, Faults, FALSE)
LivenessPrograms == {Awaited, Called}
=============================================================================
