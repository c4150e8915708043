---------------------------- MODULE MCI2sDriver ----------------------------
(***************************************************************************)
(* Instances of I2sDriver for TLC: boards with and without a companion     *)
(* block, and the applications that drive them.                            *)
(***************************************************************************)
EXTENDS I2sDriver

System(extension, masked, high, disturbed, modes, calls) ==
  [extension |-> extension, masked |-> masked, high |-> high, disturbed |-> disturbed,
   modes |-> modes, calls |-> calls]

\* One block, the handler preempting the start calls; two blocks, the handlers of one
\* priority and masked during the start calls, with frame errors or with cancels; polling
\* operations on two blocks.  On two blocks the main one is a slave: its wire runs whenever
\* it likes, and so does at least what a master's does.
SlaveModes == {"slaveTx", "slaveRx"}
OneBlock  == System(FALSE, FALSE, "none", FALSE, ModeSet,
                    {"tx", "rx", "cancel", "clearError", "refuse"})
TwoBlocks == System(TRUE, TRUE, "none", TRUE, SlaveModes,
                    {"tx", "rx", "transfer", "clearError"})
CancelledBlocks == System(TRUE, TRUE, "none", FALSE, {"slaveRx"}, {"transfer", "cancel"})
PolledBlocks == System(TRUE, TRUE, "none", TRUE, SlaveModes,
                       {"pollTx", "pollRx", "pollTransfer", "clearError", "clearOverrun",
                        "clearUnderrun", "flush", "enable", "disable"})
SafetySystems == {OneBlock, TwoBlocks, CancelledBlocks, PolledBlocks}

\* Transfers only, sending on the main block or on the companion; transfers, and receptions
\* on one block, that are cancelled
LivenessSystems == {System(TRUE, TRUE, "none", TRUE, {"masterTx", "slaveRx"}, {"transfer"}),
                    System(TRUE, TRUE, "none", FALSE, {"masterTx"}, {"transfer", "cancel"}),
                    System(FALSE, TRUE, "none", TRUE, {"masterRx"}, {"rx", "cancel"})}

\* Start calls that do not mask interrupts; handlers of two priorities; a slave transmitter
UnmaskedSystems == {System(TRUE, FALSE, "none", FALSE, {"masterTx"}, {"transfer"})}
NestedSystems   == {System(TRUE, TRUE, "ext", FALSE, {"masterTx"}, {"transfer"})}
SlaveSystems    == {System(FALSE, TRUE, "none", FALSE, {"slaveTx"}, {"tx"})}
=============================================================================
