---------------------------- MODULE AsyncTransfer ----------------------------
(***************************************************************************)
(* What an interrupt-driven operation of either driver promises to the     *)
(* application that starts it (the start*Interrupt functions, onInterrupt  *)
(* and cancelInterrupt of spi_driver.hpp and i2s_driver.hpp): the caller's *)
(* words are handed over one by one, and the completion callback is called *)
(* once, when the last of them in both directions was.  An operation that  *)
(* loses the race for CR2 while it is being started is undefined until the *)
(* next one begins.                                                        *)
(***************************************************************************)
EXTENDS Integers

CONSTANT MaxCount       \* most words one operation carries

VARIABLES phase,        \* see Phases
          toSend,       \* words not yet written to the data register
          toStore       \* words not yet read from the data register

vars == <<phase, toSend, toStore>>

Phases == {"idle", "running",
           "completed", "failed",       \* the callback that says so is executing
           "undefined"}

Init == phase = "idle" /\ toSend = 0 /\ toStore = 0

\* The application, or a callback, starts an operation of one length in the directions
\* it has.
Begin == /\ phase # "running"
         /\ \E n \in 1 .. MaxCount : <<toSend', toStore'>> \in {<<n, n>>, <<n, 0>>, <<0, n>>}
         /\ phase' = "running"

SendWord  == /\ phase = "running" /\ toSend > 0
             /\ toSend' = toSend - 1
             /\ UNCHANGED <<phase, toStore>>
StoreWord == /\ phase = "running" /\ toStore > 0
             /\ toStore' = toStore - 1
             /\ UNCHANGED <<phase, toSend>>

\* Completion is reported when nothing is left, an error at any time.
Complete == /\ phase = "running" /\ toSend = 0 /\ toStore = 0
            /\ phase' = "completed"
            /\ UNCHANGED <<toSend, toStore>>

Drop(next) == phase' = next /\ toSend' = 0 /\ toStore' = 0
Fail   == phase = "running" /\ Drop("failed")
Cancel == phase = "running" /\ Drop("idle")
Race   == phase = "running" /\ Drop("undefined")

\* The callback returns; a polling operation ends what a race had left.
Return == phase \in {"completed", "failed", "undefined"} /\ Drop("idle")

Next == Begin \/ SendWord \/ StoreWord \/ Complete \/ Fail \/ Cancel \/ Race \/ Return

Spec == Init /\ [][Next]_vars
=============================================================================
