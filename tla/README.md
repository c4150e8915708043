# MMIO++ and its STM32F429 drivers in TLA+

MMIO++ is a header-only C++ library that gives memory-mapped registers types, a set of drivers
written with it, and a small runtime that runs its tests on an emulated processor. This
directory models the library's register semantics, the SPI driver, the I2S driver and the
runtime's coverage export and checks them with TLC. Every safety property TLC checks on an
instance, the refinements of the abstract transfer by both drivers and of the abstract field
store by a register included, is proved with TLAPS for all values of the constants; of the I2S
driver for the systems it can serve (`Orderly`, section 4).

Line numbers refer to `src/include/mmio.hpp` ("mmio"),
`src/examples/stm32f429/spi_driver.hpp` ("spi"), `src/examples/stm32f429/i2s_driver.hpp` ("i2s")
and `src/targets/qemu-cortex-r5/runtime.cpp` ("runtime").

## 1. The system

| component | state | operations | what is hard | what makes it correct |
|---|---|---|---|---|
| register library, `include/mmio.hpp` | the word at a bus address; a local copy of it | whole-register assignment, `\|=`, `&=`, `^=`, `set<Field>`, `get<Field>`, predicates, snapshot and commit | an operator is one or two bus accesses and something else uses the register in between; fields of different access kinds share one word | an operator does what its form says to the fields it names, and nothing to the others |
| SPI/I2S block, `examples/stm32f429/spi_registers.hpp` | enable bits, one-word transmit and receive buffers, shift register, error flags | register reads and writes with side effects; frames complete by themselves | runs concurrently with the program; reading has effects | external: modelled as the drivers rely on it |
| SPI driver, `spi_driver.hpp` | state, last error, operation in progress, two buffer pointers, two counters | configure, six transfer operations, cancel, `onInterrupt`, error and receive housekeeping | the interrupt handler preempts every call between two bus accesses; errors, cancellation, timeouts and callbacks leave state behind for the next operation | buffers are never left, words are neither lost nor repeated, one report per operation, calls return |
| I2S driver, `i2s_driver.hpp` | the same, over a block and its companion | the same; a prescaler that may be refused, underrun clearing | two interrupt vectors run one handler over one set of counters; the priming write after the interrupts are enabled; flags cleared by reading | the same, and the enabled interrupts are the awaited ones |
| coverage export, `targets/qemu-cortex-r5/runtime.cpp`, `semihosting.hpp` | file handle, scratch buffer, failure flag, exit status; the host's files | dump, libgcov's callbacks, abort, exit | every semihosting call may fail, in the middle of a file; abort re-enters exit | status 0 means everything was exported; files have no holes; the program ends |
| example register maps, `examples/*_registers.hpp` | none | | | the layouts the library is exercised with |
| Cortex-M runtime, tests, demo, documentation, CMake, scripts | none of the system's own | | | not modelled |

How they interact: the drivers touch the block only through the library's typed registers,
so every driver step is one of the library's bus accesses. The application calls a driver
from the foreground; the processor calls `onInterrupt` from the interrupt vectors; the driver
calls the application back from there, and the callback may call the driver again. Driver
members are plain C++ members shared between foreground and interrupt without any lock: the
only mutual exclusion is that a handler runs to completion and that the driver enables
interrupts last. The runtime is called by the tests when they end, calls libgcov once per
object file, is called back by it, and calls the host.

The hazards that follow from this are listed, each at its line and with the properties that
cover it, under "hazards" in `PROJECT.json`.

## 2. Modules

| module | what it is |
|---|---|
| `MmioWords` | the pure part of the library: words, fields, access kinds and usage flags, encoded values and masks, what each operator computes, which operator accepts which token |
| `MmioRegister` | one register: live word, local copy, a foreground operation in its bus steps, an interrupt handler, hardware |
| `FieldStore` | the abstract specification of a register: a family of independent named fields with atomic operations |
| `AsyncTransfer` | the abstract specification of an interrupt-driven operation of either driver |
| `SpiBlock`, `SpiDriver` | the peripheral in SPI mode; the SPI driver over it, two contexts, its properties and the inductive invariant |
| `I2sBlock`, `I2sDriver` | the main block and its companion in I2S mode; the I2S driver over them, three contexts |
| `CoverageExport` | the export at the end of a target program, with libgcov and the host |
| `MCMmioRegister`, `MCSpiDriver`, `MCI2sDriver` | instances for TLC: layouts, applications, boards |
| `MmioWordsProofs` | theorems about the field helpers of `MmioWords`, for registers of any width |
| `MmioRegisterProofs` | theorems about `MmioRegister`: what its steps may change, and that it implements `FieldStore` |
| `SpiDriverProofs`, `SpiTransferProofs`, `SpiWireProofs` | theorems about `SpiDriver`: its invariants, that it implements `AsyncTransfer`, and that what is sent and stored is exact |
| `I2sDriverProofs`, `I2sWireProofs` | the same about `I2sDriver`; the first holds the refinement too |
| `CoverageExportProofs` | theorems about `CoverageExport` |

### Register words (`MmioWords`, `MmioRegister`)

A word is the set of its one-bits, so `&`, `|`, `~`, `^` are set operations, and overflow out
of the word, truncation to the field (mmio 563) and to `FieldType` (mmio 667-670) are
intersections. A token records value, mask and usage as `RegValue` and `AssignValue` do; the
form (`"reg"` or `"assign"`) carries the difference between the two types, which decides about
`|=`. `Compiles` is the disjunction of the `static_assert`s and deleted overloads; the program
only makes calls that compile. The program is chosen in `Init`: its register layouts and
payloads, whether it keeps a local copy, and whether it masks interrupts around a load and a
store.

`Call` begins an operation, `Load` and `StoreLive` (or `StoreShadow`) are its bus accesses,
`Read`, `Snapshot` and `Commit` are one access each. `IsrWrite` is a whole operation of an
interrupt handler, `Hardware` flips a status bit. `BusRead`, `AfterRead` and `BusWrite` say
what the bus makes of an access to a field of each kind; that is not in the library, and is
taken from the comments of its access tags (mmio 8-33). Masks of the whole register
(mmio 716) and `set(value)` forms are the same steps as those modelled. Two histories serve
the properties: `window` collects the bits others changed between the load and the store,
`staging` the bits changed since a snapshot and the bits named in the copy.

### The SPI block and driver (`SpiBlock`, `SpiDriver`)

Words are numbered: the k-th word of the operation is k, the reply to it is k as well (a
loop-back numbering), a word left over from an earlier operation is `Stale`. Loss,
duplication, reordering and misalignment are therefore visible as numbers. The block is a
master or slave whose frames start when a word is there; in the listening modes (`receiveOnly`,
`halfDuplexRx`) frames arrive by themselves. `WriteDR` is what `writeData` does: `set<Field>`
is a read-modify-write (mmio 946, 1091), so DR is read, with the effect a read has, before it
is written. What is abstracted: BSY, DMA, word contents and CRC arithmetic, clock, polarity and
frame formats, and NSS.

`pc["fg"]` and `pc["isr"]` are the two contexts; the foreground takes a step only when the
handler is idle (`Runs`). A step is one bus access with the member updates next to it:

* `Start` is the checks and `beginAsync` of the three `start*Interrupt` calls, `Arm` the
  member assignments one by one, `EnableCheck`, `EnableLoad`, `EnableStore` the three
  read-modify-writes of CR2 in `enableAsyncInterrupts`.
* `IsrEnter` to `IsrReturn` are `onInterrupt`, statement by statement; the callback is a point
  where the handler may call the driver again (`CallbackCall`) when `Chaining` is TRUE.
* `StartPoll` to `PollTimeout` are the three polling functions. `waitUntil` gives up
  nondeterministically when the flag is not there, which stands for every `pollLimit`.
* `Configure`, `Cancel`, `ClearError`, `ClearOverrun`, `Flush*`, `SetEnable` are the calls of
  the same names. Steps that no interleaving can tell apart are one step: `Configure` and
  `Cancel` begin with `disableInterrupts`, whose read-modify-write stores zeros in the three
  enables whatever it loaded, and the handler cannot run after that; the `captureErrors` reads
  of SR, up to four, are one read.

What the application is assumed to do: it configures before it starts anything (the code does
not check the `reset` state), makes one call at a time, keeps callbacks from configuring and
polling, makes at most one call in a callback, passes valid pointers and positive counts, and
leaves `enable`, `disable` and the data register alone while an operation is in progress. Calls
refused with `busy` or `invalidArgument` change nothing and are not steps.

The histories `size`, `got`, `owed`, `stray`, `clean` and `raced` record what an operation
was asked to do, what it stored, whether it still owes a report, whether a report was made that
none was owed, whether the block was silent at its start, and whether the handler disabled
interrupts while a start call was between its CR2 accesses. The last is not a convenience: after
that race the driver really does run with interrupts of an operation that is over (finding
`SpiStrayReport`), and the promises below hold until then. `raced` is reset when the
application begins an operation with no interrupt left enabled.

### The I2S blocks and driver (`I2sBlock`, `I2sDriver`)

Each block works in one direction; in full duplex the companion takes the one the main block
does not have, and both share a wire clock (`FrameStart`, `FrameEnd`), which the drivers do not
wait for: a master transmitter clocks while it has a word, a master receiver while it is on,
a slave whenever the other end likes. A received word is the number of its frame since the
operation began. OVR goes away when DR and then SR are read, UDR when SR is read (i2s 152,
160), so every read of SR in the code is a step with an effect.

There are three contexts: `"fg"` and one handler for each block, both of which run
`onInterrupt`. What differs between applications and boards is one record, chosen in `Init`
(`system`): whether there is a companion (`kHasExtension`), whether the application masks
interrupts during start calls, which handler preempts the other, whether frame errors occur, and
which modes and calls are used.

* `Start`, `Arm`, `LoadCr2`, `StoreCr2`, `WriteWord("fg")`, `CountPrimed` are the start calls: the
  members, the read-modify-writes of the two CR2 registers in the order of the code, and in a
  transfer the priming write, its count, and the removal of TXEIE after the only word
  (i2s 321-405).
* `IsrCheckBusy`, `CheckOverrun`, `IsrVerdict`, `IsrFail`, `IsrTx` to `CountRead`, `IsrDone`,
  `IsrDisable`, `IsrComplete` and `IsrReturn` are `onInterrupt`; the word, the pointer and the
  counter are separate steps, since the other handler may come between them.
* `StartPoll` to `PollVerdict` are the polling functions. `captureSimpleErrors` and
  `captureFullDuplexErrors` are two steps (`CheckOverrun`, `Verdict`), because the status
  may change between them and the first read clears what the second one looks for.
* `Cancel` to `CancelForget` are `cancelInterrupt`: `disableInterrupts` runs in the foreground with
  interrupts on, so each of its six read-modify-writes of CR2 (three without a companion;
  `DisableOrder`, i2s 649-659) is a load and a store, and a handler may complete or fail the
  operation before, between or after them. The members are reset last, with nothing enabled.
* `Configure`, `Refuse` (a prescaler out of range), `ClearError`, `ClearOverrun`,
  `ClearUnderrun`, `FlushStart` to `FlushDrop`, `SetEnable` are the calls of those names.

The application is assumed to do what is assumed for SPI, and to make no call from a callback,
to pick operations that fit the configured direction, and to change the direction only of
silent blocks.

### The abstract transfer (`AsyncTransfer`)

Both drivers promise the same: an operation begins with some number of words per direction,
hands them over one by one, completes only when none is left, is reported once, and may fail
or be cancelled at any time. Under the refinement mappings (`Transfer` in `SpiDriver` and in
`I2sDriver`) `phase` is "running" while a report is owed, "completed" or "failed" while the
handler is in the callback, and "undefined" once the start call lost the race for CR2;
`toSend` and `toStore` are the counters, or, until the start call has set them, the argument
they are going to be set to. `Start` maps to `Begin`, the decrement of a counter to `SendWord` or
`StoreWord`, the step to the callback to `Complete` or `Fail`, everything else to a stutter.

### The coverage export (`CoverageExport`)

`TargetExit` to `Exit` are `mmiocpp_target_exit` and `dump_coverage` (runtime 79-98, 113-121);
`OpenFile`, `Allocate`, `WriteChunk` are the callbacks libgcov makes, in any order and number
(`Gcov`), `HostWrites` one turn of the loop of `semihosting::write`, `CloseFile` the close at
the end of an object. The host may refuse every one of them, write any part of a chunk, or answer
with more than it was asked for. `Abort` is `abort` or `fread`: the export is marked as failed and
the exit starts over. Bytes are the positions they have in their object's data, so a file with
a hole or a repetition differs from `NumberedTo(n)`. A handle is named after the open call it
came from, so one that is left open stays distinguishable. `answered` is a history that only
makes an answer without progress a step: otherwise a write loop that never ends would be
stuttering, which fairness rules out.

## 3. What is checked

### Runs

Several runs explore more than one application or board: the choice is made in `Init` and kept,
which asks every question of each of them without exploring combinations nobody builds.

| run | result | question, bounds |
|---|---|---|
| `MmioRegister` | holds | Three programs. `Masked`: does the register, live and copied, implement `FieldStore` when interrupts are masked around load/store pairs? `Shared`: what may an operator do to a field it does not name, when a handler and the hardware act between its accesses? `Staged`: what can a commit of a local copy destroy? |
| `MmioOrSafe` | violated | Does `\|=` put the register into the state it names? |
| `SpiTransfers` | holds | Six applications. `Interrupted`, `Receiving`, `Sending`, `Listening`: operations of one and two words in full duplex and in one direction, cancellation, overruns. `Polled`: polling operations with timeouts, faults and the clearing and enabling calls. `Chained`: callbacks that start and cancel, mixed with polling and faults, one word |
| `SpiReturns` | holds | Liveness. `Awaited`: is an operation in a one-direction mode reported? `Called`: do the calls return, with faults that stay once they are set, and if not, why? |
| `SpiLostReply` | violated | Liveness: is every full-duplex transfer reported? |
| `SpiStrayReport` | violated | Is there one report for each operation? |
| `I2sTransfers` | holds | Four systems. `OneBlock`: a handler that preempts start calls and cancels, refused configurations. `TwoBlocks`: two handlers of one priority, masked during start calls, frame errors. `CancelledBlocks`: the same two handlers against the six read-modify-writes of a cancel. `PolledBlocks`: polling operations with timeouts, errors and the clearing and enabling calls |
| `I2sReported` | holds | Liveness, start calls masked. Is a transfer on two blocks reported? Do start calls and cancels return, on one block and on two, and if not, why? |
| `I2sPriming` | violated | Do the counters stay in range when start calls are not masked? |
| `I2sNested` | violated | Are the buffers kept when one handler preempts the other? |
| `I2sUnderrun` | violated | Is an underrun in the middle of a transmission reported? |
| `CoverageExport` | holds | What do the exit status, the files, the handles and the scratch memory look like, whatever fails, and does the program end? |

Bounds.

* Registers: `W` = 4 (three bits used by the storage layouts). Every field-to-field interaction
  involves two fields; the extra bits give a reserved bit, a second bit inside a field, and
  numeric fields narrower and wider than their `FieldType`. The layouts of `Shared` together
  have each of the nine access kinds next to a plain field. `MaxNamed` = 2 bounds the fields of a
  token, payloads include some that overflow the field.
* Drivers: `MaxCount` = 2 words per operation is the smallest number that has a first and a last
  word that differ, a word in the transmit buffer behind one in the shift register, and an
  overrun; the single receive buffer means that a third word meets the same situations. Where
  callbacks and polling are mixed (`Chained`) and for the return of calls one word is enough:
  the questions are about reports and interrupt enables. One fault flag stands for the three
  the SPI driver treats alike; FRE is the I2S driver's only one. `arrived` is capped (in I2S at
  `FrameCap`), beyond which the numbering stays at the last number. `PastEnd` stands for all
  positions further behind a buffer than that, `Huge` for a counter that was decremented
  below zero: both are only reachable after a race. On two I2S blocks the main one is a slave: its
  wire runs whenever it likes, so it does everything a master's does. `CancelledBlocks` has one
  mode and no frame errors: both handlers reach completion and overrun in it, which is what can
  come between the steps of a cancel (the theorems of section 4 have no such bound). For the
  return of calls, transfers on two blocks and receptions with frame errors on one are the two
  forms of `disableInterrupts`.
* Export: `MaxObjects` = 2 (one before and one after a failure), `MaxBytes` = 3 (a partial
  write, a rest, a later chunk), `MaxAborts` = 1 nested exit, a scratch buffer of 11 bytes
  aligned to 4, so that both alignment and exhaustion happen, exactly at the boundary too.
  `ExportAssumption` leaves out requests so long that `std::size_t` wraps.

`SpiLostReply` and `SpiReturns` say `CHECK_DEADLOCK FALSE` because the system really stops
there when the application has no call left to make: after a lost reply (full duplex), or after
the race, the driver is busy and no interrupt will come; `cancel` is not among the calls of
these runs.

### Properties

* `ImplementsFieldStore` is a refinement: `Call` maps to `Begin`, the load to a stutter, the
  store, read, snapshot or commit to `Finish`, the interrupt handler to `IsrWrite`.
* `StoresKeepOtherFields` says exactly which of the nine access kinds survive the echo of a
  loaded bit and which survive a written zero, and that everything else lost was changed
  within the window. `CommitLosesOnlyWhatChanged` says it of a commit.
* `BufferLedger` relates each buffer pointer to its counter throughout an operation, whatever
  operations failed before it; in I2S both handlers move them.
* `WireOrder`, `CompletedTransferIsExact` and `PolledTransferIsExact` compare the words on the
  wire and in the caller's buffer with the words of the operation. The last two hold for
  operations begun on a silent block (`clean`): after a timeout or cancellation a frame is
  still in flight and the next full-duplex operation reads its reply first (spi 438-441,
  340-348).
* `InterruptsBelongToAnOperation` and `StrayReportOnlyAfterRace` tie SPI interrupt enables and
  reports to operations. `InterruptsAreTheAwaitedOnes` is sharper, and holds for I2S: outside the
  handlers, start calls and `cancelInterrupt` the enabled interrupts of both blocks are exactly
  those the operation still waits for, and after a cancel there are none.
* `ImplementsTransfer` is the refinement of `AsyncTransfer`, for either driver.
* `ReportedUnlessRaced`, `CallsReturn`, `EveryOperationIsReported` and `DumpEnds` are the
  liveness properties. `CallsReturn` does not say that every call returns, which is false of
  either driver, but that one which does not is starved by an interrupt that nobody serves, for
  ever, and names the only way into that state (see the two hangs under "Findings").
  `EveryOperationIsReported` and `ReportedUnlessRaced` count a cancelled operation as settled.
* `ZeroMeansExported`, `FileIsPrefix`, `LeakIsRecorded` and `ScratchIsDisjoint` are what the
  coverage report of the continuous integration relies on.
* `IInv` and `WireInv` of the drivers, `RegisterInv` and `ExportInv` are the inductive invariants
  of the proofs (section 4). TLC checks each of them too.

Every property has a mutant of the code that breaks it (`PROJECT.json`, "mutants"): a dropped
guard in `onInterrupt`, a pointer that does not advance, an enable that is missing, a field
mask that is not applied, a write loop that takes no progress for success, and so on.

### Fairness

* SPI: weak fairness of the steps of code that has been entered, of taking an interrupt that is
  requested, of a wait that has reached its limit, and of the block's shift register and, in the
  listening modes, of frames (the driver clocks them). Nothing is assumed of the application
  and nothing of faults. Code the foreground has entered is only weakly fair: a handler that is
  requested again and again may starve it, and `CallsReturn` shows when it does: only after a
  start call lost the race for CR2. `MCFaultsStaySpec` lets a fault appear at any time and
  stay, as nothing in the driver clears one; with one that comes and goes the request that
  starves a call could come and go with it, which is the environment's doing. `flushReceive` in a listening mode with a device that
  never stops sending does not return either; that mode is not among those of `Called`.
* I2S: the same for code and interrupts, the steps of a cancel included, and for the wire clock
  (`FrameStart`, `FrameEnd`), which a master drives and a slave is given. Start calls are masked,
  so only a cancel can be starved, and only by what it stored itself.
* Export: weak fairness of the runtime's own steps and of the host's answers, whatever they are;
  strong fairness of `ObjectDone`: libgcov comes to the end of an object however many callbacks
  it makes.

### Findings

* `MmioOrSafe`: `|=` accepts zero-valued states, which it cannot establish.
* `SpiLostReply`: `writeData` reads DR before it writes it and takes a reply that arrived after
  the handler looked at the status register. The transfer then waits for ever.
* `SpiStrayReport`: an interrupt inside `enableAsyncInterrupts` fails the operation, and the
  interrupted call enables interrupts again. The next callback belongs to no operation.
* `I2sPriming`: a transfer enables TXEIE before it writes and counts its first word. The interrupt
  sends the same word; for a transfer of one word the unsigned counter wraps.
* `I2sNested`: with handlers of two priorities both send a word for one count, and the pointer
  leaves the buffer.
* `I2sUnderrun`: the reads of SR that look for an overrun or for room clear UDR before it is looked
  at. A transmission that starved in the middle completes without an error.

Two hangs of the code are not runs of their own; `CallsReturn` states them as its exceptions:

* An SPI start call, with a fault flag (MODF, CRCERR, FRE) that is set during it and stays: the
  handler fails the operation as soon as ERRIE is stored and clears all enables, the start call
  stores TXEIE after that (spi 550-552), the state is "error", and `onInterrupt` returns without
  serving the request (spi 353-355), again and again.
* An I2S `cancelInterrupt`: its first read-modify-write loads RXNEIE and ERRIE, the handler
  finishes the operation and clears CR2, the store brings them back while the driver is "ready".
  The next frame or error requests an interrupt that `onInterrupt` does not serve (i2s 423-425),
  and the cancel never reaches the stores that would clear them. The SPI driver's cancel cannot
  hang: its one read-modify-write stores zeros in all three enables.

That a whole-register write triggers the actions of write-zero fields it does not name is not a
finding: the library documents the access kinds, and `StoresKeepOtherFields` says which fields
survive.

## 4. What is proved

TLC checks the properties on the instances of section 3; the theorems below state them for every
value of the constants: any word width and any layout, buffers of any length, any application
that keeps to the assumptions of section 2. The constants' assumptions, which TLC evaluates on
the instances, are `WidthAssumption`, `RegisterAssumption`, `BlockAssumption`,
`DriverAssumption` (one for each driver) and `ExportAssumption`. Each proof has an inductive
invariant made of named parts, one lemma per action, and in it one step per part the action can
disturb; TLC checks the same invariants as well.

### Register words and registers

`MmioWordsProofs`, for fields of any offset, width and payload type that fit into the word (the
`static_assert` of mmio 527):

| theorem | statement |
|---|---|
| `WriteMaskedReplacesOneField` | after `set<Field>(payload)` the field reads as the payload truncated to it, and every disjoint field reads as before |
| `PredicateIsExact` | a predicate holds exactly when the field reads as the payload, zero included |

Both rest on what `extract` and `encode` do to one bit (`ExtractBit`, `EncodeBit`): a bit of the
register belongs to a field when the bit `offset` below it belongs to the field's payload.

`MmioRegisterProofs`, for all programs of `RegisterAssumption`, that is, layouts of fields that
do not overlap, as in every register map of `examples/`:

| theorem | statement |
|---|---|
| `RegisterInvariance`, `RegisterTypeCorrect` | `Spec => []RegisterInv`, `Spec => []TypeOK` |
| `OtherFieldsKept` | `Spec => StoresKeepOtherFields` |
| `CommitLosesNothingElse` | `Spec => CommitLosesOnlyWhatChanged` |
| `RegisterImplementsFieldStore` | `Spec => ImplementsFieldStore` |

The state between two bus accesses is what the invariant is about. `Loaded` says that the
loaded word differs from the register only in bits others changed within the window (none of a
plain field when interrupts are masked), `CopyKnown` that a local copy differs from the register
only in bits `staging` records, `Requested` that the operation in progress is one that compiles.
The rest is work on single bits: what one operator's new word is in one bit (`NewWordBit`),
what the bus makes of a written bit by access kind (`BusWriteBit`), and that a bit has one field
(`Owned`). `AppliedToFields` carries that back to payloads: the fields of the new word are what
`FieldStore` says of the fields of the old one. From there each store, read, snapshot and
commit is a `Finish` of the abstract store, each load a stutter.

### SPI driver

For every buffer length, set of faults, set of bus modes and entry points, with chaining
callbacks or without:

| module | theorem | statement |
|---|---|---|
| `SpiDriverProofs` | `Invariance` | `Spec => []IInv` |
| | `TypeCorrect` | `Spec => []TypeOK` |
| | `LedgerHolds` | `Spec => []BufferLedger` |
| | `InterruptsAreAttributed` | `Spec => []InterruptsBelongToAnOperation` |
| | `NoStrayReport` | `Spec => StrayReportOnlyAfterRace` |
| `SpiTransferProofs` | `SpiImplementsTransfer` | `Spec => ImplementsTransfer` |
| `SpiWireProofs` | `WireInvariance` | `Spec => [](IInv /\ WireInv)` |
| | `WordsInOrder` | `Spec => []WireOrder` |
| | `CompletionIsExact` | `Spec => CompletedTransferIsExact` |
| | `PollingIsExact` | `Spec => PolledTransferIsExact` |

`TypeOK` is not inductive: that a counter stays non-negative rests on the handler having
tested it at an earlier step, which is `CountersInStep`. `BufferLedger` is not inductive
either: while a start call sets the members one at a time pointer and counter disagree, so
`Ledger` says which of them agree with the arguments already (`Armed`), and it must be known
that no handler step runs in between. That is the work of `Attribution`: unless raced, enabled
interrupts belong to an owed operation, a start call that still arms has none enabled and the
handler is idle, a polling call never runs while an operation is owed. These four are `IInv`.

For the refinement, `IInv` says that a counter is positive where it is decremented and that
both are zero where completion is reported. What it lacks is `Planned`: the counters a start call
has set already are the ones its arguments ask for, without which the step that sets the last
member would change the abstract counters, and the handler is in state "error" when it is about
to report one. `Planned` is proved invariant first.

`WireInv` adds where the words are. `Outgoing` counts the words written (on the wire, in the
shift register, in DR) against `txRemaining` or the polling index. `Replies` follows each
reply from the shift register over the receive buffer into the caller's. It has two forms:
in full duplex (`EchoChain`) there is one reply for each word, or the count stays short for
good, as after the lost reply of `SpiLostReply`; in the listening modes (`FrameChain`) frames come
by themselves, and the first one lost has raised OVR. An operation that was not begun on a silent
block is excluded by `clean`, as in the properties.

### I2S driver

All of it under the hypothesis `Orderly`: no handler preempts the other one, and a transfer is
started with interrupts masked. Without the first half `I2sNested` leaves the buffer, without
the second `I2sPriming` wraps the counter, so nothing could be proved; everything else of the
system is free: with or without a companion, any mode, frame errors or none, start calls in
one direction preempted anywhere, cancels too.

| module | theorem | statement |
|---|---|---|
| `I2sDriverProofs` | `Invariance` | `Spec => []IInv` |
| | `TypeCorrect` | `Spec => []TypeOK` |
| | `CountersNeverWrap` | `Spec => []NoCounterWraps`, the property `I2sPriming` refutes elsewhere |
| | `LedgerHolds` | `Spec => []BufferLedger` |
| | `InterruptsAreAwaited` | `Spec => []InterruptsAreTheAwaitedOnes` |
| | `I2sImplementsTransfer` | `Spec => ImplementsTransfer` |
| `I2sWireProofs` | `WireInvariance` | `Spec => [](IInv /\ WireInv)` |
| | `WordsInOrder` | `Spec => []WireOrder` |
| | `CompletionIsExact` | `Spec => CompletedTransferIsExact` |
| | `PollingIsExact` | `Spec => PolledTransferIsExact` |

`IInv` differs from the SPI driver's where the code does. `Scheduling` is what `Orderly`
gives: at most one handler is under way. Word, pointer and counter are separate steps, so
`Ledger` has an offset of one between them (`Between`), and `IndicesInStep` does for the two
polling indices what `CountersInStep` does for the counters. `Enabled` is needed for
`InterruptsAreTheAwaitedOnes`: it names the enables a start call has come to set
(`EnabledSoFar`), and says that a handler that preempts it cannot have finished the operation
unless it counted a word.

A cancel takes the driver through states in which an interrupt is enabled and nobody awaits it.
`Attribution` excuses them (`cancelling`): a handler entered for such an interrupt finds the
driver not busy and returns. What the cancel does guarantee is in `Enabled`: an interrupt it has
disabled stays disabled (`DisabledSoFar`), whatever handler runs, because a handler only removes
enables, and the word loaded for the next store does not hold it either. After the last store
all of them are in that set (`AllDisabled`), so `CancelForget` resets the members with nothing
enabled, and `InterruptsAreTheAwaitedOnes` holds again.

The refinement needs the part of `Attribution` that says that a handler about to make the error
callback has put the driver in error, and that nobody ran since.

`WireInv` counts the words written against the pointer or the index, and follows each frame
from the wire over DR to the buffer, until an overrun. The overrun is the hard part: every read
of SR after a read of DR clears it, the reads that test for room or for data included. `Incoming`
says that this cannot lose one: between its overrun test and its read of DR (`Tested`) a context
has no overrun half cleared, so an overrun stays visible until it is found, and what is found
(`overrunFound`) is reported.

### Coverage export

For every number of objects, data size, scratch capacity, alignment and set of requests of
`ExportAssumption`, in `CoverageExportProofs`:

| theorem | statement |
|---|---|
| `ExportInvariance` | `Spec => []ExportInv` |
| `ExportTypeCorrect` | `Spec => []TypeOK` |
| `StatusIsTruthful` | `Spec => []ZeroMeansExported` |
| `FilesArePrefixes` | `Spec => []FileIsPrefix` |
| `LeaksAreRecorded` | `Spec => []LeakIsRecorded` |
| `ScratchNeverOverlaps` | `Spec => []ScratchIsDisjoint` |

`ZeroMeansExported` speaks of the last state only; `ExportInv` carries it there. `Positions`
says how much of the object in progress its file holds at each point, down to the rest of a
chunk that is half written; `NothingLost` that, as long as no failure is recorded, every
object before it is complete and no other file is open. `ScratchIsDisjoint` is inductive by
itself, but needs that the rounding of `alignedOffset` neither wraps nor falls below the used
part (`AlignedOffset`).

### Only model-checked

The liveness properties (`ReportedUnlessRaced`, `CallsReturn`, `EveryOperationIsReported`,
`DumpEnds`): fairness is stated through ENABLED, which is beyond the prover. The theorems of
the drivers speak of one operation at a time, as the properties do; what happens after the race
for CR2, or on systems that are not orderly, is only shown by the runs that violate.

## 5. Not modelled, and what could follow

* Library: cross-register errors (C++ types; there is one register here), the widths of C++
  integer promotion.
* Both drivers: reordering of plain member accesses by the compiler around volatile accesses,
  `setCallbacks` while an operation runs, `pollLimit` 0, calls refused without a change, the
  pending bits of the interrupt controller (a request is a level here). A DR write and the
  increment of the pointer it used are one step.
* I2S driver: calls from callbacks, operations that do not fit the mode, a driver used before it
  is configured, chip-level side effects of a prescaler. `disableInterrupts` and the
  read-modify-writes of CR2 inside the handler are one step each: they store what the
  only context that may come between them would store. So is `disableInterrupts` in
  `Configure`, which is refused while the driver is busy: no operation is in progress, so a
  handler that came between would enter and return without touching CR2. In `cancelInterrupt`
  it is not (section 2). The reads of SR in `Verdict` for UDR and then for FRE (i2s 798 and 802, 828,
  837 and 843) are one: an underrun between them, which the second would clear unseen, stays set.
  No property that passes depends on it, and the first reads show the loss already (`I2sUnderrun`).
* Peripheral: DMA, CRC and word contents, clock and frame formats.
* Export: the text of messages, libgcov itself, the host's file system, request lengths for
  which `std::size_t` wraps. Start-up code and the Cortex-M runtime have no state to speak of.
* Tests, demo, documentation, build files and scripts.

What could follow: operations that do not fit the I2S mode, and calls from the I2S callbacks; a
weaker hypothesis than `Orderly` for operations in one direction, where the handlers of the two
blocks cannot meet.
