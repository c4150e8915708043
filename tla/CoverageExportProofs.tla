------------------------ MODULE CoverageExportProofs ------------------------
(***************************************************************************)
(* What the export of CoverageExport keeps for every number of objects and *)
(* every size of the data, of the scratch memory and of the requests: the  *)
(* invariants its run checks, from the one inductive invariant ExportInv.  *)
(***************************************************************************)
EXTENDS CoverageExport, TLAPS

----------------------------------------------------------------------------
(* Lemmas about numbers, sequences and handles *)

\* Rounding down to a multiple of the alignment
LEMMA RoundDown ==
  ASSUME NEW a \in Nat \ {0}, NEW x \in Nat
  PROVE  /\ (x \div a) * a \in Nat
         /\ (x \div a) * a <= x
         /\ x < (x \div a) * a + a
         /\ ((x \div a) * a) % a = 0
  BY Z3

\* Appending the next positions to a prefix gives a longer prefix.
LEMMA PrefixGrows ==
  ASSUME NEW n \in Nat, NEW m \in Nat
  PROVE  NumberedTo(n) \o [i \in 1 .. m |-> n + i] = NumberedTo(n + m)
  BY DEF NumberedTo

LEMMA PrefixLength == \A n \in Nat : Len(NumberedTo(n)) = n
  BY DEF NumberedTo

LEMMA EmptyPrefix == <<>> = NumberedTo(Len(<<>>)) /\ <<>> \in Seq(1 .. MaxBytes)
  BY DEF NumberedTo

\* A handle of an open call is not the invalid one.
LEMMA HandlesAreValid == \A h \in Handles : h # Invalid
  BY DEF Handles, Invalid

\* The aligned offset is a multiple of the alignment at or behind the end of the used
\* part, and computing it and the end of a piece does not wrap (runtime.cpp:40-46).
LEMMA AlignedOffset ==
  ASSUME TypeOK, NEW n \in Requests
  PROVE  /\ alignedOffset \in Nat /\ used <= alignedOffset
         /\ alignedOffset % Alignment = 0
         /\ (alignedOffset + n) % SizeRange = alignedOffset + n
<1> DEFINE sum == used + Alignment - 1
<1>1. /\ used \in Nat /\ used <= Capacity /\ n \in Nat
      /\ Alignment \in Nat \ {0} /\ SizeRange \in Nat /\ Capacity \in Nat
      /\ Capacity + Alignment + n < SizeRange
  BY ExportAssumption DEF TypeOK
<1>2. sum \in Nat /\ sum % SizeRange = sum
  BY <1>1
<1>3. alignedOffset = (sum \div Alignment) * Alignment
  BY <1>2 DEF alignedOffset
<1>4. /\ alignedOffset \in Nat /\ alignedOffset <= sum
      /\ sum < alignedOffset + Alignment /\ alignedOffset % Alignment = 0
  <2> HIDE DEF sum
  <2> QED
    BY <1>1, <1>2, <1>3, RoundDown
<1>5. used <= alignedOffset /\ alignedOffset + n \in 0 .. SizeRange - 1
  BY <1>1, <1>4
<1>6. (alignedOffset + n) % SizeRange = alignedOffset + n
  BY <1>1, <1>5
<1> QED
  BY <1>4, <1>5, <1>6

LEMMA PiecesAreNumbers ==
  ASSUME TypeOK
  PROVE  \A a \in live : a.at \in Nat /\ a.length \in Nat
<1> SUFFICES ASSUME NEW a \in live PROVE a.at \in Nat /\ a.length \in Nat
  OBVIOUS
<1>1. a.at \in 0 .. Capacity /\ a.length \in Requests
  BY DEF TypeOK
<1>2. a.length \in Nat
  BY <1>1, ExportAssumption
<1>3. Capacity \in Nat
  BY ExportAssumption
<1> QED
  BY <1>1, <1>2, <1>3

----------------------------------------------------------------------------
(* ExportInv is inductive: one lemma per action *)

LEMMA InitExport == Init => ExportInv
<1> SUFFICES ASSUME Init PROVE ExportInv
  OBVIOUS
<1>1. TypeOK
  <2>1. disk \in [Objects -> Seq(1 .. MaxBytes)] /\ fed \in [Objects -> 0 .. MaxBytes]
    BY EmptyPrefix, ExportAssumption DEF Init
  <2>2. opened \subseteq Handles /\ live \subseteq [at : 0 .. Capacity, length : Requests]
    BY DEF Init
  <2>3. /\ count \in 0 .. MaxObjects /\ status \in 0 .. 3 /\ info \in 1 .. MaxObjects + 1
        /\ used \in 0 .. Capacity /\ depth \in 0 .. MaxAborts
        /\ cursor \in 0 .. MaxBytes /\ remaining \in 0 .. MaxBytes
    BY ExportAssumption DEF Init
  <2>4. /\ failed \in BOOLEAN /\ answered \in BOOLEAN
        /\ pc \in Labels /\ handle \in Handles \cup {Invalid}
    BY DEF Init, Labels
  <2> QED
    BY <2>1, <2>2, <2>3, <2>4 DEF TypeOK
<1>2. FileIsPrefix
  BY EmptyPrefix DEF Init, FileIsPrefix
<1>3. Positions /\ NothingLost
  BY ExportAssumption DEF Init, Positions, NothingLost, Working, HasFile
<1>4. ScratchIsDisjoint
  BY ExportAssumption DEF Init, ScratchIsDisjoint
<1> QED
  BY <1>1, <1>2, <1>3, <1>4 DEF ExportInv

\* Steps that leave files, scratch memory and what libgcov handed over alone
Untouched == UNCHANGED <<used, live, disk, fed>>

LEMMA UntouchedData ==
  ASSUME ExportInv, Untouched
  PROVE  FileIsPrefix' /\ ScratchIsDisjoint'
  BY DEF ExportInv, Untouched, FileIsPrefix, ScratchIsDisjoint, Overlap

\* The steps of mmiocpp_target_exit and dump_coverage that only move on
LEMMA ControlSteps ==
  ASSUME ExportInv, TargetExit \/ NoObjects \/ ObjectDone \/ Abort \/ DumpDone \/ Exit
  PROVE  ExportInv'
<1>1. Untouched /\ UNCHANGED <<count, handle, cursor, remaining, opened, answered>>
  BY DEF Untouched, TargetExit, NoObjects, ObjectDone, Abort, DumpDone, Exit
<1>2. /\ pc' \in Labels /\ status' \in 0 .. 3 /\ info' \in 1 .. MaxObjects + 1
      /\ failed' \in BOOLEAN /\ depth' \in 0 .. MaxAborts
  <2>1. CASE TargetExit
    BY <2>1, ExportAssumption DEF ExportInv, TypeOK, Labels, TargetExit, EnterExit, Goto
  <2>2. CASE Abort
    BY <2>2, ExportAssumption DEF ExportInv, TypeOK, Labels, Abort, EnterExit, Goto
  <2>3. CASE NoObjects \/ ObjectDone \/ DumpDone
    BY <2>3 DEF ExportInv, TypeOK, Labels, NoObjects, ObjectDone, DumpDone, Goto
  <2>4. CASE Exit
    BY <2>4 DEF ExportInv, TypeOK, Labels, Exit, Goto
  <2> QED
    BY <2>1, <2>2, <2>3, <2>4
<1>3. TypeOK'
  BY <1>1, <1>2 DEF Untouched, ExportInv, TypeOK
<1>4. Positions'
  BY <1>1, ExportAssumption
  DEF Untouched, ExportInv, TypeOK, Positions, Working, TargetExit, NoObjects, ObjectDone, Abort,
      DumpDone, Exit, EnterExit, Goto
<1>5. NothingLost'
  BY <1>1, ExportAssumption
  DEF Untouched, ExportInv, TypeOK, Positions, NothingLost, Working, HasFile, TargetExit, NoObjects,
      ObjectDone, Abort, DumpDone, Exit, EnterExit, Goto
<1> QED
  BY <1>1, <1>3, <1>4, <1>5, UntouchedData DEF ExportInv

LEMMA NextObjectKeeps ==
  ASSUME ExportInv, NextObject
  PROVE  ExportInv'
<1>1. info \in Objects /\ count \in Nat
  BY ExportAssumption DEF NextObject, ExportInv, TypeOK, Objects
<1>2. TypeOK'
  BY <1>1, ExportAssumption DEF ExportInv, TypeOK, Labels, NextObject, Goto
<1>3. FileIsPrefix'
  BY DEF ExportInv, FileIsPrefix, NextObject
<1>4. Positions'
  BY <1>1 DEF ExportInv, TypeOK, Positions, Working, NextObject, Goto
<1>5. NothingLost'
  BY <1>1, ExportAssumption
  DEF ExportInv, TypeOK, NothingLost, HasFile, NextObject, Goto, Objects
<1>6. ScratchIsDisjoint'
  BY ExportAssumption DEF ScratchIsDisjoint, NextObject
<1> QED
  BY <1>2, <1>3, <1>4, <1>5, <1>6 DEF ExportInv

LEMMA OpenFileKeeps ==
  ASSUME ExportInv, OpenFile
  PROVE  ExportInv'
<1>1. /\ info \in Objects /\ count \in Nat /\ <<info, depth>> \in Handles
      /\ <<info, depth>> # Invalid
  BY ExportAssumption, HandlesAreValid
  DEF OpenFile, ExportInv, TypeOK, Positions, Working, Objects, Handles
<1>2. TypeOK'
  <2>1. disk' \in [Objects -> Seq(1 .. MaxBytes)]
    BY EmptyPrefix DEF ExportInv, TypeOK, OpenFile
  <2>2. handle' \in Handles \cup {Invalid} /\ opened' \subseteq Handles
    BY <1>1 DEF ExportInv, TypeOK, OpenFile
  <2> QED
    BY <2>1, <2>2 DEF ExportInv, TypeOK, Labels, OpenFile, Goto
<1>3. FileIsPrefix'
  BY <1>1, EmptyPrefix DEF ExportInv, TypeOK, FileIsPrefix, OpenFile
<1>4. Positions'
  BY <1>1 DEF ExportInv, TypeOK, Positions, Working, OpenFile, Goto
<1>5. NothingLost'
  <2> SUFFICES ASSUME ~failed'
               PROVE  /\ handle' # Invalid /\ opened' \subseteq {handle'}
                      /\ \A o \in 1 .. info - 1 : Len(disk'[o]) = fed[o]
    BY DEF NothingLost, HasFile, OpenFile, Goto
  <2>1. /\ ~failed /\ handle' = <<info, depth>> /\ opened' = opened \cup {<<info, depth>>}
        /\ disk' = [disk EXCEPT ![info] = <<>>]
    BY DEF OpenFile
  <2>2. opened = {} /\ \A o \in 1 .. info - 1 : Len(disk[o]) = fed[o]
    BY <2>1 DEF ExportInv, NothingLost, HasFile, OpenFile
  <2>3. \A o \in 1 .. info - 1 : disk'[o] = disk[o]
    BY <1>1, <2>1, ExportAssumption DEF ExportInv, TypeOK, Objects
  <2> QED
    BY <1>1, <2>1, <2>2, <2>3
<1>6. ScratchIsDisjoint'
  BY DEF ExportInv, ScratchIsDisjoint, Overlap, OpenFile
<1> QED
  BY <1>2, <1>3, <1>4, <1>5, <1>6 DEF ExportInv

LEMMA AllocateKeeps ==
  ASSUME ExportInv, NEW n \in Requests, Allocate(n)
  PROVE  ExportInv'
<1> DEFINE at == alignedOffset
           piece == [at |-> at, length |-> n]
<1>1. /\ at \in Nat /\ used <= at /\ at % Alignment = 0 /\ (at + n) % SizeRange = at + n
      /\ n \in Nat /\ Capacity \in Nat /\ used \in Nat
  BY AlignedOffset, ExportAssumption DEF ExportInv, TypeOK
<1> HIDE DEF at
<1>2. UNCHANGED <<count, pc, status, info, handle, cursor, remaining, depth, disk, opened,
                  answered, fed>>
  BY DEF Allocate
<1>3. CASE UNCHANGED <<used, live>> /\ failed' = TRUE
  <2>1. TypeOK'
    BY <1>2, <1>3 DEF ExportInv, TypeOK
  <2>2. Positions' /\ NothingLost'
    BY <1>2, <1>3, ExportAssumption
    DEF ExportInv, TypeOK, Positions, NothingLost, Working, HasFile, Allocate
  <2> QED
    BY <1>2, <1>3, <2>1, <2>2, UntouchedData DEF ExportInv, Untouched
<1>4. CASE /\ at + n <= Capacity /\ used' = at + n
           /\ live' = live \cup {piece} /\ failed' = failed
  <2>1. TypeOK'
    BY <1>1, <1>2, <1>4 DEF ExportInv, TypeOK
  <2>2. FileIsPrefix'
    BY <1>2 DEF ExportInv, FileIsPrefix
  <2>3. Positions' /\ NothingLost'
    BY <1>2, <1>4 DEF ExportInv, Positions, NothingLost, Working, HasFile
  <2>4. \A a \in live : /\ a.at \in Nat /\ a.length \in Nat
                        /\ a.at % Alignment = 0 /\ a.at + a.length <= used
    BY PiecesAreNumbers DEF ExportInv, ScratchIsDisjoint
  <2>5. ScratchIsDisjoint'
    <3>1. \A a \in live' : a.at % Alignment = 0 /\ a.at + a.length <= used'
      BY <1>1, <1>4, <2>4
    <3>2. ASSUME NEW a \in live', NEW b \in live', a # b
          PROVE  ~Overlap(a, b)
      <4>1. CASE a \in live /\ b \in live
        BY <4>1, <3>2 DEF ExportInv, ScratchIsDisjoint
      <4>2. CASE a \in live /\ b = piece
        BY <1>1, <2>4, <4>2 DEF Overlap
      <4>3. CASE a = piece /\ b \in live
        BY <1>1, <2>4, <4>3 DEF Overlap
      <4> QED
        BY <1>4, <3>2, <4>1, <4>2, <4>3
    <3>3. used' <= Capacity
      BY <1>4
    <3> QED
      BY <3>1, <3>2, <3>3 DEF ScratchIsDisjoint
  <2> QED
    BY <2>1, <2>2, <2>3, <2>5 DEF ExportInv
<1>5. CASE Exhausted(at + n)
  BY <1>1, <1>3, <1>5 DEF Allocate, at
<1>6. CASE ~Exhausted(at + n)
  <2>1. at + n <= Capacity
    BY <1>1, <1>6 DEF Exhausted
  <2>2. used' = at + n /\ live' = live \cup {piece} /\ failed' = failed
    BY <1>1, <1>6 DEF Allocate, at
  <2> QED
    BY <1>4, <2>1, <2>2
<1> QED
  BY <1>5, <1>6

LEMMA WriteChunkKeeps ==
  ASSUME ExportInv, NEW n \in 0 .. MaxBytes, WriteChunk(n)
  PROVE  ExportInv'
<1>1. /\ info \in Objects /\ count \in Nat /\ fed[info] \in Nat /\ MaxBytes \in Nat
      /\ fed'[info] = fed[info] + n /\ fed[info] + n <= MaxBytes
      /\ \A o \in Objects : o # info => fed'[o] = fed[o]
  BY ExportAssumption DEF WriteChunk, ExportInv, TypeOK, Positions, Working, Objects
<1>2. TypeOK'
  BY <1>1, ExportAssumption DEF ExportInv, TypeOK, Labels, WriteChunk, Goto
<1>3. FileIsPrefix' /\ ScratchIsDisjoint'
  BY DEF ExportInv, FileIsPrefix, ScratchIsDisjoint, Overlap, WriteChunk
<1>4. Positions'
  BY <1>1 DEF ExportInv, TypeOK, Positions, Working, WriteChunk, Goto
<1>5. NothingLost'
  BY <1>1, ExportAssumption
  DEF ExportInv, TypeOK, Positions, NothingLost, Working, HasFile, WriteChunk, Goto, Objects
<1> QED
  BY <1>2, <1>3, <1>4, <1>5 DEF ExportInv

LEMMA HostWritesKeeps ==
  ASSUME ExportInv, NEW unwritten \in 0 .. remaining + 1, HostWrites(unwritten)
  PROVE  ExportInv'
<1> DEFINE written == remaining - unwritten
<1>1. /\ info \in Objects /\ info <= count /\ count \in Nat /\ MaxBytes \in Nat
      /\ pc = "write" /\ handle # Invalid
      /\ cursor \in 0 .. MaxBytes /\ remaining \in 1 .. MaxBytes
      /\ cursor + remaining = fed[info] /\ fed[info] \in 0 .. MaxBytes
      /\ disk[info] = NumberedTo(cursor) /\ Len(disk[info]) = cursor
  BY ExportAssumption
  DEF HostWrites, ExportInv, TypeOK, FileIsPrefix, Positions, Working, Objects
<1>2. ScratchIsDisjoint'
  BY DEF ExportInv, ScratchIsDisjoint, Overlap, HostWrites
<1>3. CASE WriteFails(unwritten)
  <2>1. /\ UNCHANGED <<disk, fed, info, count, opened, status, used, live, depth>>
        /\ failed' = TRUE /\ handle' = Invalid /\ pc' = "gcov"
        /\ cursor' = 0 /\ remaining' = 0
    BY <1>3 DEF HostWrites, DropFile, Goto
  <2>2. TypeOK'
    BY <1>1, <2>1, ExportAssumption DEF ExportInv, TypeOK, Labels, HostWrites
  <2>3. FileIsPrefix' /\ Positions' /\ NothingLost'
    BY <1>1, <2>1 DEF ExportInv, FileIsPrefix, Positions, NothingLost, Working, HasFile
  <2> QED
    BY <1>2, <2>2, <2>3 DEF ExportInv
<1>4. CASE ~WriteFails(unwritten)
  <2>1. written \in Nat /\ written > 0 /\ unwritten \in Nat
    BY <1>1, <1>4 DEF WriteFails
  <2>2. /\ UNCHANGED <<fed, info, count, opened, status, used, live, depth, handle, failed>>
        /\ disk' = [disk EXCEPT ![info] = @ \o [i \in 1 .. written |-> cursor + i]]
        /\ remaining' = unwritten
        /\ cursor' = IF unwritten = 0 THEN 0 ELSE cursor + written
        /\ pc' = IF unwritten = 0 THEN "gcov" ELSE "write"
    BY <1>4 DEF HostWrites, Goto
  <2>3. /\ disk'[info] = NumberedTo(cursor + written)
        /\ \A o \in Objects : o # info => disk'[o] = disk[o]
    <3>1. NumberedTo(cursor) \o [i \in 1 .. written |-> cursor + i]
            = NumberedTo(cursor + written)
      <4>1. cursor \in Nat /\ written \in Nat
        BY <1>1, <2>1
      <4> HIDE DEF written
      <4> QED
        BY <4>1, PrefixGrows
    <3> HIDE DEF written
    <3> QED
      BY <1>1, <2>2, <3>1 DEF ExportInv, TypeOK
  <2>4. Len(disk'[info]) = cursor + written /\ cursor + written \in 0 .. MaxBytes
    <3>1. cursor + written \in Nat
      BY <1>1, <2>1
    <3> QED
      <4>1. Len(NumberedTo(cursor + written)) = cursor + written
        BY <3>1, PrefixLength
      <4>2. cursor + written <= MaxBytes
        BY <1>1, <2>1
      <4> QED
        BY <1>1, <2>3, <3>1, <4>1, <4>2
  <2>5. NumberedTo(cursor + written) \in Seq(1 .. MaxBytes)
    BY <1>1, <2>4 DEF NumberedTo
  <2>6. TypeOK'
    <3>1. disk' \in [Objects -> Seq(1 .. MaxBytes)]
      BY <1>1, <2>2, <2>3, <2>5 DEF ExportInv, TypeOK
    <3> QED
      BY <1>1, <2>1, <2>2, <2>4, <3>1 DEF ExportInv, TypeOK, Labels, HostWrites
  <2>7. FileIsPrefix'
    BY <2>3, <2>4 DEF ExportInv, FileIsPrefix
  <2>8. Positions'
    BY <1>1, <2>1, <2>2, <2>4 DEF ExportInv, Positions, Working
  <2>9. NothingLost'
    <3>1. \A o \in 1 .. info - 1 : o \in Objects /\ o # info
      BY <1>1, ExportAssumption DEF Objects
    <3> QED
      BY <1>1, <2>2, <2>3, <3>1 DEF ExportInv, NothingLost, HasFile
  <2> QED
    BY <1>2, <2>6, <2>7, <2>8, <2>9 DEF ExportInv
<1> QED
  BY <1>3, <1>4

LEMMA CloseFileKeeps ==
  ASSUME ExportInv, CloseFile
  PROVE  ExportInv'
<1>1. info \in Objects /\ info <= count /\ count \in Nat /\ info \in Nat
  BY ExportAssumption DEF CloseFile, ExportInv, TypeOK, Positions, Working, Objects
<1>2. TypeOK'
  <2>1. info' \in 1 .. MaxObjects + 1
    BY <1>1, ExportAssumption DEF ExportInv, TypeOK, CloseFile
  <2>2. failed' \in BOOLEAN
    BY DEF ExportInv, TypeOK, CloseFile
  <2>3. opened' \subseteq Handles
    BY DEF ExportInv, TypeOK, CloseFile
  <2> QED
    BY <2>1, <2>2, <2>3 DEF ExportInv, TypeOK, Labels, CloseFile, Goto
<1>3. Untouched
  BY DEF CloseFile, Untouched
<1>4. Positions'
  BY <1>1 DEF ExportInv, TypeOK, Positions, Working, CloseFile, Goto
<1>5. NothingLost'
  BY <1>1 DEF ExportInv, TypeOK, Positions, NothingLost, HasFile, CloseFile, Goto
<1> QED
  BY <1>2, <1>3, <1>4, <1>5, UntouchedData DEF ExportInv

LEMMA StepExport == ExportInv /\ [Next]_vars => ExportInv'
<1> SUFFICES ASSUME ExportInv, [Next]_vars PROVE ExportInv'
  OBVIOUS
<1>1. CASE TargetExit \/ NoObjects \/ DumpDone \/ Exit
  BY <1>1, ControlSteps
<1>2. CASE NextObject
  BY <1>2, NextObjectKeeps
<1>3. CASE OpenFile
  BY <1>3, OpenFileKeeps
<1>4. CASE Gcov
  BY <1>4, AllocateKeeps, WriteChunkKeeps, ControlSteps DEF Gcov
<1>5. CASE \E unwritten \in 0 .. remaining + 1 : HostWrites(unwritten)
  BY <1>5, HostWritesKeeps
<1>6. CASE CloseFile
  BY <1>6, CloseFileKeeps
<1>7. CASE Halted \/ UNCHANGED vars
  <2>1. UNCHANGED vars
    BY <1>7 DEF Halted
  <2>2. TypeOK' /\ FileIsPrefix' /\ ScratchIsDisjoint'
    BY <2>1 DEF vars, ExportInv, TypeOK, FileIsPrefix, ScratchIsDisjoint, Overlap
  <2>3. Positions' /\ NothingLost'
    BY <2>1 DEF vars, ExportInv, Positions, NothingLost, Working, HasFile
  <2> QED
    BY <2>2, <2>3 DEF ExportInv
<1> QED
  BY <1>1, <1>2, <1>3, <1>4, <1>5, <1>6, <1>7 DEF Next

----------------------------------------------------------------------------
(* Theorems *)

\* The inductive invariant holds of every export.
THEOREM ExportInvariance == Spec => []ExportInv
  BY InitExport, StepExport, PTL DEF Spec

\* Every variable keeps its type, for every size.
THEOREM ExportTypeCorrect == Spec => []TypeOK
<1>1. ExportInv => TypeOK
  BY DEF ExportInv
<1> QED
  BY <1>1, ExportInvariance, PTL

\* A file never has a hole, whichever write the host refused (runtime.cpp:67-77).
THEOREM FilesArePrefixes == Spec => []FileIsPrefix
<1>1. ExportInv => FileIsPrefix
  BY DEF ExportInv
<1> QED
  BY <1>1, ExportInvariance, PTL

\* Scratch memory is aligned, inside the buffer and disjoint (runtime.cpp:40-52).
THEOREM ScratchNeverOverlaps == Spec => []ScratchIsDisjoint
<1>1. ExportInv => ScratchIsDisjoint
  BY DEF ExportInv
<1> QED
  BY <1>1, ExportInvariance, PTL

\* A file that is left open is a failure on record (runtime.cpp:73-76, 91-94).
THEOREM LeaksAreRecorded == Spec => []LeakIsRecorded
<1>1. ExportInv => LeakIsRecorded
  BY DEF ExportInv, TypeOK, NothingLost, LeakIsRecorded
<1> QED
  BY <1>1, ExportInvariance, PTL

\* A program that exits with 0 has exported everything (runtime.cpp:113-121).
THEOREM StatusIsTruthful == Spec => []ZeroMeansExported
<1>1. ExportInv => ZeroMeansExported
  <2> SUFFICES ASSUME ExportInv, pc = "halted", status = 0
               PROVE  /\ count > 0 /\ opened = {}
                      /\ \A o \in 1 .. count : disk[o] = NumberedTo(fed[o])
    BY DEF ZeroMeansExported
  <2>1. ~failed
    BY DEF ExportInv, TypeOK, NothingLost
  <2>2. count > 0 /\ opened = {} /\ info = count + 1
    BY <2>1 DEF ExportInv, NothingLost, HasFile
  <2>3. ASSUME NEW o \in 1 .. count
        PROVE  disk[o] = NumberedTo(fed[o])
    <3>1. o \in Objects /\ o \in 1 .. info - 1
      BY <2>2, ExportAssumption DEF ExportInv, TypeOK, Objects
    <3> QED
      BY <2>1, <3>1 DEF ExportInv, FileIsPrefix, NothingLost
  <2> QED
    BY <2>2, <2>3
<1> QED
  BY <1>1, ExportInvariance, PTL
=============================================================================
