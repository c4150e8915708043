--------------------------- MODULE CoverageExport ---------------------------
(***************************************************************************)
(* The end of an instrumented target program: mmiocpp_target_exit of       *)
(* targets/qemu-cortex-r5/runtime.cpp, which writes one coverage file per  *)
(* object over semihosting (semihosting.hpp) and then reports a status.    *)
(* libgcov, which calls back for a file name, for scratch memory and with  *)
(* the data, and the semihosting host are outside: they may do whatever    *)
(* the runtime has a check for.                                            *)
(*                                                                         *)
(* A file is the sequence of the positions, in the object's data, of the   *)
(* bytes on the disk; a handle is named after the open call it came from.  *)
(***************************************************************************)
EXTENDS Integers, Sequences

CONSTANTS MaxObjects,   \* bound: entries of the gcov_info section
          MaxBytes,     \* bound: bytes of data of one object
          MaxAborts,    \* bound: calls of abort and fread
          Capacity,     \* kCoverageScratchCapacity
          Alignment,    \* alignof(std::uintptr_t)
          SizeRange,    \* std::size_t is computed modulo this
          Requests      \* lengths libgcov asks scratch memory for

ASSUME ExportAssumption ==
  /\ MaxObjects \in Nat /\ MaxBytes \in Nat /\ MaxAborts \in Nat
  /\ Alignment \in Nat \ {0} /\ Capacity \in Nat /\ SizeRange \in Nat
  /\ Requests \subseteq Nat
  /\ \A n \in Requests : Capacity + Alignment + n < SizeRange

Invalid == <<>>         \* kInvalidHandle

VARIABLES count,        \* entries of the gcov_info section
          pc,           \* where the program is
          status,       \* the argument of mmiocpp_target_exit, then what exit reports
          info,         \* the entry dump_coverage works on
          handle,       \* CoverageFileContext::handle
          used,         \* g_coverageScratchUsed
          failed,       \* g_coverageWriteFailed
          cursor, remaining,    \* the write loop of semihosting::write
          depth,        \* nested calls of mmiocpp_target_exit
          disk,         \* the host's files
          opened,       \* the handles the host holds open
          answered,     \* history: changes with each answer of the host in a write loop, so
                        \* that an answer without progress is a step as well
          fed,          \* history: bytes libgcov handed over, per object
          live          \* history: scratch memory given to libgcov for this object

vars == <<count, pc, status, info, handle, used, failed, cursor, remaining, depth, disk,
          opened, answered, fed, live>>

Objects == 1 .. MaxObjects
NumberedTo(n) == [i \in 1 .. n |-> i]
Labels == {"run", "dump", "open", "gcov", "write", "close", "exit", "halted"}

Init ==
  /\ count \in 0 .. MaxObjects
  /\ pc = "run" /\ status = 0 /\ info = 1 /\ depth = 0
  /\ handle = Invalid /\ used = 0 /\ failed = FALSE
  /\ cursor = 0 /\ remaining = 0 /\ answered = FALSE
  /\ disk = [o \in Objects |-> <<>>] /\ opened = {}
  /\ fed = [o \in Objects |-> 0] /\ live = {}

Goto(label) == pc' = label

\* mmiocpp_target_exit(code): dump_coverage starts over, whatever was in progress
EnterExit(code) == /\ status' = code /\ info' = 1
                   /\ Goto("dump")

\* The program ends, with 0 or with the number of a failure
TargetExit == /\ pc = "run"
              /\ \E code \in {0, 1} : EnterExit(code)
              /\ UNCHANGED <<count, handle, used, failed, cursor, remaining, depth, disk,
                             opened, answered, fed, live>>

\* dump_coverage: the section is empty
NoObjects == /\ pc = "dump" /\ count = 0
             /\ failed' = TRUE
             /\ Goto("exit")
             /\ UNCHANGED <<count, status, info, handle, used, cursor, remaining, depth, disk,
                            opened, answered, fed, live>>

\* The loop of dump_coverage: a fresh context and an empty scratch buffer per object
NextObject == /\ pc = "dump" /\ info \in 1 .. count
              /\ handle' = Invalid /\ used' = 0 /\ live' = {}
              /\ fed' = [fed EXCEPT ![info] = 0]
              /\ Goto("open")
              /\ UNCHANGED <<count, status, info, failed, cursor, remaining, depth, disk,
                             opened, answered>>

\* coverage_open_file: libgcov has no file name, the host refuses, or the file is open
\* and empty
OpenFile ==
  /\ pc = "open"
  /\ \/ /\ failed' = TRUE
        /\ UNCHANGED <<handle, opened, disk>>
     \/ /\ handle' = <<info, depth>>
        /\ opened' = opened \cup {<<info, depth>>}
        /\ disk' = [disk EXCEPT ![info] = <<>>]
        /\ UNCHANGED failed
  /\ Goto("gcov")
  /\ UNCHANGED <<count, status, info, used, cursor, remaining, depth, answered, fed, live>>

----------------------------------------------------------------------------
(* What libgcov calls *)

\* coverage_allocate: the next aligned part of the scratch buffer, or null; the mask of
\* the code rounds down, as the alignment is a power of two
alignedOffset_Raw == used
alignedOffset == (((used + Alignment - 1) % SizeRange) \div Alignment) * Alignment

Exhausted_OffByOne(end) == end > Capacity + 1
Exhausted(end) == end > Capacity

Allocate(length) ==
  LET end == (alignedOffset + length) % SizeRange
  IN  /\ pc = "gcov"
      /\ IF Exhausted(end)
           THEN /\ failed' = TRUE
                /\ UNCHANGED <<used, live>>
           ELSE /\ used' = end
                /\ live' = live \cup {[at |-> alignedOffset, length |-> length]}
                /\ UNCHANGED failed
      /\ UNCHANGED <<count, pc, status, info, handle, cursor, remaining, depth, disk, opened,
                     answered, fed>>

\* coverage_write_chunk: dropped without a handle, else the write loop is entered
WriteChunk(length) ==
  /\ pc = "gcov" /\ fed[info] + length <= MaxBytes
  /\ fed' = [fed EXCEPT ![info] = @ + length]
  /\ IF handle = Invalid \/ length = 0
       THEN UNCHANGED <<pc, cursor, remaining>>
       ELSE /\ cursor' = fed[info] /\ remaining' = length
            /\ Goto("write")
  /\ UNCHANGED <<count, status, info, handle, used, failed, depth, disk, opened, answered, live>>

\* abort and fread, called by libgcov or, before that, by the program: the export
\* failed, and the program exits (once more)
Abort == /\ pc \in {"run", "gcov"} /\ depth < MaxAborts
         /\ failed' = TRUE
         /\ depth' = depth + 1
         /\ EnterExit(3)
         /\ UNCHANGED <<count, handle, used, cursor, remaining, disk, opened, answered, fed, live>>

ObjectDone == /\ pc = "gcov"
              /\ Goto("close")
              /\ UNCHANGED <<count, status, info, handle, used, failed, cursor, remaining,
                             depth, disk, opened, answered, fed, live>>

----------------------------------------------------------------------------
(* Semihosting *)

\* One turn of the loop of semihosting::write: the host answers with the number of
\* bytes it did not write; an answer greater than what was asked for is an error, and so
\* is no progress.
WriteFails_OnErrorOnly(unwritten) == unwritten > remaining
WriteFails(unwritten) == unwritten > remaining \/ remaining - unwritten = 0

\* What coverage_write_chunk does when write returns false
DropFile_KeepHandle == failed' = TRUE /\ UNCHANGED handle
DropFile_Silently   == handle' = Invalid /\ UNCHANGED failed
DropFile            == failed' = TRUE /\ handle' = Invalid

HostWrites(unwritten) ==
  LET written == remaining - unwritten
  IN  /\ pc = "write"
      /\ IF WriteFails(unwritten)
           THEN /\ DropFile
                /\ cursor' = 0 /\ remaining' = 0
                /\ Goto("gcov")
                /\ UNCHANGED disk
           ELSE /\ disk' = [disk EXCEPT ![info] = @ \o [i \in 1 .. written |-> cursor + i]]
                /\ remaining' = unwritten
                /\ cursor' = IF unwritten = 0 THEN 0 ELSE cursor + written
                /\ Goto(IF unwritten = 0 THEN "gcov" ELSE "write")
                /\ UNCHANGED <<handle, failed>>
      /\ answered' = (pc' = "write" /\ ~answered)
      /\ UNCHANGED <<count, status, info, used, depth, opened, fed, live>>

\* The end of an object in dump_coverage: a file that is still open is closed; the host
\* may refuse.
CloseFile_Skipped ==
  /\ pc = "close"
  /\ info' = info + 1 /\ Goto("dump")
  /\ UNCHANGED <<count, status, handle, used, failed, cursor, remaining, depth, disk, opened,
                 answered, fed, live>>

CloseFile ==
  /\ pc = "close"
  /\ \/ /\ handle = Invalid
        /\ UNCHANGED <<opened, failed>>
     \/ /\ handle # Invalid
        /\ opened' = opened \ {handle}
        /\ UNCHANGED failed
     \/ /\ handle # Invalid
        /\ failed' = TRUE
        /\ UNCHANGED opened
  /\ info' = info + 1 /\ Goto("dump")
  /\ UNCHANGED <<count, status, handle, used, cursor, remaining, depth, answered, disk, fed, live>>

\* dump_coverage returns
DumpDone == /\ pc = "dump" /\ count > 0 /\ info > count
            /\ Goto("exit")
            /\ UNCHANGED <<count, status, info, handle, used, failed, cursor, remaining, depth,
                           disk, opened, answered, fed, live>>

\* The rest of mmiocpp_target_exit: a failed export turns success into 2
Exit == /\ pc = "exit"
        /\ status' = IF status = 0 /\ failed THEN 2 ELSE status
        /\ Goto("halted")
        /\ UNCHANGED <<count, info, handle, used, failed, cursor, remaining, depth, disk, opened,
                       answered, fed, live>>

\* semihosting::exit does not return
Halted == pc = "halted" /\ UNCHANGED vars

Gcov == \/ \E n \in Requests : Allocate(n)
        \/ \E n \in 0 .. MaxBytes : WriteChunk(n)
        \/ Abort \/ ObjectDone

Next == \/ TargetExit \/ NoObjects \/ NextObject \/ OpenFile
        \/ Gcov
        \/ \E unwritten \in 0 .. remaining + 1 : HostWrites(unwritten)
        \/ CloseFile \/ DumpDone \/ Exit \/ Halted

Spec == Init /\ [][Next]_vars

\* Code that was entered goes on, the host answers every call, and libgcov comes to the
\* end of an object.
FairSpec == /\ Spec
            /\ WF_vars(NoObjects \/ NextObject \/ OpenFile \/ CloseFile \/ DumpDone \/ Exit)
            /\ WF_vars(\E unwritten \in 0 .. remaining + 1 : HostWrites(unwritten))
            /\ SF_vars(ObjectDone)

----------------------------------------------------------------------------
(* Properties *)

Handles == Objects \X (0 .. MaxAborts)

\* Every variable keeps its type.
TypeOK ==
  /\ count \in 0 .. MaxObjects /\ pc \in Labels /\ status \in 0 .. 3
  /\ info \in 1 .. MaxObjects + 1
  /\ handle \in Handles \cup {Invalid}
  /\ used \in 0 .. Capacity /\ failed \in BOOLEAN
  /\ cursor \in 0 .. MaxBytes /\ remaining \in 0 .. MaxBytes
  /\ depth \in 0 .. MaxAborts
  /\ disk \in [Objects -> Seq(1 .. MaxBytes)]
  /\ opened \subseteq Handles /\ answered \in BOOLEAN
  /\ fed \in [Objects -> 0 .. MaxBytes]
  /\ live \subseteq [at : 0 .. Capacity, length : Requests]

\* Status 0 is only reported when there was something to export and every byte of every
\* object is on the disk, in order, in a file that was closed (runtime.cpp:113-121).
ZeroMeansExported ==
  pc = "halted" /\ status = 0 =>
    /\ count > 0 /\ opened = {}
    /\ \A o \in 1 .. count : disk[o] = NumberedTo(fed[o])

\* A file holds a prefix of its object's data at all times: after a failed or a partial
\* write nothing is appended behind the hole (runtime.cpp:67-77, semihosting.hpp:57-81).
FileIsPrefix == \A o \in Objects : disk[o] = NumberedTo(Len(disk[o]))

\* A handle that is still open and no longer in use belongs to a file whose failure was
\* recorded (runtime.cpp:73-76, 91-94).
LeakIsRecorded == opened \ {handle} # {} => failed

\* The scratch memory libgcov holds is aligned, inside the buffer, and no two pieces
\* overlap (runtime.cpp:40-52).
Overlap(a, b) == a.at < b.at + b.length /\ b.at < a.at + a.length
ScratchIsDisjoint ==
  /\ \A a \in live : a.at % Alignment = 0 /\ a.at + a.length <= used
  /\ \A a, b \in live : a # b => ~Overlap(a, b)
  /\ used <= Capacity

\* The program exits, whatever the host answers, unless libgcov aborts more than MaxAborts
\* times (semihosting.hpp:64-78: a write loop without progress is given up).
DumpEnds == (pc = "dump") ~> (pc = "halted")

----------------------------------------------------------------------------
(* The inductive invariant of the proofs in CoverageExportProofs *)

\* Where the entry and its file stand.  libgcov works on an entry of the section; while
\* there is a handle the file holds all the data handed over, but for the rest of the
\* chunk that is being written.
Working == {"open", "gcov", "write", "close"}
HasFile == pc \in {"gcov", "write", "close"}

Positions ==
  /\ info <= count + 1
  /\ pc \in Working => info <= count
  /\ pc = "open" => handle = Invalid /\ fed[info] = 0
  /\ pc \in {"gcov", "close"} /\ handle # Invalid => Len(disk[info]) = fed[info]
  /\ pc = "write" => /\ handle # Invalid /\ remaining > 0
                     /\ Len(disk[info]) = cursor /\ cursor + remaining = fed[info]

\* As long as no failure is recorded no file is missing, short or left open.
NothingLost ==
  /\ ~failed =>
       /\ HasFile => handle # Invalid
       /\ opened \subseteq IF HasFile THEN {handle} ELSE {}
       /\ \A o \in 1 .. info - 1 : Len(disk[o]) = fed[o]
       /\ pc \in {"exit", "halted"} => count > 0 /\ info = count + 1
  /\ pc = "halted" /\ failed => status # 0

ExportInv == TypeOK /\ FileIsPrefix /\ Positions /\ NothingLost /\ ScratchIsDisjoint
=============================================================================
