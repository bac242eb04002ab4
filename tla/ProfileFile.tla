----------------------------- MODULE ProfileFile -----------------------------
(***************************************************************************)
(* The native profile: what write_header(), write_stack_trace() and        *)
(* write_trailer() of src/profiler.cpp write, word by word, and what the   *)
(* pprof tool (external) reads from it.  A word is a number; the stack     *)
(* array of write_stack_trace() starts with cells nothing has written,     *)
(* and the stream silently drops what it is given once it has failed.      *)
(***************************************************************************)
EXTENDS Integers, Sequences

CONSTANTS KMaxStackDepth,  \* kMaxStackDepth
          Addresses,       \* program counters
          MaxRecords,      \* bound on the calls of write_stack_trace()
          DiskMayFill      \* whether a write may fail

ASSUME ProfileFileAssumption ==
  /\ KMaxStackDepth \in Nat \ {0}
  /\ Addresses \subseteq Nat
  /\ MaxRecords \in Nat
  /\ DiskMayFill \in BOOLEAN

VARIABLES file,     \* the words in the file
          failed,   \* the stream's badbit
          stage,    \* "open" until the header is written, then "sampling",
                    \* then "closed"
          traces    \* the samples taken: pc and unwound frames of each

vars == <<file, failed, stage, traces>>

Garbage == -1   \* a cell of the array that nothing has written
Text == -2      \* the lines of /proc/self/maps after the trailer
Words == Nat \cup {Text}

\* Up to KMaxStackDepth - 1 return addresses, as the unwinder finds them.
Unwound == UNION {[1 .. d -> Addresses] : d \in 0 .. KMaxStackDepth - 1}

Header == <<0, 3, 0, 20000, 0>>
Trailer == <<0, 1, 0>>

Init == file = << >> /\ failed = FALSE /\ stage = "open" /\ traces = << >>

\* ofs.write(): all of the words, or only some of them if the disk fills up;
\* once the stream has failed, none.
Put(words) ==
  IF failed
    THEN UNCHANGED <<file, failed>>
    ELSE \/ file' = file \o words /\ UNCHANGED failed
         \/ /\ DiskMayFill
            /\ failed' = TRUE
            /\ \E n \in 0 .. Len(words) - 1 :
                 file' = file \o SubSeq(words, 1, n)

WriteHeader ==
  /\ stage = "open"
  /\ stage' = "sampling"
  /\ Put(Header)
  /\ UNCHANGED traces

-----------------------------------------------------------------------------
(* write_stack_trace()                                                     *)

Cells == 0 .. KMaxStackDepth + 1

\* stack[2] is the pc and the unwound frames follow.
Loaded(pc, frames) ==
  [c \in Cells |-> IF c = 2 THEN pc
                   ELSE IF c - 2 \in 1 .. Len(frames) THEN frames[c - 2]
                   ELSE Garbage]

\* The test of stack[1] == stack[0] compares two cells that nothing has written
\* yet, so it may come out either way.
Duplicate(frames, same) == Len(frames) > 0 /\ same
\* Mutant: the record still begins where the pc is.
StartUnmoved(frames, same) == 2
Start(frames, same) == IF Duplicate(frames, same) THEN 3 ELSE 2

\* Mutant: the pc is counted although it is skipped.
DepthUncorrected(frames, same) == Len(frames) + 1
Depth(frames, same) ==
  IF Duplicate(frames, same) THEN Len(frames) ELSE Len(frames) + 1

\* Mutant: the value word is left at zero.
RecordOfNothing(pc, frames, same) ==
  LET start == Start(frames, same)
      depth == Depth(frames, same)
      stack == [Loaded(pc, frames) EXCEPT ![start - 2] = 0,
                                          ![start - 1] = depth]
  IN  [w \in 1 .. depth + 2 |-> stack[start - 3 + w]]

Record(pc, frames, same) ==
  LET start == Start(frames, same)
      depth == Depth(frames, same)
      stack == [Loaded(pc, frames) EXCEPT ![start - 2] = 1,
                                          ![start - 1] = depth]
  IN  [w \in 1 .. depth + 2 |-> stack[start - 3 + w]]

WriteStackTrace(pc, frames, same) ==
  /\ stage = "sampling"
  /\ Len(traces) < MaxRecords
  /\ Put(Record(pc, frames, same))
  /\ traces' = Append(traces, [pc |-> pc, frames |-> frames])
  /\ UNCHANGED stage

\* Impl::start() writes the header before it installs the handler and
\* Impl::stop() writes the trailer after it has removed it.
WriteTrailer ==
  /\ stage = "sampling"
  /\ stage' = "closed"
  /\ Put(Trailer \o <<Text>>)
  /\ UNCHANGED traces

Next ==
  \/ WriteHeader
  \/ \E pc \in Addresses, frames \in Unwound, same \in BOOLEAN :
       WriteStackTrace(pc, frames, same)
  \/ WriteTrailer

Spec == Init /\ [][Next]_vars

-----------------------------------------------------------------------------
(* The reader in pprof, external: a count, a depth and as many addresses,  *)
(* until the trailer or the end of the file.                               *)

HasRecord(i) ==
  /\ i + 1 <= Len(file)
  /\ file[i + 1] \in Nat
  /\ i + 1 + file[i + 1] <= Len(file)
IsTrailer(i) == file[i] = 0 /\ file[i + 1] = 1 /\ file[i + 2] = 0
AtRecord(i) == HasRecord(i) /\ ~IsTrailer(i)

\* Where the reader is after k records; it stays where it finds no other.
position[k \in 0 .. Len(file)] ==
  IF k = 0 THEN Len(Header) + 1
  ELSE LET i == position[k - 1]
       IN  IF AtRecord(i) THEN i + 2 + file[i + 1] ELSE i

RecordsRead ==
  CHOOSE n \in 0 .. Len(file) :
    /\ ~AtRecord(position[n])
    /\ \A k \in 0 .. n - 1 : AtRecord(position[k])

SamplesRead ==
  [s \in 1 .. RecordsRead |->
     LET i == position[s - 1] IN SubSeq(file, i + 2, i + 1 + file[i + 1])]

-----------------------------------------------------------------------------
(* Properties.                                                             *)

\* In particular no cell of the array is written to the file before it has
\* been given a value, however deep the stack is.
TypeOK ==
  /\ file \in Seq(Words)
  /\ failed \in BOOLEAN
  /\ stage \in {"open", "sampling", "closed"}
  /\ traces \in Seq([pc : Addresses, frames : Unwound])

\* The reader stays in step with the writer: what it takes for the s-th sample
\* is the s-th trace, complete but perhaps for the pc, wherever a full disk has
\* cut the file off.
NothingInvented ==
  /\ Len(SamplesRead) <= Len(traces)
  /\ \A s \in 1 .. Len(SamplesRead) :
       SamplesRead[s] \in {traces[s].frames, <<traces[s].pc>> \o traces[s].frames}

\* Every trace is read back, the ones that look like a trailer included, and
\* none of them without a frame.
NothingLost ==
  ~failed =>
    /\ Len(SamplesRead) = Len(traces)
    /\ \A s \in 1 .. Len(SamplesRead) : SamplesRead[s] # << >>

\* "in case of non-frame-pointer-based unwinding we will get duplicate of PC in
\* stack[1], which we don't want", src/profiler.cpp:176: the pc is the first
\* address of the sample, and it is dropped exactly if the unwinder found it too.
PcOnce ==
  \A s \in 1 .. Len(SamplesRead) :
    SamplesRead[s] =
      IF Len(traces[s].frames) > 0 /\ traces[s].frames[1] = traces[s].pc
        THEN traces[s].frames
        ELSE <<traces[s].pc>> \o traces[s].frames
=============================================================================
