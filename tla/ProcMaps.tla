------------------------------ MODULE ProcMaps ------------------------------
(***************************************************************************)
(* ProcMapsIterator of src/sysinfo.cpp, as write_trailer() of              *)
(* src/profiler.cpp drives it: the lines of /proc/self/maps are found in a *)
(* buffer of fixed size that is shifted and refilled, parsed, and written  *)
(* in their canonical form behind the trailer of the native profile.       *)
(***************************************************************************)
EXTENDS MapsLine

CONSTANTS KBufSize,      \* ProcMapsIterator::Buffer::kBufSize
          MapsFiles,     \* the files the kernel may present: sequences of
                         \* mappings
          ReadMayFail    \* whether open() or read() may fail

NUL == "nul"
Garbage == "?"   \* a cell of the buffer that nothing has written
Contents == Chars \cup {NUL, Garbage}
Path == <<"n", "n">>   \* the name of the maps file

\* The characters of a file.
MapsText(file) ==
  LET upto[i \in 0 .. Len(file)] ==
        IF i = 0 THEN << >>
        ELSE upto[i - 1] \o KernelLine(file[i]) \o <<NL>>
  IN  upto[Len(file)]

ASSUME ProcMapsAssumption ==
  /\ KBufSize \in Nat \ {0}
  /\ MapsFiles \subseteq Seq(Mapping)
  /\ ReadMayFail \in BOOLEAN

VARIABLES mappings,  \* what the file is about
          maps,      \* the contents of /proc/self/maps
          offset,    \* how much of it has been read
          buf,       \* ibuf_, indexed from 0
          stext,     \* stext_, etext_ and nextline_ as indices of the buffer
          etext,
          nextline,
          emitted,   \* the lines written to the profile
          failed,    \* a read has failed
          done       \* Next() has returned false

fileVars == <<mappings, maps, offset>>
bufVars == <<buf, stext, etext, nextline>>
vars == <<fileVars, bufVars, emitted, failed, done>>

EBuf == KBufSize - 1   \* ebuf_
Cells == 0 .. EBuf

\* snprintf() of the path.
ConstructFilename(b, size) ==
  LET end == IF Len(Path) < size THEN Len(Path) ELSE size - 1
  IN  [c \in Cells |-> IF c < end THEN Path[c + 1]
                       ELSE IF c = end THEN NUL
                       ELSE b[c]]

\* The constructor uses the buffer for the path and leaves it there; fd_ is -1
\* when open() fails, which the first read reports.
Init ==
  /\ mappings \in MapsFiles
  /\ maps = MapsText(mappings)
  /\ offset = 0
  /\ buf = ConstructFilename([c \in Cells |-> Garbage], KBufSize)
  /\ stext = 0 /\ etext = 0 /\ nextline = 0
  /\ emitted = << >>
  /\ failed = FALSE
  /\ done = FALSE

-----------------------------------------------------------------------------
(* One turn of the loop of NextExt().                                      *)

\* memchr(from, '\n', to - from); -1 is its NULL.
FindNewline(b, from, to) ==
  LET at == {c \in from .. to - 1 : b[c] = NL}
  IN  IF at = {} THEN -1 ELSE CHOOSE c \in at : \A d \in at : c <= d

\* Mutant: the memmove() is forgotten.
RefilledUnmoved(start, count, r) ==
  LET end == count + r.n
  IN  [c \in Cells |-> IF c < count THEN buf[c]
                       ELSE IF c < end THEN maps[offset + c - count + 1]
                       ELSE IF c = end THEN NL
                       ELSE buf[c]]

\* memmove() of the current text to the start of the buffer, read() until the
\* buffer is full or there is nothing more to read, the zeroing of the rest at
\* the end of the file, and the sentinel.
Refilled(start, count, r) ==
  LET end == count + r.n
      eof == ~r.fails /\ end < EBuf
  IN  [c \in Cells |->
         IF c < count THEN buf[start + c]
         ELSE IF c < end THEN maps[offset + c - count + 1]
         ELSE IF c = end THEN NL
         ELSE IF eof /\ c < EBuf THEN NUL
         ELSE buf[c]]

Unread == Len(maps) - offset
Least(a, b) == IF a < b THEN a ELSE b

\* How much the reads of one refill bring in altogether: what there is room
\* for, or less if one of them fails.  As a bound, only the first refill that
\* fails brings something in.
Reads(count) ==
  LET room == EBuf - count
      most == IF failed THEN 0 ELSE Least(room - 1, Unread)
  IN  {[n |-> Least(room, Unread), fails |-> FALSE]} \cup
      {[n |-> n, fails |-> TRUE] : n \in IF ReadMayFail THEN 0 .. most ELSE {}}

\* Mutant: the pointer is advanced past the end of the text.
TerminateAndSkip(b, nl, start, end) ==
  /\ buf' = [b EXCEPT ![nl] = NUL]
  /\ stext' = start
  /\ etext' = end
  /\ nextline' = nl + 1

\* Turns the newline at nl into a NUL.
Terminate(b, nl, start, end) ==
  /\ buf' = [b EXCEPT ![nl] = NUL]
  /\ stext' = start
  /\ etext' = end
  /\ nextline' = IF nl < end THEN nl + 1 ELSE nl

TakeBufferedLine ==
  LET nl == FindNewline(buf, nextline, etext)
  IN  /\ nl # -1
      /\ Terminate(buf, nl, nextline, etext)
      /\ UNCHANGED <<offset, failed>>

\* Mutant: the buffer is taken to have been filled.
RefillAssumedFull ==
  LET count == etext - nextline
  IN  /\ FindNewline(buf, nextline, etext) = -1
      /\ \E r \in Reads(count) :
           LET b == Refilled(nextline, count, r)
               end == count + r.n
           IN  /\ Terminate(b, FindNewline(b, 0, end + 1), 0, end)
               /\ offset' = offset + EBuf - count
               /\ failed' = (failed \/ r.fails)

Refill ==
  LET count == etext - nextline
  IN  /\ FindNewline(buf, nextline, etext) = -1
      /\ \E r \in Reads(count) :
           LET b == Refilled(nextline, count, r)
               end == count + r.n
           IN  /\ Terminate(b, FindNewline(b, 0, end + 1), 0, end)
               /\ offset' = offset + r.n
               /\ failed' = (failed \/ r.fails)

\* The string at stext_.
Line(b, start) ==
  LET stop == CHOOSE c \in start .. EBuf :
                b[c] = NUL /\ \A d \in start .. c - 1 : b[d] # NUL
  IN  SubSeq([i \in 1 .. KBufSize |-> b[i - 1]], start + 1, stop)

\* Mutant: the loop goes on after a read that failed.
TurnRetrying ==
  /\ ~done
  /\ UNCHANGED <<mappings, maps>>
  /\ TakeBufferedLine \/ Refill
  /\ \E line \in {Line(buf', stext')} :
       IF ParseProcMapsLine(line)
         THEN /\ emitted' = emitted \o FormatLine(Parsed(line), KBufSize)
              /\ UNCHANGED done
         ELSE done' = (etext' = 0 /\ ~failed') /\ UNCHANGED emitted

\* The turn ends with an entry, which write_trailer() writes before it calls
\* Next() again; or it ends the loop; or it goes on.
Turn ==
  /\ ~done
  /\ UNCHANGED <<mappings, maps>>
  /\ TakeBufferedLine \/ Refill
  /\ \E line \in {Line(buf', stext')} :
       IF ParseProcMapsLine(line)
         THEN /\ emitted' = emitted \o FormatLine(Parsed(line), KBufSize)
              /\ UNCHANGED done
         ELSE done' = (etext' = 0) /\ UNCHANGED emitted

\* The process maps and unmaps memory while the file is read, external.  The
\* kernel hands out lines as a whole: those that have begun to be read stay.
Begun == CHOOSE n \in 0 .. Len(mappings) :
           /\ offset <= Len(MapsText(SubSeq(mappings, 1, n)))
           /\ n > 0 => offset > Len(MapsText(SubSeq(mappings, 1, n - 1)))
Remap ==
  /\ ~done
  /\ LET begun == SubSeq(mappings, 1, Begun)
     IN  \E file \in MapsFiles :
           /\ file # mappings
           /\ Len(begun) <= Len(file)
           /\ begun = SubSeq(file, 1, Len(begun))
           /\ mappings' = file
           /\ maps' = MapsText(file)
           /\ offset <= Len(maps')
  /\ UNCHANGED <<offset, bufVars, emitted, failed, done>>

Next == Turn \/ Remap

\* write_trailer() runs to its end inside Impl::stop().
Spec == Init /\ [][Next]_vars /\ WF_vars(Turn)
-----------------------------------------------------------------------------
(* Properties.                                                             *)

TypeOK ==
  /\ mappings \in MapsFiles
  /\ maps \in Seq(Chars)
  /\ offset \in 0 .. Len(maps)
  /\ buf \in [Cells -> Contents]
  /\ {stext, etext, nextline} \subseteq Cells
  /\ emitted \in Seq(Seq(Chars))
  /\ failed \in BOOLEAN
  /\ done \in BOOLEAN

\* The pointers stay in order and the string that NextExt() parses ends inside
\* the buffer ("sentinel; safe because ibuf extends 1 char beyond ebuf").
PointersOrdered ==
  /\ stext <= nextline
  /\ nextline <= etext
  /\ \E c \in stext .. EBuf : buf[c] = NUL

Index(s) == 1 .. Len(s)

\* What may be written of a mapping whose line did not get into the buffer as a
\* whole: its name has been cut short, or its first address has been lost.
Damaged(line, e) ==
  LET lost == Len(Canonical(e)) - Len(line)
  IN  /\ lost \in 0 .. Len(e.filename)
      /\ \E s \in {e.start, <<"0">>} :
           line = Canonical([e EXCEPT !.start = s,
                    !.filename = SubSeq(@, 1, Len(@) - lost)])
LineTooLong(e) == Len(KernelLine(e)) > EBuf

\* Which mapping each line that was written is of.
Origins(from) ==
  \A i \in Index(emitted) :
    LET e == mappings[from[i]]
    IN  /\ \A j \in 1 .. i - 1 : from[j] < from[i]
        /\ \/ emitted[i] = Canonical(e)
           \/ (failed \/ LineTooLong(e)) /\ Damaged(emitted[i], e)

\* Wherever the refills fall and the reads fail, what is written are the
\* canonical lines of mappings in their order: none twice, none joined from two,
\* none made out of the tail of a line.  Only a line that is longer than the
\* buffer, or a read that failed, can have damaged one.
EntriesInOrder == \E from \in [Index(emitted) -> Index(mappings)] : Origins(from)

\* The line fits into both buffers and has the blank that the parser wants.
Listable(e) ==
  ~LineTooLong(e) /\ Len(Canonical(e)) + 1 < KBufSize /\ e.blanks > 0

\* When Next() has returned false and no read has failed, every mapping that can
\* be listed is: unchanged, and in its place among the others.
TrailerComplete ==
  done /\ ~failed =>
    \E from \in [Index(emitted) -> Index(mappings)] :
      /\ Origins(from)
      /\ \A j \in Index(mappings) :
           Listable(mappings[j]) =>
             \E i \in Index(emitted) :
               from[i] = j /\ emitted[i] = Canonical(mappings[j])

\* Next() returns false in the end, whatever the file holds and whatever fails:
\* a line that cannot be parsed and a buffer that cannot be filled do not keep
\* Impl::stop() in the loop.
LoopEnds == <>done
=============================================================================
