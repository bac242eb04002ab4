------------------------------ MODULE MapsLine ------------------------------
(***************************************************************************)
(* A line of /proc/self/maps: how the kernel writes it (external), how     *)
(* ParseProcMapsLine() of src/sysinfo.cpp takes it apart, and the          *)
(* canonical form that FormatLine() gives it.  A number or the permissions *)
(* of a page is a single character here, since both sides print them with  *)
(* the same minimal width; blanks and names are as long as they are.       *)
(***************************************************************************)
EXTENDS Integers, Sequences

CONSTANT InodeWidth    \* to which the canonical form pads the inode

ASSUME MapsLineAssumption == InodeWidth \in Nat \ {0}

Digits(base) == {"0", "1", "2", "3"} \cup IF base = 16 THEN {"f"} ELSE {}
NL == "newline"
Blank == "blank"
Chars == Digits(16) \cup {"-", Blank, ":", "r-xp", "n", NL}

Blanks(n) == [i \in 1 .. n |-> Blank]
Number(base) == {<<d>> : d \in Digits(base)}

\* The line of a mapping.  How many blanks the kernel puts between the inode and
\* the name depends on its version; there may be none if there is no name.
KernelLine(e) ==
  e.start \o <<"-">> \o e.end \o <<Blank>> \o e.flags \o <<Blank>> \o e.offset
  \o <<Blank>> \o e.major \o <<":">> \o e.minor \o <<Blank>> \o e.inode
  \o Blanks(e.blanks) \o e.filename

-----------------------------------------------------------------------------
(* ParseProcMapsLine()                                                     *)

\* ExtractUntilChar(); 0 is its NULL.
ExtractUntilChar(text, from, c) ==
  LET at == {i \in from .. Len(text) : text[i] = c}
  IN  IF at = {} THEN 0 ELSE CHOOSE i \in at : \A j \in at : i <= j

\* SkipWhileWhitespace() stops at the last of several blanks.
SkipWhileWhitespace(text, at, c) ==
  IF c # Blank THEN at
  ELSE CHOOSE i \in at .. Len(text) :
         /\ \A j \in at .. i : text[j] = Blank
         /\ i = Len(text) \/ text[i + 1] # Blank

\* Whether strtol() reads the field to its end; an empty one it takes for zero.
\* Its leading blanks and signs do not occur.
Converts(token, base) ==
  base = 0 \/ \A i \in DOMAIN token : token[i] \in Digits(base)

\* Where the next field begins, for each place where one that is ended by sep
\* may begin; 0 if it is not as expected or there was none before it.
After(text, base, sep) ==
  [from \in 0 .. Len(text) + 1 |->
     LET end == ExtractUntilChar(text, from, sep)
     IN  IF from = 0 \/ end = 0 THEN 0
         ELSE IF ~Converts(SubSeq(text, from, end - 1), base) THEN 0
         ELSE SkipWhileWhitespace(text, end, sep) + 1]

\* Where each field begins.
FieldStarts(text) ==
  LET end == After(text, 16, "-")[1]
      flags == After(text, 16, Blank)[end]
      offset == After(text, 0, Blank)[flags]
      major == After(text, 16, Blank)[offset]
      minor == After(text, 16, ":")[major]
      inode == After(text, 16, Blank)[minor]
  IN  [start |-> 1, end |-> end, flags |-> flags, offset |-> offset,
       inode |-> inode, filename |-> After(text, 10, Blank)[inode]]

ParseProcMapsLine(text) == text # << >> /\ FieldStarts(text).filename # 0

\* What the caller finds in its variables.
Parsed(text) ==
  LET starts == FieldStarts(text)
      token(from, sep) ==
        SubSeq(text, from, ExtractUntilChar(text, from, sep) - 1)
      number(from, sep) ==
        IF token(from, sep) = << >> THEN <<"0">> ELSE token(from, sep)
  IN  [start |-> number(starts.start, "-"), end |-> number(starts.end, Blank),
       flags |-> token(starts.flags, Blank),
       offset |-> number(starts.offset, Blank),
       inode |-> number(starts.inode, Blank),
       filename |-> SubSeq(text, starts.filename, Len(text))]

-----------------------------------------------------------------------------
\* The mappings of a process.  The kernel escapes the newlines of a name.  Left
\* out are names of which some part reads like a mapping itself: the line that is
\* parsed may be any part of a name that was too long.
Mapping ==
  {e \in [start : Number(16), end : Number(16), flags : {<<"r-xp">>},
          offset : Number(16), major : Number(16), minor : Number(16),
          inode : Number(10), blanks : Nat, filename : Seq(Chars \ {NL})] :
     /\ e.filename # << >> => e.blanks > 0 /\ e.filename[1] # Blank
     /\ \A i, j \in 1 .. Len(e.filename) :
          ~ParseProcMapsLine(SubSeq(e.filename, i, j))}

-----------------------------------------------------------------------------
(* FormatLine()                                                            *)

\* The device is always zero: write_trailer() passes none.
Canonical(e) ==
  e.start \o <<"-">> \o e.end \o <<Blank>> \o e.flags \o <<Blank>> \o e.offset
  \o <<Blank, "0", ":", "0", Blank>> \o e.inode
  \o Blanks(InodeWidth - Len(e.inode) + 1) \o e.filename

\* Mutant: a line that just fits is taken to have been cut off.
FormatLineShort(e, bufsize) ==
  IF Len(Canonical(e)) + 2 >= bufsize THEN << >> ELSE <<Canonical(e)>>

\* Nothing if the line and its newline do not fit into the buffer.
FormatLine(e, bufsize) ==
  IF Len(Canonical(e)) + 1 >= bufsize THEN << >> ELSE <<Canonical(e)>>
=============================================================================
