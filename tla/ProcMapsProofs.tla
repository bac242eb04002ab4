--------------------------- MODULE ProcMapsProofs ---------------------------
(***************************************************************************)
(* The iterator stays inside its buffer and writes nothing but text that   *)
(* it has read; what it writes are the canonical lines of mappings in      *)
(* their order, and without a failure of all of them that can be listed:   *)
(* whatever the size of the buffer, the contents of the file, its changes  *)
(* and the outcome of the reads.                                           *)
(***************************************************************************)
EXTENDS ProcMaps, Iteration, SequenceTheorems

-----------------------------------------------------------------------------
(* Sequences.                                                              *)

\* Two sequences, one behind the other.
LEMMA Joined ==
  ASSUME NEW C, NEW s \in Seq(C), NEW t \in Seq(C)
  PROVE  /\ s \o t \in Seq(C)
         /\ Len(s \o t) = Len(s) + Len(t)
         /\ \A i \in 1 .. Len(s) : (s \o t)[i] = s[i]
         /\ \A i \in 1 .. Len(t) : (s \o t)[Len(s) + i] = t[i]
<1>1. /\ s \o t \in Seq(C)
      /\ Len(s \o t) = Len(s) + Len(t)
      /\ \A i \in 1 .. Len(s) + Len(t) : (s \o t)[i] = IF i <= Len(s) THEN s[i] ELSE t[i - Len(s)]
  BY ConcatProperties
<1>2. Len(s) \in Nat /\ Len(t) \in Nat
  OBVIOUS
<1> DEFINE m == Len(s)
          n == Len(t)
<1> HIDE DEF m, n
<1>3. /\ \A i \in 1 .. m : (s \o t)[i] = s[i]
      /\ \A i \in 1 .. n : (s \o t)[m + i] = t[i]
  BY <1>1, <1>2 DEF m, n
<1> QED
  BY <1>1, <1>3 DEF m, n

\* One more character.
LEMMA Extended ==
  ASSUME NEW C, NEW s \in Seq(C), NEW n \in Nat, Len(s) = n, NEW x \in C
  PROVE  /\ s \o <<x>> \in Seq(C)
         /\ Len(s \o <<x>>) = n + 1
         /\ (s \o <<x>>)[n + 1] = x
         /\ \A i \in 1 .. n : (s \o <<x>>)[i] = s[i]
<1>1. <<x>> \in Seq(C) /\ Len(<<x>>) = 1 /\ <<x>>[1] = x /\ 1 \in 1 .. 1
  OBVIOUS
<1> DEFINE t == <<x>>
<1> HIDE DEF t
<1>2. /\ s \o t \in Seq(C) /\ Len(s \o t) = Len(s) + Len(t)
      /\ \A i \in 1 .. Len(s) : (s \o t)[i] = s[i]
      /\ \A i \in 1 .. Len(t) : (s \o t)[Len(s) + i] = t[i]
  BY <1>1, Joined DEF t
<1>3. (s \o t)[n + 1] = t[1]
  BY <1>1, <1>2 DEF t
<1> QED
  BY <1>1, <1>2, <1>3 DEF t

\* Three more characters.
LEMMA ExtendedThrice ==
  ASSUME NEW C, NEW s \in Seq(C), NEW n \in Nat, Len(s) = n,
         NEW x \in C, NEW y \in C, NEW z \in C
  PROVE  /\ s \o <<x>> \o <<y>> \o <<z>> \in Seq(C)
         /\ Len(s \o <<x>> \o <<y>> \o <<z>>) = n + 3
         /\ (s \o <<x>> \o <<y>> \o <<z>>)[n + 1] = x
         /\ (s \o <<x>> \o <<y>> \o <<z>>)[n + 2] = y
         /\ (s \o <<x>> \o <<y>> \o <<z>>)[n + 3] = z
         /\ \A i \in 1 .. n : (s \o <<x>> \o <<y>> \o <<z>>)[i] = s[i]
<1> DEFINE t == s \o <<x>>
           u == t \o <<y>>
           v == u \o <<z>>
<1>1. /\ t \in Seq(C) /\ Len(t) = n + 1 /\ t[n + 1] = x
      /\ \A i \in 1 .. n : t[i] = s[i]
  BY Extended
<1> HIDE DEF t
<1>2. n + 1 \in Nat /\ n + 2 \in Nat /\ (n + 1) + 1 = n + 2 /\ (n + 2) + 1 = n + 3
  OBVIOUS
<1>3. /\ u \in Seq(C) /\ Len(u) = n + 2 /\ u[n + 2] = y
      /\ \A i \in 1 .. n + 1 : u[i] = t[i]
  BY <1>1, <1>2, Extended
<1> HIDE DEF u
<1>4. /\ v \in Seq(C) /\ Len(v) = n + 3 /\ v[n + 3] = z
      /\ \A i \in 1 .. n + 2 : v[i] = u[i]
  BY <1>2, <1>3, Extended, SMTT(30)
<1> HIDE DEF v
<1>5. /\ v \in Seq(C) /\ Len(v) = n + 3
      /\ v[n + 1] = x /\ v[n + 2] = y /\ v[n + 3] = z
      /\ \A i \in 1 .. n : v[i] = s[i]
  BY <1>1, <1>3, <1>4
<1> QED
  BY <1>5, Zenon DEF t, u, v

LEMMA PartOfText ==
  ASSUME NEW text \in Seq(Chars), NEW a \in Nat \ {0}, NEW b \in Int, b <= Len(text)
  PROVE  SubSeq(text, a, b) \in Seq(Chars)
<1>1. \A i \in a .. b : text[i] \in Chars
  BY ElementOfSeq
<1> QED
  BY <1>1, SubSeqProperties

-----------------------------------------------------------------------------
(* ParseProcMapsLine() and FormatLine().                                   *)

\* ExtractUntilChar() returns a place behind its argument, or NULL.
LEMMA Extracted ==
  ASSUME NEW text \in Seq(Chars), NEW from \in Nat, NEW c
  PROVE  \/ ExtractUntilChar(text, from, c) = 0
         \/ /\ ExtractUntilChar(text, from, c) \in from .. Len(text)
            /\ text[ExtractUntilChar(text, from, c)] = c
<1> DEFINE at == {i \in from .. Len(text) : text[i] = c}
<1>1. CASE at = {}
  BY <1>1 DEF ExtractUntilChar
<1>2. CASE at # {}
  <2>1. \E i \in at : \A j \in at : i <= j
    <3>1. at \in SUBSET Nat
      OBVIOUS
    <3> HIDE DEF at
    <3> QED
      BY <1>2, <3>1, LeastExists
  <2>2. ExtractUntilChar(text, from, c) = CHOOSE i \in at : \A j \in at : i <= j
    BY <1>2, Zenon DEF ExtractUntilChar
  <2>3. ExtractUntilChar(text, from, c) \in at
    <3> HIDE DEF at
    <3> QED
      BY <2>1, <2>2
  <2> QED
    BY <2>3
<1> QED
  BY <1>1, <1>2

\* SkipWhileWhitespace() does not leave the text.
LEMMA Skipped ==
  ASSUME NEW text \in Seq(Chars), NEW at \in 1 .. Len(text), NEW c, text[at] = c
  PROVE  SkipWhileWhitespace(text, at, c) \in at .. Len(text)
<1>1. CASE c # Blank
  <2>1. SkipWhileWhitespace(text, at, c) = at
    BY <1>1, Zenon DEF SkipWhileWhitespace
  <2> QED
    BY <2>1
<1>2. CASE c = Blank
  <2> DEFINE Last(i) == /\ \A j \in at .. i : text[j] = Blank
                        /\ i = Len(text) \/ text[i + 1] # Blank
             other == {k \in at .. Len(text) : text[k] # Blank}
  <2>1. \E i \in at .. Len(text) : Last(i)
    <3>1. CASE other = {}
      <4>1. Last(Len(text)) /\ Len(text) \in at .. Len(text)
        BY <3>1
      <4> QED
        BY <4>1
    <3>2. CASE other # {}
      <4>1. PICK k \in other : \A d \in other : k <= d
        <5>1. other \in SUBSET Nat
          OBVIOUS
        <5> HIDE DEF other
        <5> QED
          BY <3>2, <5>1, LeastExists
      <4>2. k # at
        BY <1>2, <4>1
      <4>3. k - 1 \in at .. Len(text) /\ (k - 1) + 1 = k
        BY <4>1, <4>2
      <4>4. \A j \in at .. k - 1 : text[j] = Blank
        BY <4>1
      <4>5. Last(k - 1)
        BY <4>1, <4>3, <4>4
      <4> QED
        BY <4>3, <4>5
    <3> QED
      BY <3>1, <3>2
  <2>2. SkipWhileWhitespace(text, at, c) = CHOOSE i \in at .. Len(text) : Last(i)
    BY <1>2, Zenon DEF SkipWhileWhitespace
  <2> HIDE DEF Last
  <2> QED
    BY <2>1, <2>2
<1> QED
  BY <1>1, <1>2

\* A field that is found lies in the text, and so did the one before it.
LEMMA FieldAfter ==
  ASSUME NEW text \in Seq(Chars), NEW base, NEW sep,
         NEW from \in 0 .. Len(text) + 1
  PROVE  /\ After(text, base, sep)[from] \in 0 .. Len(text) + 1
         /\ After(text, base, sep)[from] # 0 =>
              /\ from # 0
              /\ ExtractUntilChar(text, from, sep) \in from .. Len(text)
<1> DEFINE end == ExtractUntilChar(text, from, sep)
<1>1. After(text, base, sep)[from] =
        IF from = 0 \/ end = 0 THEN 0
        ELSE IF ~Converts(SubSeq(text, from, end - 1), base) THEN 0
        ELSE SkipWhileWhitespace(text, end, sep) + 1
  BY DEF After
<1>2. \/ end = 0
      \/ end \in from .. Len(text) /\ text[end] = sep
  <2>1. from \in Nat
    OBVIOUS
  <2> QED
    BY <2>1, Extracted
<1> HIDE DEF end
<1>3. ASSUME from # 0, end # 0
      PROVE  SkipWhileWhitespace(text, end, sep) \in end .. Len(text)
  BY <1>2, <1>3, Skipped
<1>4. Len(text) \in Nat
  OBVIOUS
<1>5. end \in from .. Len(text) \/ end = 0
  BY <1>2
<1> QED
  BY <1>1, <1>3, <1>4, <1>5 DEF end

Fields == [start : Seq(Chars), end : Seq(Chars), flags : Seq(Chars),
           offset : Seq(Chars), inode : Seq(Chars), filename : Seq(Chars)]

\* ParseProcMapsLine() takes its fields from the text.
LEMMA ParsedTyped ==
  ASSUME NEW text \in Seq(Chars), ParseProcMapsLine(text)
  PROVE  Parsed(text) \in Fields
<1> DEFINE n == Len(text) + 1
           end == After(text, 16, "-")[1]
           flags == After(text, 16, Blank)[end]
           offset1 == After(text, 0, Blank)[flags]
           major == After(text, 16, Blank)[offset1]
           minor == After(text, 16, ":")[major]
           inode == After(text, 16, Blank)[minor]
           name == After(text, 10, Blank)[inode]
           starts == [start |-> 1, end |-> end, flags |-> flags,
                      offset |-> offset1, inode |-> inode, filename |-> name]
           Field(from, sep) ==
             /\ from \in 1 .. n
             /\ ExtractUntilChar(text, from, sep) \in from .. Len(text)
           token(from, sep) ==
             SubSeq(text, from, ExtractUntilChar(text, from, sep) - 1)
           number(from, sep) ==
             IF token(from, sep) = << >> THEN <<"0">> ELSE token(from, sep)
<1>1. FieldStarts(text) = starts
  BY Zenon DEF FieldStarts
<1>2. name # 0
  <2>1. FieldStarts(text).filename # 0
    BY DEF ParseProcMapsLine
  <2> HIDE DEF name
  <2> QED
    BY <1>1, <2>1
<1>3. /\ end \in 0 .. n
      /\ end # 0 => Field(1, "-")
  BY FieldAfter
<1> HIDE DEF end
<1>4. /\ flags \in 0 .. n
      /\ flags # 0 => Field(end, Blank)
  BY <1>3, FieldAfter
<1> HIDE DEF flags
<1>5. /\ offset1 \in 0 .. n
      /\ offset1 # 0 => flags \in 1 .. n
  BY <1>4, FieldAfter
<1>6. offset1 # 0 => Field(flags, Blank)
  BY <1>4, FieldAfter
<1> HIDE DEF offset1
<1>7. /\ major \in 0 .. n
      /\ major # 0 => Field(offset1, Blank)
  BY <1>5, FieldAfter
<1> HIDE DEF major
<1>8. /\ minor \in 0 .. n
      /\ minor # 0 => major # 0
  BY <1>7, FieldAfter
<1> HIDE DEF minor
<1>9. /\ inode \in 0 .. n
      /\ inode # 0 => minor # 0
  BY <1>8, FieldAfter
<1> HIDE DEF inode
<1>10. /\ name \in 0 .. n
       /\ name # 0 => Field(inode, Blank)
  BY <1>9, FieldAfter
<1> HIDE DEF name
<1>11. Field(inode, Blank) /\ inode # 0
  BY <1>2, <1>10
<1>12. Field(offset1, Blank) /\ offset1 # 0
  BY <1>7, <1>8, <1>9, <1>11
<1>13. Field(flags, Blank) /\ flags # 0
  BY <1>6, <1>12
<1>14. Field(end, Blank) /\ Field(1, "-")
  BY <1>3, <1>4, <1>13
<1>15. ASSUME NEW from, NEW sep, Field(from, sep)
       PROVE  token(from, sep) \in Seq(Chars) /\ number(from, sep) \in Seq(Chars)
  <2>1. token(from, sep) \in Seq(Chars)
    BY <1>15, PartOfText
  <2>2. <<"0">> \in Seq(Chars)
    BY DEF Chars, Digits
  <2> HIDE DEF token
  <2> QED
    BY <2>1, <2>2
<1>16. SubSeq(text, name, Len(text)) \in Seq(Chars)
  BY <1>2, <1>10, PartOfText
<1>17. Parsed(text) =
         [start |-> number(starts.start, "-"), end |-> number(starts.end, Blank),
          flags |-> token(starts.flags, Blank),
          offset |-> number(starts.offset, Blank),
          inode |-> number(starts.inode, Blank),
          filename |-> SubSeq(text, starts.filename, Len(text))]
  BY <1>1, Zenon DEF Parsed
<1>18. /\ starts.start = 1 /\ starts.end = end /\ starts.flags = flags
       /\ starts.offset = offset1 /\ starts.inode = inode /\ starts.filename = name
  OBVIOUS
<1> HIDE DEF starts, token, number, Field
<1>19. /\ number(1, "-") \in Seq(Chars) /\ number(end, Blank) \in Seq(Chars)
       /\ token(flags, Blank) \in Seq(Chars) /\ number(offset1, Blank) \in Seq(Chars)
       /\ number(inode, Blank) \in Seq(Chars)
  BY <1>11, <1>12, <1>13, <1>14, <1>15
<1> QED
  BY <1>16, <1>17, <1>18, <1>19 DEF Fields

\* FormatLine() writes text, and at most one line.
LEMMA CanonicalTyped ==
  ASSUME NEW e \in Fields
  PROVE  Canonical(e) \in Seq(Chars)
<1> DEFINE blanks == Blanks(InodeWidth - Len(e.inode) + 1)
<1>1. blanks \in Seq(Chars)
  <2>1. InodeWidth - Len(e.inode) + 1 \in Int
    BY MapsLineAssumption DEF MapsLineAssumption, Fields
  <2>2. ASSUME NEW m \in Int
        PROVE  Blanks(m) \in Seq(Chars)
    <3>1. CASE m \in Nat
      BY <3>1 DEF Blanks, Chars
    <3>2. CASE m \notin Nat
      <4>1. 1 .. m = 1 .. 0
        BY <2>2, <3>2
      <4>2. Blanks(m) = [i \in 1 .. 0 |-> Blank]
        BY <4>1 DEF Blanks
      <4> QED
        BY <4>2 DEF Chars
    <3> QED
      BY <3>1, <3>2
  <2> QED
    BY <2>1, <2>2
<1> HIDE DEF blanks
<1>2. /\ <<"-">> \in Seq(Chars) /\ <<Blank>> \in Seq(Chars)
      /\ <<Blank, "0", ":", "0", Blank>> \in Seq(Chars)
  BY DEF Chars, Digits
<1>3. /\ e.start \in Seq(Chars) /\ e.end \in Seq(Chars) /\ e.flags \in Seq(Chars)
      /\ e.offset \in Seq(Chars) /\ e.inode \in Seq(Chars)
      /\ e.filename \in Seq(Chars)
  BY DEF Fields
<1>4. \A s, t \in Seq(Chars) : s \o t \in Seq(Chars)
  BY ConcatProperties
<1>5. Canonical(e) = e.start \o <<"-">> \o e.end \o <<Blank>> \o e.flags \o <<Blank>>
        \o e.offset \o <<Blank, "0", ":", "0", Blank>> \o e.inode
        \o blanks \o e.filename
  BY DEF Canonical, blanks
<1> HIDE DEF blanks
<1>6. e.start \o <<"-">> \o e.end \o <<Blank>> \in Seq(Chars)
  BY <1>2, <1>3, <1>4
<1>7. e.start \o <<"-">> \o e.end \o <<Blank>> \o e.flags \o <<Blank>>
        \o e.offset \in Seq(Chars)
  BY <1>2, <1>3, <1>4, <1>6
<1> QED
  BY <1>1, <1>2, <1>3, <1>4, <1>5, <1>7

LEMMA FormatTyped ==
  ASSUME NEW e \in Fields
  PROVE  FormatLine(e, KBufSize) \in Seq(Seq(Chars))
  BY CanonicalTyped DEF FormatLine

-----------------------------------------------------------------------------
(* The line of a mapping, and what is read of it when it is cut off at the *)
(* end, or has lost its first characters because it was longer than the    *)
(* buffer.                                                                 *)

\* The fields of a mapping, and its line: thirteen characters, the blanks, the
\* name.
LEMMA MappingFields ==
  ASSUME NEW e \in Mapping
  PROVE  /\ e.start \in Number(16) /\ e.end \in Number(16)
         /\ e.flags = <<"r-xp">> /\ e.offset \in Number(16)
         /\ e.major \in Number(16) /\ e.minor \in Number(16)
         /\ e.inode \in Number(10) /\ e.blanks \in Nat
         /\ e.filename \in Seq(Chars \ {NL})
         /\ Len(e.filename) \in Nat
         /\ e.filename # << >> => e.blanks > 0 /\ e.filename[1] # Blank
         /\ \A i, j \in 1 .. Len(e.filename) :
              ~ParseProcMapsLine(SubSeq(e.filename, i, j))
  BY DEF Mapping

\* A number is a single digit, which is no separator.
LEMMA OneDigit ==
  ASSUME NEW base \in {10, 16}, NEW token \in Number(base)
  PROVE  /\ token = <<token[1]>> /\ token[1] \in Digits(base)
         /\ token[1] \in Chars \ {NL, "-", Blank, ":"}
         /\ Len(token) = 1 /\ token \in Seq(Chars \ {NL})
<1>1. PICK d \in Digits(base) : token = <<d>>
  BY DEF Number
<1>2. d \in Chars \ {NL, "-", Blank, ":"}
  BY DEF Digits, Chars, NL, Blank
<1> QED
  BY <1>1, <1>2

LEMMA BlanksTyped ==
  ASSUME NEW n \in Nat
  PROVE  /\ Blanks(n) \in Seq(Chars \ {NL}) /\ Len(Blanks(n)) = n
         /\ \A i \in 1 .. n : Blanks(n)[i] = Blank
  BY DEF Blanks, Chars, NL, Blank

\* The line of a mapping begins with thirteen characters; the blanks and the name
\* follow.
LEMMA LineLaidOut ==
  ASSUME NEW e \in Mapping
  PROVE  LET k == KernelLine(e)
         IN  /\ k \in Seq(Chars \ {NL})
             /\ Len(k) = 13 + e.blanks + Len(e.filename)
             /\ k[1] = e.start[1] /\ k[2] = "-" /\ k[3] = e.end[1]
             /\ k[4] = Blank /\ k[5] = "r-xp" /\ k[6] = Blank
             /\ k[7] = e.offset[1] /\ k[8] = Blank /\ k[9] = e.major[1]
             /\ k[10] = ":" /\ k[11] = e.minor[1] /\ k[12] = Blank
             /\ k[13] = e.inode[1]
             /\ \A i \in 14 .. 13 + e.blanks : k[i] = Blank
             /\ \A i \in 1 .. Len(e.filename) :
                  k[13 + e.blanks + i] = e.filename[i]
<1> DEFINE C == Chars \ {NL}
           s == e.start[1]
           f == e.end[1]
           o == e.offset[1]
           a == e.major[1]
           b == e.minor[1]
           n == e.inode[1]
           k == e.blanks
           N == Len(e.filename)
           p1 == <<s>>
           p4 == p1 \o <<"-">> \o <<f>> \o <<Blank>>
           p7 == p4 \o <<"r-xp">> \o <<Blank>> \o <<o>>
           p10 == p7 \o <<Blank>> \o <<a>> \o <<":">>
           p13 == p10 \o <<b>> \o <<Blank>> \o <<n>>
           q == p13 \o Blanks(k)
           l == q \o e.filename
<1>1. /\ e.start = <<s>> /\ e.end = <<f>> /\ e.flags = <<"r-xp">> /\ e.offset = <<o>>
      /\ e.major = <<a>> /\ e.minor = <<b>> /\ e.inode = <<n>>
      /\ s \in C /\ f \in C /\ o \in C /\ a \in C /\ b \in C /\ n \in C
  BY MappingFields, OneDigit
<1>2. "-" \in C /\ Blank \in C /\ "r-xp" \in C /\ ":" \in C
  BY DEF Chars, NL, Blank
<1>3. k \in Nat /\ N \in Nat /\ e.filename \in Seq(C)
  BY MappingFields
<1>4. /\ Blanks(k) \in Seq(C) /\ Len(Blanks(k)) = k
      /\ \A i \in 1 .. k : Blanks(k)[i] = Blank
  BY <1>3, BlanksTyped
<1>5. KernelLine(e) = l
  BY <1>1, Zenon DEF KernelLine
<1> HIDE DEF s, f, o, a, b, n, C, k
<1>6. p1 \in Seq(C) /\ Len(p1) = 1 /\ p1[1] = s
  BY <1>1
<1> HIDE DEF p1
<1>7. /\ p4 \in Seq(C) /\ Len(p4) = 1 + 3
      /\ p4[1 + 1] = "-" /\ p4[1 + 2] = f /\ p4[1 + 3] = Blank
      /\ \A i \in 1 .. 1 : p4[i] = p1[i]
  BY <1>1, <1>2, <1>6, ExtendedThrice
<1> HIDE DEF p4
<1>8. /\ p7 \in Seq(C) /\ Len(p7) = 4 + 3
      /\ p7[4 + 1] = "r-xp" /\ p7[4 + 2] = Blank /\ p7[4 + 3] = o
      /\ \A i \in 1 .. 4 : p7[i] = p4[i]
  BY <1>1, <1>2, <1>7, ExtendedThrice
<1> HIDE DEF p7
<1>9. /\ p10 \in Seq(C) /\ Len(p10) = 7 + 3
      /\ p10[7 + 1] = Blank /\ p10[7 + 2] = a /\ p10[7 + 3] = ":"
      /\ \A i \in 1 .. 7 : p10[i] = p7[i]
  BY <1>1, <1>2, <1>8, ExtendedThrice
<1> HIDE DEF p10
<1>10. /\ p13 \in Seq(C) /\ Len(p13) = 10 + 3
       /\ p13[10 + 1] = b /\ p13[10 + 2] = Blank /\ p13[10 + 3] = n
       /\ \A i \in 1 .. 10 : p13[i] = p10[i]
  BY <1>1, <1>2, <1>9, ExtendedThrice
<1> HIDE DEF p13
<1>11. /\ q \in Seq(C) /\ Len(q) = 13 + k
       /\ \A i \in 1 .. 13 : q[i] = p13[i]
       /\ \A i \in 1 .. k : q[13 + i] = Blank
  <2> DEFINE t == Blanks(k)
  <2>1. t \in Seq(C) /\ p13 \in Seq(C)
    BY <1>4, <1>10
  <2>2. /\ p13 \o t \in Seq(C) /\ Len(p13 \o t) = Len(p13) + Len(t)
        /\ \A i \in 1 .. Len(p13) : (p13 \o t)[i] = p13[i]
        /\ \A i \in 1 .. Len(t) : (p13 \o t)[Len(p13) + i] = t[i]
    <3> HIDE DEF t
    <3> QED
      BY <2>1, Joined
  <2>3. Len(p13) = 13 /\ Len(t) = k
    BY <1>4, <1>10
  <2> HIDE DEF t
  <2>4. /\ p13 \o t \in Seq(C) /\ Len(p13 \o t) = 13 + k
        /\ \A i \in 1 .. 13 : (p13 \o t)[i] = p13[i]
        /\ \A i \in 1 .. k : (p13 \o t)[13 + i] = t[i]
    BY <2>2, <2>3
  <2> QED
    BY <1>4, <2>4 DEF t
<1> HIDE DEF q
<1>12. /\ l \in Seq(C) /\ Len(l) = 13 + k + N
       /\ \A i \in 1 .. 13 + k : l[i] = q[i]
       /\ \A i \in 1 .. N : l[13 + k + i] = e.filename[i]
  <2> DEFINE t == e.filename
  <2>1. t \in Seq(C) /\ q \in Seq(C)
    BY <1>3, <1>11
  <2>2. /\ q \o t \in Seq(C) /\ Len(q \o t) = Len(q) + Len(t)
        /\ \A i \in 1 .. Len(q) : (q \o t)[i] = q[i]
        /\ \A i \in 1 .. Len(t) : (q \o t)[Len(q) + i] = t[i]
    <3> HIDE DEF t
    <3> QED
      BY <2>1, Joined
  <2> QED
    BY <1>3, <1>11, <2>2
<1> HIDE DEF l, N
<1>13. \A i \in 1 .. 13 : l[i] = p13[i]
  BY <1>3, <1>11, <1>12, SMTT(30)
<1>14. /\ l[1] = s /\ l[2] = "-" /\ l[3] = f /\ l[4] = Blank /\ l[5] = "r-xp"
       /\ l[6] = Blank /\ l[7] = o
  BY <1>6, <1>7, <1>8, <1>9, <1>10, <1>13
<1>15. /\ l[8] = Blank /\ l[9] = a /\ l[10] = ":" /\ l[11] = b /\ l[12] = Blank
       /\ l[13] = n
  BY <1>9, <1>10, <1>13
<1>16. \A i \in 14 .. 13 + k : l[i] = Blank
  <2> SUFFICES ASSUME NEW i \in 14 .. 13 + k
               PROVE  l[i] = Blank
    OBVIOUS
  <2>1. i - 13 \in 1 .. k /\ 13 + (i - 13) = i /\ i \in 1 .. 13 + k
    BY <1>3
  <2> QED
    BY <1>11, <1>12, <2>1
<1> QED
  BY <1>5, <1>12, <1>14, <1>15, <1>16, Zenon DEF C, s, f, o, a, b, n, k, N

\* What strchr() finds, if it is known where.
LEMMA ExtractedAt ==
  ASSUME NEW text \in Seq(Chars), NEW from \in Nat, NEW c, NEW at \in Nat, from <= at,
         \A i \in from .. Len(text) : i < at => text[i] # c,
         at <= Len(text) => text[at] = c
  PROVE  ExtractUntilChar(text, from, c) = IF at <= Len(text) THEN at ELSE 0
<1> DEFINE found == {i \in from .. Len(text) : text[i] = c}
<1>1. Len(text) \in Nat
  OBVIOUS
<1>2. CASE at <= Len(text)
  <2>1. at \in found /\ \A j \in found : at <= j
    BY <1>1, <1>2
  <2>2. \A i \in found : (\A j \in found : i <= j) => i = at
    <3> SUFFICES ASSUME NEW i \in found, \A j \in found : i <= j
                 PROVE  i = at
      OBVIOUS
    <3>1. i <= at /\ at <= i /\ i \in Int
      BY <1>1, <2>1
    <3> QED
      BY <3>1
  <2>3. ExtractUntilChar(text, from, c) =
          IF found = {} THEN 0 ELSE CHOOSE i \in found : \A j \in found : i <= j
    BY Zenon DEF ExtractUntilChar
  <2> HIDE DEF found
  <2> QED
    BY <1>2, <2>1, <2>2, <2>3
<1>3. CASE ~(at <= Len(text))
  <2>1. found = {}
    BY <1>1, <1>3
  <2> QED
    BY <1>3, <2>1 DEF ExtractUntilChar
<1> QED
  BY <1>2, <1>3

\* Where SkipWhileWhitespace() stops, if it is known where the blanks end.
LEMMA SkippedTo ==
  ASSUME NEW text \in Seq(Chars), NEW at \in 1 .. Len(text), NEW c,
         NEW last \in at .. Len(text),
         c # Blank => last = at,
         \A i \in at .. last : text[i] = c,
         last = Len(text) \/ text[last + 1] # Blank
  PROVE  SkipWhileWhitespace(text, at, c) = last
<1>1. CASE c # Blank
  <2>1. SkipWhileWhitespace(text, at, c) = at
    BY <1>1, Zenon DEF SkipWhileWhitespace
  <2> QED
    BY <1>1, <2>1
<1>2. CASE c = Blank
  <2> DEFINE Last(i) == /\ \A j \in at .. i : text[j] = Blank
                        /\ i = Len(text) \/ text[i + 1] # Blank
  <2>1. SkipWhileWhitespace(text, at, c) = CHOOSE i \in at .. Len(text) : Last(i)
    BY <1>2, Zenon DEF SkipWhileWhitespace
  <2>2. Last(last)
    BY <1>2
  <2>3. ASSUME NEW i \in at .. Len(text), Last(i)
        PROVE  i = last
    <3>1. CASE i < last
      <4>1. i + 1 \in at .. last /\ i # Len(text)
        BY <3>1
      <4> QED
        BY <1>2, <2>3, <4>1
    <3>2. CASE last < i
      <4>1. last + 1 \in at .. i /\ last # Len(text)
        BY <3>2
      <4> QED
        BY <2>3, <4>1
    <3> QED
      BY <3>1, <3>2
  <2> HIDE DEF Last
  <2> QED
    BY <2>1, <2>2, <2>3
<1> QED
  BY <1>1, <1>2

\* A field that is ended by the separator at a known place, with blanks behind
\* it; if the text is too short for that, no field is found.
LEMMA FieldEnds ==
  ASSUME NEW text \in Seq(Chars), NEW base, NEW sep, NEW from \in 1 .. Len(text) + 1,
         NEW at \in Nat, from <= at, NEW last \in Nat, at <= last,
         \A i \in from .. Len(text) : i < at => text[i] # sep,
         base = 0 \/ \A i \in from .. Len(text) : i < at => text[i] \in Digits(base),
         \A i \in at .. Len(text) : i <= last => text[i] = sep,
         sep # Blank => last = at,
         last < Len(text) => text[last + 1] # Blank
  PROVE  After(text, base, sep)[from] =
           IF Len(text) < at THEN 0
           ELSE IF last <= Len(text) THEN last + 1 ELSE Len(text) + 1
<1> DEFINE end == ExtractUntilChar(text, from, sep)
           token == SubSeq(text, from, end - 1)
           stop == IF last <= Len(text) THEN last ELSE Len(text)
<1>1. Len(text) \in Nat /\ from \in Nat /\ from # 0 /\ from \in 0 .. Len(text) + 1
  OBVIOUS
<1>2. end = IF at <= Len(text) THEN at ELSE 0
  <2>1. at <= Len(text) => text[at] = sep
    <3>1. at <= Len(text) => at \in at .. Len(text)
      BY <1>1
    <3> QED
      BY <3>1
  <2> QED
    BY <1>1, <2>1, ExtractedAt
<1>3. After(text, base, sep)[from] =
        IF from = 0 \/ end = 0 THEN 0
        ELSE IF ~Converts(token, base) THEN 0
        ELSE SkipWhileWhitespace(text, end, sep) + 1
  BY <1>1, Zenon DEF After
<1> HIDE DEF end
<1>4. CASE Len(text) < at
  <2>1. end = 0
    BY <1>1, <1>2, <1>4
  <2> QED
    BY <1>3, <1>4, <2>1
<1>5. CASE ~(Len(text) < at)
  <2>1. end = at /\ end # 0 /\ at \in 1 .. Len(text)
    BY <1>1, <1>2, <1>5
  <2>2. Converts(token, base)
    <3>1. CASE base = 0
      BY <3>1 DEF Converts
    <3>2. CASE base # 0
      <4>1. \A i \in from .. at - 1 : text[i] \in Chars
        BY <1>1, <2>1, ElementOfSeq
      <4>2. at - 1 \in Int /\ from \in Int
        BY <1>1
      <4>3. /\ SubSeq(text, from, at - 1) \in Seq(Chars)
            /\ Len(SubSeq(text, from, at - 1)) =
                 IF from <= at - 1 THEN at - 1 - from + 1 ELSE 0
            /\ \A i \in 1 .. (at - 1) - from + 1 :
                 SubSeq(text, from, at - 1)[i] = text[from + i - 1]
        BY <4>1, <4>2, SubSeqProperties
      <4>4. token = SubSeq(text, from, at - 1)
        BY <2>1
      <4> HIDE DEF token
      <4>5. Len(token) = at - from
        BY <1>1, <4>3, <4>4
      <4>6. ASSUME NEW i \in 1 .. Len(token)
            PROVE  token[i] \in Digits(base)
        <5>1. i \in 1 .. (at - 1) - from + 1 /\ from + i - 1 \in from .. Len(text)
              /\ from + i - 1 < at
          BY <1>1, <2>1, <4>5
        <5>2. text[from + i - 1] \in Digits(base)
          BY <3>2, <5>1
        <5> QED
          BY <4>3, <4>4, <5>1, <5>2
      <4>7. DOMAIN token = 1 .. Len(token)
        BY <4>3, <4>4
      <4> QED
        BY <4>6, <4>7 DEF Converts
    <3> QED
      BY <3>1, <3>2
  <2>3. SkipWhileWhitespace(text, at, sep) = stop
    <3>1. stop \in at .. Len(text)
      BY <1>1, <2>1
    <3>2. sep # Blank => stop = at
      BY <2>1
    <3>3. \A i \in at .. stop : text[i] = sep
      BY <1>1, <2>1
    <3>4. stop = Len(text) \/ text[stop + 1] # Blank
      BY <1>1
    <3> HIDE DEF stop
    <3> QED
      BY <2>1, <3>1, <3>2, <3>3, <3>4, SkippedTo
  <2>4. After(text, base, sep)[from] = stop + 1
    BY <1>1, <1>3, <2>1, <2>2, <2>3
  <2> QED
    BY <1>5, <2>4
<1> QED
  BY <1>4, <1>5

LEMMA NoField ==
  ASSUME NEW text \in Seq(Chars), NEW base, NEW sep
  PROVE  After(text, base, sep)[0] = 0
<1>1. 0 \in 0 .. Len(text) + 1
  OBVIOUS
<1> QED
  BY <1>1 DEF After

\* A field of one character, with the separator behind it.
LEMMA ShortField ==
  ASSUME NEW text \in Seq(Chars), NEW base, NEW sep, NEW from \in 1 .. Len(text) + 1,
         from <= Len(text) => /\ text[from] # sep
                              /\ base = 0 \/ text[from] \in Digits(base),
         from + 1 <= Len(text) => text[from + 1] = sep,
         from + 2 <= Len(text) => text[from + 2] # Blank
  PROVE  After(text, base, sep)[from] = IF Len(text) < from + 1 THEN 0 ELSE from + 2
<1> DEFINE at == from + 1
           n == Len(text)
<1>1. n \in Nat /\ from \in Nat /\ at \in Nat /\ from <= at /\ at <= at
  OBVIOUS
<1>2. \A i \in from .. n : i < at => i = from
  BY <1>1
<1>3. \A i \in from .. n : i < at => text[i] # sep
  BY <1>1, <1>2
<1>4. base = 0 \/ \A i \in from .. n : i < at => text[i] \in Digits(base)
  BY <1>1, <1>2
<1>5. \A i \in at .. n : i <= at => text[i] = sep
  BY <1>1
<1>6. at < n => text[at + 1] # Blank
  BY <1>1
<1>7. After(text, base, sep)[from] =
        IF n < at THEN 0 ELSE IF at <= n THEN at + 1 ELSE n + 1
  <2> HIDE DEF at
  <2> QED
    BY <1>1, <1>3, <1>4, <1>5, <1>6, FieldEnds
<1> QED
  BY <1>1, <1>7

\* What the digits are not.
LEMMA DigitsAre ==
  /\ Digits(10) \subseteq Digits(16)
  /\ \A d \in Digits(16) : d # "-" /\ d # Blank /\ d # ":" /\ d # "r-xp"
  /\ "-" # Blank /\ ":" # Blank /\ "r-xp" # Blank /\ "r-xp" # "-" /\ ":" # "-"
  BY DEF Digits, Blank

\* A line that has lost what precedes the character at a.
Piece(e, a, b) == SubSeq(KernelLine(e), a, b)

LEMMA PieceOfLine ==
  ASSUME NEW e \in Mapping, NEW a \in Nat \ {0}, NEW b \in Nat,
         a <= b + 1, b <= Len(KernelLine(e))
  PROVE  /\ Piece(e, a, b) \in Seq(Chars)
         /\ Len(Piece(e, a, b)) = b - a + 1
         /\ \A x \in a .. b : Piece(e, a, b)[x - a + 1] = KernelLine(e)[x]
<1>1. KernelLine(e) \in Seq(Chars \ {NL})
  BY LineLaidOut
<1>2. \A i \in a .. b : KernelLine(e)[i] \in Chars
  <2>1. \A i \in a .. b : i \in 1 .. Len(KernelLine(e))
    OBVIOUS
  <2>2. \A i \in 1 .. Len(KernelLine(e)) : KernelLine(e)[i] \in Chars \ {NL}
    BY <1>1, ElementOfSeq
  <2> QED
    BY <2>1, <2>2
<1>3. /\ Piece(e, a, b) \in Seq(Chars)
      /\ Len(Piece(e, a, b)) = IF a <= b THEN b - a + 1 ELSE 0
      /\ \A i \in 1 .. b - a + 1 : Piece(e, a, b)[i] = KernelLine(e)[a + i - 1]
  BY <1>2, SubSeqProperties DEF Piece
<1>4. \A x \in a .. b : Piece(e, a, b)[x - a + 1] = KernelLine(e)[x]
  <2> SUFFICES ASSUME NEW x \in a .. b
               PROVE  Piece(e, a, b)[x - a + 1] = KernelLine(e)[x]
    OBVIOUS
  <2>1. x - a + 1 \in 1 .. b - a + 1 /\ a + (x - a + 1) - 1 = x
    OBVIOUS
  <2> QED
    BY <1>3, <2>1
<1> QED
  BY <1>3, <1>4

\* Where the fields are in a line that is cut off behind the character at b, and
\* may lack its first one.
NameAt(e, a, b) == IF b < 14 THEN 0
                   ELSE IF 13 + e.blanks <= b THEN 15 + e.blanks - a ELSE b + 2 - a
FieldsAt(e, a, b) ==
  [start |-> 1,
   end |-> IF b < 2 THEN 0 ELSE 4 - a,
   flags |-> IF b < 4 THEN 0 ELSE 6 - a,
   offset |-> IF b < 6 THEN 0 ELSE 8 - a,
   inode |-> IF b < 12 THEN 0 ELSE 14 - a,
   filename |-> NameAt(e, a, b)]

LEMMA FieldsOfPiece ==
  ASSUME NEW e \in Mapping, NEW a \in {1, 2}, NEW b \in Nat,
         a <= b + 1, b <= Len(KernelLine(e))
  PROVE  FieldStarts(Piece(e, a, b)) = FieldsAt(e, a, b)
<1> DEFINE text == Piece(e, a, b)
           k == KernelLine(e)
           n == Len(text)
           blanks == e.blanks
           end == IF b < 2 THEN 0 ELSE 4 - a
           flags == IF b < 4 THEN 0 ELSE 6 - a
           offset1 == IF b < 6 THEN 0 ELSE 8 - a
           major == IF b < 8 THEN 0 ELSE 10 - a
           minor == IF b < 10 THEN 0 ELSE 12 - a
           inode == IF b < 12 THEN 0 ELSE 14 - a
           name == IF b < 14 THEN 0
                   ELSE IF 13 + blanks <= b THEN 15 + blanks - a ELSE b + 2 - a
<1>1. /\ text \in Seq(Chars) /\ n = b - a + 1
      /\ \A x \in a .. b : text[x - a + 1] = k[x]
  <2>1. a \in Nat \ {0}
    OBVIOUS
  <2> QED
    BY <2>1, PieceOfLine
<1>2. blanks \in Nat /\ Len(k) \in Nat
      /\ Len(e.filename) \in Nat /\ Len(k) = 13 + blanks + Len(e.filename)
  BY MappingFields, LineLaidOut
<1>3. /\ k[1] \in Digits(16) /\ k[2] = "-" /\ k[3] \in Digits(16) /\ k[4] = Blank
      /\ k[5] = "r-xp" /\ k[6] = Blank /\ k[7] \in Digits(16) /\ k[8] = Blank
      /\ k[9] \in Digits(16) /\ k[10] = ":" /\ k[11] \in Digits(16)
      /\ k[12] = Blank /\ k[13] \in Digits(10)
  BY MappingFields, OneDigit, LineLaidOut
<1>4. /\ \A i \in 14 .. 13 + blanks : k[i] = Blank
      /\ 14 + blanks <= Len(k) => k[14 + blanks] # Blank
  <2>1. ASSUME 14 + blanks <= Len(k)
        PROVE  k[14 + blanks] # Blank
    <3>1. Len(e.filename) # 0 /\ 1 \in 1 .. Len(e.filename)
      BY <1>2, <2>1
    <3>2. e.filename # << >>
      BY <3>1
    <3>3. e.filename[1] # Blank
      BY <3>2, MappingFields
    <3>4. k[13 + blanks + 1] = e.filename[1]
      BY <3>1, LineLaidOut
    <3>5. 13 + blanks + 1 = 14 + blanks
      BY <1>2
    <3> QED
      BY <3>3, <3>4, <3>5
  <2> QED
    BY <2>1, LineLaidOut
<1>5. /\ k[1] # "-" /\ k[3] # Blank /\ k[5] # Blank /\ k[7] # Blank
       /\ k[9] # Blank /\ k[9] # ":" /\ k[11] # Blank /\ k[13] # Blank
       /\ k[10] # Blank /\ k[11] # "-" /\ k[3] # "-" /\ k[13] \in Digits(16)
  BY <1>3, DigitsAre
<1>6. b <= Len(k)
  OBVIOUS
<1>7. blanks = 0 => Len(k) = 13
  <2>1. blanks = 0 => e.filename = << >>
    BY MappingFields
  <2>2. e.filename = << >> => Len(e.filename) = 0
    OBVIOUS
  <2> QED
    BY <1>2, <2>1, <2>2
<1>8. blanks \in Nat /\ Len(k) \in Nat /\ 13 + blanks <= Len(k)
  BY <1>2
<1>9. blanks = 0 => b <= 13
  BY <1>6, <1>7
<1> HIDE DEF text, k, n, blanks
<1>10. n = b - a + 1 /\ n \in Nat /\ a \in Nat /\ a \in 1 .. 2
  BY <1>1
<1>11. \A x \in 2 .. b : x - a + 1 \in 1 .. n /\ text[x - a + 1] = k[x]
  BY <1>1, <1>10
<1>12. After(text, 16, "-")[1] = end
  <2>1. CASE a = 1
    <3>1. 1 <= n => text[1] # "-" /\ text[1] \in Digits(16)
      BY <1>1, <1>3, <1>10, <2>1, DigitsAre
    <3>2. 2 <= n => text[2] = "-"
      BY <1>3, <1>10, <1>11, <2>1
    <3>3. 3 <= n => text[3] # Blank
      BY <1>3, <1>10, <1>11, <2>1, DigitsAre
    <3>4. 1 \in 1 .. n + 1
      BY <1>10
    <3>5. After(text, 16, "-")[1] = IF n < 1 + 1 THEN 0 ELSE 1 + 2
      BY <1>1, <3>1, <3>2, <3>3, <3>4, ShortField DEF n
    <3> QED
      BY <1>10, <2>1, <3>5
  <2>2. CASE a = 2
    <3>1. 1 <= n => text[1] = "-"
      BY <1>3, <1>10, <1>11, <2>2
    <3>2. \A i \in 1 .. n : i <= 1 => text[i] = "-"
      BY <1>10, <3>1
    <3>3. 1 < n => text[1 + 1] # Blank
      BY <1>3, <1>10, <1>11, <2>2, DigitsAre
    <3>4. 1 \in 1 .. n + 1 /\ (\A i \in 1 .. n : ~(i < 1))
      BY <1>10
    <3>5. After(text, 16, "-")[1] =
            IF n < 1 THEN 0 ELSE IF 1 <= n THEN 1 + 1 ELSE n + 1
      BY <1>1, <3>2, <3>3, <3>4, FieldEnds, SMTT(30) DEF n
    <3> QED
      BY <1>10, <2>2, <3>5
  <2> QED
    BY <2>1, <2>2
\* A field whose character is at x of the whole line.
<1>13. ASSUME NEW base, NEW sep, NEW x \in 3 .. 11, x <= b + 1,
             k[x] # sep, base = 0 \/ k[x] \in Digits(base), k[x + 1] = sep,
             k[x + 2] # Blank
      PROVE  After(text, base, sep)[x + 1 - a] =
               IF b < x + 1 THEN 0 ELSE x + 3 - a
  <2> DEFINE from == x + 1 - a
  <2>1. from \in 1 .. n + 1
    BY <1>10, <1>13
  <2>2. /\ from <= n => text[from] = k[x]
        /\ from + 1 <= n => text[from + 1] = k[x + 1]
        /\ from + 2 <= n => text[from + 2] = k[x + 2]
    <3>1. from = x - a + 1 /\ from + 1 = (x + 1) - a + 1 /\ from + 2 = (x + 2) - a + 1
      BY <1>10
    <3>2. from <= n => x \in 2 .. b
      BY <1>10, <1>13
    <3>3. from + 1 <= n => x + 1 \in 2 .. b
      BY <1>10, <1>13
    <3>4. from + 2 <= n => x + 2 \in 2 .. b
      BY <1>10, <1>13
    <3> HIDE DEF from
    <3> QED
      BY <1>11, <3>1, <3>2, <3>3, <3>4
  <2> HIDE DEF from
  <2>3. /\ from <= n => /\ text[from] # sep
                        /\ base = 0 \/ text[from] \in Digits(base)
        /\ from + 1 <= n => text[from + 1] = sep
        /\ from + 2 <= n => text[from + 2] # Blank
    BY <1>13, <2>2
  <2>4. After(text, base, sep)[from] = IF n < from + 1 THEN 0 ELSE from + 2
    BY <1>1, <2>1, <2>3, ShortField DEF n
  <2> QED
    BY <1>10, <2>4 DEF from
<1>14. After(text, 16, Blank)[end] = flags
  <2>1. CASE b < 2
    BY <1>1, <2>1, NoField
  <2>2. CASE ~(b < 2)
    <3>1. /\ k[3] # Blank /\ k[3] \in Digits(16)
          /\ k[3 + 1] = Blank /\ k[3 + 2] # Blank
      BY <1>3, <1>5
    <3>2. 3 \in 3 .. 11 /\ 3 <= b + 1
      BY <2>2
    <3>3. After(text, 16, Blank)[3 + 1 - a] = IF b < 3 + 1 THEN 0 ELSE 3 + 3 - a
      BY <1>13, <3>1, <3>2
    <3> QED
      BY <1>10, <2>2, <3>3
  <2> QED
    BY <2>1, <2>2
<1>15. After(text, 0, Blank)[flags] = offset1
  <2>1. CASE b < 4
    BY <1>1, <2>1, NoField
  <2>2. CASE ~(b < 4)
    <3>1. /\ k[5] # Blank
          /\ k[5 + 1] = Blank /\ k[5 + 2] # Blank
      BY <1>3, <1>5
    <3>2. 5 \in 3 .. 11 /\ 5 <= b + 1
      BY <2>2
    <3>3. After(text, 0, Blank)[5 + 1 - a] = IF b < 5 + 1 THEN 0 ELSE 5 + 3 - a
      BY <1>13, <3>1, <3>2
    <3> QED
      BY <1>10, <2>2, <3>3
  <2> QED
    BY <2>1, <2>2
<1>16. After(text, 16, Blank)[offset1] = major
  <2>1. CASE b < 6
    BY <1>1, <2>1, NoField
  <2>2. CASE ~(b < 6)
    <3>1. /\ k[7] # Blank /\ k[7] \in Digits(16)
          /\ k[7 + 1] = Blank /\ k[7 + 2] # Blank
      BY <1>3, <1>5
    <3>2. 7 \in 3 .. 11 /\ 7 <= b + 1
      BY <2>2
    <3>3. After(text, 16, Blank)[7 + 1 - a] = IF b < 7 + 1 THEN 0 ELSE 7 + 3 - a
      BY <1>13, <3>1, <3>2
    <3> QED
      BY <1>10, <2>2, <3>3
  <2> QED
    BY <2>1, <2>2
<1>17. After(text, 16, ":")[major] = minor
  <2>1. CASE b < 8
    BY <1>1, <2>1, NoField
  <2>2. CASE ~(b < 8)
    <3>1. /\ k[9] # ":" /\ k[9] \in Digits(16)
          /\ k[9 + 1] = ":" /\ k[9 + 2] # Blank
      BY <1>3, <1>5
    <3>2. 9 \in 3 .. 11 /\ 9 <= b + 1
      BY <2>2
    <3>3. After(text, 16, ":")[9 + 1 - a] = IF b < 9 + 1 THEN 0 ELSE 9 + 3 - a
      BY <1>13, <3>1, <3>2
    <3> QED
      BY <1>10, <2>2, <3>3
  <2> QED
    BY <2>1, <2>2
<1>18. After(text, 16, Blank)[minor] = inode
  <2>1. CASE b < 10
    BY <1>1, <2>1, NoField
  <2>2. CASE ~(b < 10)
    <3>1. /\ k[11] # Blank /\ k[11] \in Digits(16)
          /\ k[11 + 1] = Blank /\ k[11 + 2] # Blank
      BY <1>3, <1>5
    <3>2. 11 \in 3 .. 11 /\ 11 <= b + 1
      BY <2>2
    <3>3. After(text, 16, Blank)[11 + 1 - a] = IF b < 11 + 1 THEN 0 ELSE 11 + 3 - a
      BY <1>13, <3>1, <3>2
    <3> QED
      BY <1>10, <2>2, <3>3
  <2> QED
    BY <2>1, <2>2
<1>19. After(text, 10, Blank)[inode] = name
  <2>1. CASE b < 12
    BY <1>1, <2>1, NoField
  <2>2. CASE ~(b < 12)
    <3> DEFINE from == 14 - a
               at == 15 - a
               last == IF blanks = 0 THEN at ELSE 14 + blanks - a
    <3>1. /\ from \in 1 .. n + 1 /\ at \in Nat /\ last \in Nat
          /\ from <= at /\ at <= last
      BY <1>2, <1>10, <2>2
    <3>2. ASSUME NEW i \in from .. n, i < at
          PROVE  text[i] # Blank /\ text[i] \in Digits(10)
      <4>1. i = 13 - a + 1 /\ 13 \in 2 .. b
        BY <1>10, <3>2
      <4>2. text[i] = k[13]
        BY <1>11, <4>1
      <4> QED
        BY <1>3, <4>2, DigitsAre
    <3>3. ASSUME NEW i \in at .. n, i <= last
          PROVE  text[i] = Blank
      <4>1. 13 < b
        BY <1>10, <3>3
      <4>2. blanks # 0
        BY <1>9, <4>1
      <4> DEFINE x == i + a - 1
      <4>3. x \in 14 .. 13 + blanks /\ x \in 2 .. b /\ x - a + 1 = i
        BY <1>8, <1>10, <3>3, <4>2
      <4> HIDE DEF x
      <4> QED
        BY <1>4, <1>11, <4>3
    <3>4. ASSUME last < n
          PROVE  text[last + 1] # Blank
      <4>1. blanks # 0
        <5>1. 13 < b
          BY <1>10, <1>8, <3>4
        <5> QED
          BY <1>9, <5>1
      <4>2. last + 1 = (14 + blanks) - a + 1 /\ 14 + blanks \in 2 .. b
        BY <1>8, <1>10, <3>4, <4>1
      <4>3. 14 + blanks <= Len(k)
        BY <1>6, <1>8, <4>2
      <4> QED
        BY <1>4, <1>11, <4>2, <4>3
    <3> HIDE DEF from, at, last
    <3>5. After(text, 10, Blank)[from] =
            IF n < at THEN 0 ELSE IF last <= n THEN last + 1 ELSE n + 1
      <4>1. 10 = 0 \/ \A i \in from .. n : i < at => text[i] \in Digits(10)
        BY <3>2
      <4>2. Blank # Blank => last = at
        OBVIOUS
      <4>3. \A i \in from .. n : i < at => text[i] # Blank
        BY <3>2
      <4>4. \A i \in at .. n : i <= last => text[i] = Blank
        BY <3>3
      <4>5. last < n => text[last + 1] # Blank
        BY <3>4
      <4>6. text \in Seq(Chars)
        BY <1>1
      <4> QED
        BY <3>1, <4>1, <4>2, <4>3, <4>4, <4>5, <4>6, FieldEnds DEF n
    <3>6. from = 14 - a /\ at = 15 - a /\ (blanks # 0 => last = 14 + blanks - a)
          /\ (blanks = 0 => last = at)
      BY DEF from, at, last
    <3> QED
      BY <1>8, <1>10, <2>2, <3>5, <3>6, <1>9
  <2> QED
    BY <2>1, <2>2
<1> HIDE DEF end, flags, offset1, major, minor, inode, name
<1>20. FieldStarts(text) = [start |-> 1, end |-> end, flags |-> flags,
                            offset |-> offset1, inode |-> inode, filename |-> name]
  BY <1>12, <1>14, <1>15, <1>16, <1>17, <1>18, <1>19, Zenon DEF FieldStarts
<1> QED
  BY <1>20, Zenon DEF text, end, flags, offset1, inode, name, blanks, FieldsAt, NameAt

\* What is read of a field of one character.
LEMMA ShortToken ==
  ASSUME NEW text \in Seq(Chars), NEW from \in Nat \ {0}, from + 1 <= Len(text), NEW sep,
         text[from] # sep, text[from + 1] = sep
  PROVE  SubSeq(text, from, ExtractUntilChar(text, from, sep) - 1) = <<text[from]>>
<1> DEFINE at == from + 1
<1>1. at \in Nat /\ from \in Nat /\ from <= at /\ at - 1 = from /\ Len(text) \in Nat
  OBVIOUS
<1>2. \A i \in from .. Len(text) : i < at => i = from
  BY <1>1
<1>3. \A i \in from .. Len(text) : i < at => text[i] # sep
  BY <1>2
<1>4. at <= Len(text) /\ text[at] = sep
  OBVIOUS
<1> HIDE DEF at
<1>5. ExtractUntilChar(text, from, sep) = at
  <2>1. ExtractUntilChar(text, from, sep) = IF at <= Len(text) THEN at ELSE 0
    BY <1>1, <1>3, <1>4, ExtractedAt
  <2> QED
    BY <1>4, <2>1
<1>6. SubSeq(text, from, ExtractUntilChar(text, from, sep) - 1) = SubSeq(text, from, from)
  BY <1>1, <1>5
<1>7. text[from] \in Chars
  <2>1. from \in 1 .. Len(text)
    BY <1>1, <1>4
  <2> QED
    BY <2>1, ElementOfSeq
<1>8. /\ SubSeq(text, from, from) \in Seq(Chars) /\ Len(SubSeq(text, from, from)) = 1
      /\ SubSeq(text, from, from)[1] = text[from]
  <2>1. \A i \in from .. from : text[i] \in Chars
    BY <1>7
  <2>2. from \in Int
    OBVIOUS
  <2> DEFINE t == SubSeq(text, from, from)
  <2>3. /\ t \in Seq(Chars) /\ Len(t) = IF from <= from THEN from - from + 1 ELSE 0
        /\ \A i \in 1 .. from - from + 1 : t[i] = text[from + i - 1]
    BY <2>1, <2>2, SubSeqProperties
  <2>4. from - from + 1 = 1 /\ 1 \in 1 .. 1 /\ from + 1 - 1 = from
    OBVIOUS
  <2> HIDE DEF t
  <2>5. t[1] = text[from + 1 - 1]
    BY <2>3, <2>4
  <2> QED
    BY <2>3, <2>4, <2>5 DEF t
<1>9. SubSeq(text, from, from) = <<text[from]>>
  <2> DEFINE t == SubSeq(text, from, from)
             x == text[from]
             u == <<x>>
  <2>1. u \in Seq(Chars) /\ Len(u) = 1 /\ u[1] = x
    <3> HIDE DEF x
    <3> QED
      BY <1>7 DEF x
  <2>2. t \in Seq(Chars) /\ Len(t) = 1 /\ t[1] = x
    BY <1>8
  <2> HIDE DEF t, u, x
  <2>3. Len(t) = Len(u) /\ \A i \in 1 .. Len(t) : t[i] = u[i]
    BY <2>1, <2>2
  <2>4. t = u
    BY <2>1, <2>2, <2>3, SeqEqual
  <2> QED
    BY <2>4 DEF t, u, x
<1> QED
  BY <1>6, <1>9

\* A line that is cut off is parsed if a blank is left behind its inode, also
\* if it has lost its first character.
LEMMA HeadParsed ==
  ASSUME NEW e \in Mapping, NEW a \in {1, 2}, NEW b \in Nat,
         a <= b + 1, b <= Len(KernelLine(e))
  PROVE  ParseProcMapsLine(Piece(e, a, b)) <=> 14 <= b
<1>1. FieldStarts(Piece(e, a, b)).filename = NameAt(e, a, b)
  BY FieldsOfPiece DEF FieldsAt
<1>2. e.blanks \in Nat
  BY MappingFields
<1>3. FieldStarts(Piece(e, a, b)).filename # 0 <=> 14 <= b
  BY <1>1, <1>2 DEF NameAt
<1>4. 14 <= b => Piece(e, a, b) # << >>
  <2>1. a \in Nat \ {0}
    OBVIOUS
  <2>2. Len(Piece(e, a, b)) = b - a + 1
    BY <2>1, PieceOfLine
  <2>3. Piece(e, a, b) = << >> => Len(Piece(e, a, b)) = 0
    OBVIOUS
  <2> QED
    BY <2>2, <2>3
<1> QED
  BY <1>3, <1>4 DEF ParseProcMapsLine

\* The name is cut off with the line.
LEMMA NameOfPiece ==
  ASSUME NEW e \in Mapping, NEW a \in {1, 2}, NEW b \in Nat,
         14 <= b, b <= Len(KernelLine(e))
  PROVE  SubSeq(Piece(e, a, b), NameAt(e, a, b), Len(Piece(e, a, b)))
           = SubSeq(e.filename, 1, b - 13 - e.blanks)
<1> DEFINE text == Piece(e, a, b)
           k == KernelLine(e)
           blanks == e.blanks
           name == e.filename
           from == NameAt(e, a, b)
           n == b - 13 - blanks
           s == SubSeq(text, from, Len(text))
           t == SubSeq(name, 1, n)
<1>1. /\ text \in Seq(Chars) /\ Len(text) = b - a + 1
      /\ \A x \in a .. b : text[x - a + 1] = k[x]
  <2>1. a \in Nat \ {0} /\ a <= b + 1
    OBVIOUS
  <2> QED
    BY <2>1, PieceOfLine
<1>2. /\ blanks \in Nat /\ name \in Seq(Chars \ {NL}) /\ Len(name) \in Nat
      /\ Len(k) = 13 + blanks + Len(name)
      /\ \A i \in 1 .. Len(name) : k[13 + blanks + i] = name[i]
  BY MappingFields, LineLaidOut
<1>3. b <= 13 + blanks + Len(name) /\ a \in 1 .. 2
  BY <1>2
<1>4. from = IF 13 + blanks <= b THEN 15 + blanks - a ELSE b + 2 - a
  BY DEF NameAt
<1> HIDE DEF text, k, blanks, name, from
<1>5. from \in Int /\ Len(text) \in Int /\ 1 <= from /\ from <= Len(text) + 1
      /\ n \in Int /\ n <= Len(name)
      /\ Len(text) - from + 1 = IF 0 <= n THEN n ELSE 0
  <2>1. Len(text) = b - a + 1
    BY <1>1
  <2>2. blanks \in Nat /\ Len(name) \in Nat
    BY <1>2
  <2>3. CASE 13 + blanks <= b
    BY <1>3, <1>4, <2>1, <2>2, <2>3
  <2>4. CASE ~(13 + blanks <= b)
    BY <1>3, <1>4, <2>1, <2>2, <2>4
  <2> QED
    BY <2>3, <2>4
<1>6. /\ s \in Seq(Chars) /\ Len(s) = IF 0 <= n THEN n ELSE 0
      /\ \A i \in 1 .. Len(text) - from + 1 : s[i] = text[from + i - 1]
  <2>1. \A i \in from .. Len(text) : text[i] \in Chars
    <3>1. \A i \in from .. Len(text) : i \in 1 .. Len(text)
      BY <1>5
    <3> QED
      BY <1>1, <3>1, ElementOfSeq
  <2> HIDE DEF from, n
  <2>2. /\ s \in Seq(Chars)
        /\ Len(s) = IF from <= Len(text) THEN Len(text) - from + 1 ELSE 0
        /\ \A i \in 1 .. Len(text) - from + 1 : s[i] = text[from + i - 1]
    BY <1>5, <2>1, SubSeqProperties
  <2> QED
    BY <1>5, <2>2
<1>7. /\ t \in Seq(Chars) /\ Len(t) = IF 0 <= n THEN n ELSE 0
      /\ \A i \in 1 .. n : t[i] = name[i]
  <2>1. \A i \in 1 .. n : name[i] \in Chars
    <3>1. \A i \in 1 .. n : i \in 1 .. Len(name)
      BY <1>2, <1>5
    <3>2. \A i \in 1 .. Len(name) : name[i] \in Chars \ {NL}
      BY <1>2, ElementOfSeq
    <3> QED
      BY <3>1, <3>2
  <2> HIDE DEF from, n
  <2>2. /\ t \in Seq(Chars)
        /\ Len(t) = IF 1 <= n THEN n - 1 + 1 ELSE 0
        /\ \A i \in 1 .. n - 1 + 1 : t[i] = name[1 + i - 1]
    <3>1. 1 \in Int
      OBVIOUS
    <3> QED
      BY <1>5, <2>1, <3>1, SubSeqProperties
  <2>3. n - 1 + 1 = n /\ \A i \in 1 .. n : 1 + i - 1 = i
    BY <1>5
  <2> QED
    BY <1>5, <2>2, <2>3
<1>8. \A i \in 1 .. Len(s) : s[i] = t[i]
  <2> SUFFICES ASSUME NEW i \in 1 .. Len(s)
               PROVE  s[i] = t[i]
    OBVIOUS
  <2>1. i \in 1 .. n /\ 13 + blanks <= b
    BY <1>2, <1>6
  <2>2. from = 15 + blanks - a
    BY <1>4, <2>1
  <2> DEFINE x == 13 + blanks + i
  <2>3. x \in a .. b /\ x - a + 1 = from + i - 1
    BY <1>2, <1>3, <2>1, <2>2
  <2>4. i \in 1 .. Len(name) /\ i \in 1 .. Len(text) - from + 1
    BY <1>5, <2>1
  <2> HIDE DEF from, n, s, t
  <2>5. s[i] = k[x]
    <3> HIDE DEF x
    <3> QED
      BY <1>1, <1>6, <2>3, <2>4
  <2> QED
    BY <1>2, <1>7, <2>1, <2>4, <2>5
<1>9. Len(s) = Len(t)
  BY <1>6, <1>7
<1> HIDE DEF s, t
<1>10. s = t
  BY <1>6, <1>7, <1>8, <1>9, SeqEqual
<1> QED
  BY <1>10, Zenon DEF s, t, from, n, text, blanks, name

\* What is read of such a line: without its first character the start is missing,
\* which is taken for zero.
Remains(e, a, b) ==
  [start |-> IF a = 1 THEN e.start ELSE <<"0">>, end |-> e.end,
   flags |-> e.flags, offset |-> e.offset, inode |-> e.inode,
   filename |-> SubSeq(e.filename, 1, b - 13 - e.blanks)]

LEMMA PieceParsed ==
  ASSUME NEW e \in Mapping, NEW a \in {1, 2}, NEW b \in Nat,
         14 <= b, b <= Len(KernelLine(e))
  PROVE  Parsed(Piece(e, a, b)) = Remains(e, a, b)
<1> DEFINE text == Piece(e, a, b)
           k == KernelLine(e)
           token(from, sep) ==
             SubSeq(text, from, ExtractUntilChar(text, from, sep) - 1)
           number(from, sep) ==
             IF token(from, sep) = << >> THEN <<"0">> ELSE token(from, sep)
           starts == FieldStarts(text)
<1>1. /\ text \in Seq(Chars) /\ Len(text) = b - a + 1
      /\ \A x \in a .. b : text[x - a + 1] = k[x]
  <2>1. a \in Nat \ {0} /\ a <= b + 1
    OBVIOUS
  <2> QED
    BY <2>1, PieceOfLine
<1>2. /\ k[1] \in Digits(16) /\ k[2] = "-" /\ k[3] \in Digits(16) /\ k[4] = Blank
      /\ k[5] = "r-xp" /\ k[6] = Blank /\ k[7] \in Digits(16) /\ k[8] = Blank
      /\ k[13] \in Digits(16) /\ k[14] = Blank
  <2>1. k[14] = Blank
    <3>1. e.blanks = 0 => Len(k) = 13
      <4>1. e.blanks = 0 => e.filename = << >>
        BY MappingFields
      <4>2. Len(k) = 13 + e.blanks + Len(e.filename)
        BY LineLaidOut
      <4>3. e.filename = << >> => Len(e.filename) = 0
        OBVIOUS
      <4> HIDE DEF k
      <4> QED
        BY <4>1, <4>2, <4>3
    <3>2. e.blanks \in Nat
      BY MappingFields
    <3>3. 14 \in 14 .. 13 + e.blanks
      <4> HIDE DEF k
      <4>1. b <= Len(k)
        BY DEF k
      <4>2. e.blanks = 0 => b <= 13
        BY <3>1, <4>1
      <4> QED
        BY <3>2, <4>2
    <3>4. \A i \in 14 .. 13 + e.blanks : k[i] = Blank
      BY LineLaidOut
    <3> QED
      BY <3>3, <3>4
  <2>2. e.inode[1] \in Digits(16)
    BY MappingFields, OneDigit, DigitsAre
  <2> QED
    BY <2>1, <2>2, MappingFields, OneDigit, LineLaidOut
<1>3. /\ e.start = <<k[1]>> /\ e.end = <<k[3]>> /\ e.flags = <<k[5]>>
      /\ e.offset = <<k[7]>> /\ e.inode = <<k[13]>>
  <2>1. /\ e.start = <<e.start[1]>> /\ e.end = <<e.end[1]>> /\ e.flags = <<"r-xp">>
        /\ e.offset = <<e.offset[1]>> /\ e.inode = <<e.inode[1]>>
    BY MappingFields, OneDigit
  <2>2. /\ k[1] = e.start[1] /\ k[3] = e.end[1] /\ k[5] = "r-xp"
        /\ k[7] = e.offset[1] /\ k[13] = e.inode[1]
    BY LineLaidOut
  <2> HIDE DEF k
  <2> QED
    BY <2>1, <2>2
<1>4. starts = FieldsAt(e, a, b)
  <2>1. a <= b + 1
    OBVIOUS
  <2> QED
    BY <2>1, FieldsOfPiece
<1>5. /\ starts.start = 1 /\ starts.end = 3 + 1 - a /\ starts.flags = 5 + 1 - a
      /\ starts.offset = 7 + 1 - a /\ starts.inode = 13 + 1 - a
      /\ starts.filename = NameAt(e, a, b)
  BY <1>4 DEF FieldsAt
<1>6. SubSeq(text, NameAt(e, a, b), Len(text)) = SubSeq(e.filename, 1, b - 13 - e.blanks)
  BY NameOfPiece
<1>7. Parsed(text) =
         [start |-> number(starts.start, "-"), end |-> number(starts.end, Blank),
          flags |-> token(starts.flags, Blank),
          offset |-> number(starts.offset, Blank),
          inode |-> number(starts.inode, Blank),
          filename |-> SubSeq(text, starts.filename, Len(text))]
  BY Zenon DEF Parsed
<1> HIDE DEF text, k, starts
<1>8. ASSUME NEW sep, NEW x \in 3 .. 13, k[x] # sep, k[x + 1] = sep
      PROVE  token(x + 1 - a, sep) = <<k[x]>>
  <2> DEFINE from == x + 1 - a
  <2>1. from \in Nat \ {0} /\ from + 1 <= Len(text)
    BY <1>1
  <2>2. text[from] = k[x] /\ text[from + 1] = k[x + 1]
    <3>1. x \in a .. b /\ x + 1 \in a .. b /\ from = x - a + 1 /\ from + 1 = (x + 1) - a + 1
      OBVIOUS
    <3> HIDE DEF from
    <3> QED
      BY <1>1, <3>1
  <2> HIDE DEF from
  <2>3. token(from, sep) = <<text[from]>>
    BY <1>1, <1>8, <2>1, <2>2, ShortToken
  <2> QED
    BY <2>2, <2>3 DEF from
<1>9. /\ k[3] # Blank /\ k[5] # Blank /\ k[7] # Blank /\ k[13] # Blank /\ k[1] # "-"
  BY <1>2, DigitsAre
<1>10. /\ token(3 + 1 - a, Blank) = <<k[3]>> /\ token(5 + 1 - a, Blank) = <<k[5]>>
       /\ token(7 + 1 - a, Blank) = <<k[7]>> /\ token(13 + 1 - a, Blank) = <<k[13]>>
  <2> HIDE DEF token
  <2>1. /\ 3 \in 3 .. 13 /\ 5 \in 3 .. 13 /\ 7 \in 3 .. 13 /\ 13 \in 3 .. 13
        /\ 3 + 1 = 4 /\ 5 + 1 = 6 /\ 7 + 1 = 8 /\ 13 + 1 = 14
    OBVIOUS
  <2>2. /\ k[3 + 1] = Blank /\ k[5 + 1] = Blank /\ k[7 + 1] = Blank /\ k[13 + 1] = Blank
    BY <1>2, <2>1
  <2> QED
    BY <1>8, <1>9, <2>1, <2>2
<1>11. \A x : <<x>> # << >>
  OBVIOUS
<1>12. number(1, "-") = IF a = 1 THEN <<k[1]>> ELSE <<"0">>
  <2>1. CASE a = 1
    <3>1. text[1] = k[1] /\ text[1 + 1] = k[2]
      <4>1. 1 \in a .. b /\ 2 \in a .. b /\ 1 - a + 1 = 1 /\ 2 - a + 1 = 1 + 1
        BY <2>1
      <4> QED
        BY <1>1, <4>1
    <3>2. 1 \in Nat \ {0} /\ 1 + 1 <= Len(text)
      BY <1>1, <2>1
    <3>3. text[1] # "-" /\ text[1 + 1] = "-"
      BY <1>2, <1>9, <3>1
    <3>4. token(1, "-") = <<text[1]>>
      BY <1>1, <3>2, <3>3, ShortToken
    <3> HIDE DEF token
    <3> QED
      BY <1>11, <2>1, <3>1, <3>4
  <2>2. CASE a = 2
    <3>1. text[1] = k[2]
      <4>1. 2 \in a .. b /\ 2 - a + 1 = 1
        BY <2>2
      <4> QED
        BY <1>1, <4>1
    <3>2. 1 \in Nat /\ 1 <= 1 /\ 1 <= Len(text)
      BY <1>1, <2>2
    <3>3. text[1] = "-"
      BY <1>2, <3>1
    <3>4. \A i \in 1 .. Len(text) : i < 1 => text[i] # "-"
      OBVIOUS
    <3>5. ExtractUntilChar(text, 1, "-") = IF 1 <= Len(text) THEN 1 ELSE 0
      BY <1>1, <3>2, <3>3, <3>4, ExtractedAt
    <3>6. ExtractUntilChar(text, 1, "-") - 1 = 0
      BY <3>2, <3>5
    <3>7. SubSeq(text, 1, 0) = << >>
      BY SubSeqEmpty
    <3>8. token(1, "-") = << >>
      BY <3>6, <3>7
    <3> HIDE DEF token
    <3> QED
      BY <2>2, <3>8
  <2> QED
    BY <2>1, <2>2
<1> HIDE DEF token
<1>13. /\ number(3 + 1 - a, Blank) = <<k[3]>> /\ number(7 + 1 - a, Blank) = <<k[7]>>
       /\ number(13 + 1 - a, Blank) = <<k[13]>>
  BY <1>10, <1>11
<1> HIDE DEF number
<1>14. Parsed(text) = Remains(e, a, b)
  BY <1>3, <1>5, <1>6, <1>7, <1>10, <1>12, <1>13 DEF Remains
<1> QED
  BY <1>14 DEF text

\* The canonical line ends with the name, and is longer by as much as the name is.
LEMMA JoinedLength ==
  ASSUME NEW s \in Seq(Chars), NEW t \in Seq(Chars)
  PROVE  s \o t \in Seq(Chars) /\ Len(s \o t) = Len(s) + Len(t)
  BY ConcatProperties

\* What precedes the name.
Columns(e) ==
  e.start \o <<"-">> \o e.end \o <<Blank>> \o e.flags \o <<Blank>> \o e.offset
  \o <<Blank, "0", ":", "0", Blank>> \o e.inode \o Blanks(InodeWidth - Len(e.inode) + 1)
Width == Len(<<Blank, "0", ":", "0", Blank>>) + Len(Blanks(InodeWidth)) + 8

LEMMA CanonicalLength ==
  ASSUME NEW e, e.start \in Number(16), e.end \in Number(16), e.flags = <<"r-xp">>,
         e.offset \in Number(16), e.inode \in Number(10), e.filename \in Seq(Chars)
  PROVE  /\ Canonical(e) \in Seq(Chars)
         /\ Len(Canonical(e)) = Width + Len(e.filename)
<1> DEFINE blanks == Blanks(InodeWidth - Len(e.inode) + 1)
           device == <<Blank, "0", ":", "0", Blank>>
<1>1. /\ e.start \in Seq(Chars) /\ e.end \in Seq(Chars) /\ e.flags \in Seq(Chars)
      /\ e.offset \in Seq(Chars) /\ e.inode \in Seq(Chars)
      /\ Len(e.start) = 1 /\ Len(e.end) = 1 /\ Len(e.flags) = 1 /\ Len(e.offset) = 1
      /\ Len(e.inode) = 1
  <2>1. <<"r-xp">> \in Seq(Chars) /\ Len(<<"r-xp">>) = 1
    BY DEF Chars
  <2>2. \A t \in Number(16) \cup Number(10) : t \in Seq(Chars) /\ Len(t) = 1
    <3>1. ASSUME NEW base \in {10, 16}, NEW t \in Number(base)
          PROVE  t \in Seq(Chars) /\ Len(t) = 1
      <4>1. t \in Seq(Chars \ {NL}) /\ Len(t) = 1
        BY OneDigit
      <4> QED
        BY <4>1, SeqMonotonic
    <3> QED
      BY <3>1
  <2> QED
    BY <2>1, <2>2
<1>2. /\ <<"-">> \in Seq(Chars) /\ <<Blank>> \in Seq(Chars) /\ device \in Seq(Chars)
      /\ Len(<<"-">>) = 1 /\ Len(<<Blank>>) = 1
  BY DEF Chars, Digits
<1>3. blanks \in Seq(Chars) /\ Len(blanks) = Len(Blanks(InodeWidth))
  <2>1. InodeWidth \in Nat /\ InodeWidth - Len(e.inode) + 1 = InodeWidth
    BY <1>1, MapsLineAssumption DEF MapsLineAssumption
  <2>2. Blanks(InodeWidth) \in Seq(Chars)
    <3>1. Blanks(InodeWidth) \in Seq(Chars \ {NL})
      BY <2>1, BlanksTyped
    <3> QED
      BY <3>1, SeqMonotonic
  <2> QED
    BY <2>1, <2>2
<1>4. Canonical(e) = Columns(e) \o e.filename
  BY Zenon DEF Canonical, Columns
<1>5. Width = Len(device) + Len(Blanks(InodeWidth)) + 8
  BY Zenon DEF Width
<1> DEFINE dash == <<"-">>
           gap == <<Blank>>
<1>6. Columns(e) = e.start \o dash \o e.end \o gap \o e.flags \o gap \o e.offset
                   \o device \o e.inode \o blanks
  BY Zenon DEF Columns
<1>7. dash \in Seq(Chars) /\ gap \in Seq(Chars) /\ Len(dash) = 1 /\ Len(gap) = 1
  BY <1>2
<1> HIDE DEF device, blanks, dash, gap
<1>8. Columns(e) \in Seq(Chars) /\ Len(Columns(e)) = Len(device) + Len(blanks) + 8
  <2> DEFINE c == e.start \o dash \o e.end \o gap \o e.flags \o gap \o e.offset
                  \o device \o e.inode \o blanks
  <2>1. device \in Seq(Chars) /\ blanks \in Seq(Chars)
    BY <1>2, <1>3
  <2>2. e.start \in Seq(Chars) /\ e.end \in Seq(Chars) /\ e.flags \in Seq(Chars)
        /\ e.offset \in Seq(Chars) /\ e.inode \in Seq(Chars)
        /\ dash \in Seq(Chars) /\ gap \in Seq(Chars)
    BY <1>1, <1>7
  <2>3. /\ c \in Seq(Chars)
        /\ Len(c) = Len(e.start) + Len(dash) + Len(e.end) + Len(gap) + Len(e.flags)
                    + Len(gap) + Len(e.offset) + Len(device) + Len(e.inode) + Len(blanks)
    BY <2>1, <2>2
  <2>4. Len(device) \in Nat /\ Len(blanks) \in Nat
    BY <2>1
  <2>5. Columns(e) = c
    BY <1>6
  <2> HIDE DEF c
  <2>6. Len(c) = Len(device) + Len(blanks) + 8
    BY <1>1, <1>7, <2>3, <2>4
  <2> QED
    BY <2>3, <2>5, <2>6
<1>9. /\ Canonical(e) \in Seq(Chars)
      /\ Len(Canonical(e)) = Len(Columns(e)) + Len(e.filename)
  BY <1>4, <1>8, JoinedLength
<1> QED
  BY <1>3, <1>5, <1>8, <1>9

\* What the rest of a line is written as.
LEMMA RemainsDamaged ==
  ASSUME NEW e \in Mapping, NEW a \in {1, 2}, NEW b \in Nat,
         14 <= b, b <= Len(KernelLine(e))
  PROVE  /\ Damaged(Canonical(Remains(e, a, b)), e)
         /\ a = 1 /\ b = Len(KernelLine(e)) =>
              Canonical(Remains(e, a, b)) = Canonical(e)
<1> DEFINE r == Remains(e, a, b)
           name == e.filename
           n == b - 13 - e.blanks
           cut == SubSeq(name, 1, n)
           s == IF a = 1 THEN e.start ELSE <<"0">>
           lost == Len(Canonical(e)) - Len(Canonical(r))
           Cut(m) == [e EXCEPT !.start = s, !.filename = SubSeq(@, 1, Len(@) - m)]
<1>1. /\ name \in Seq(Chars) /\ Len(name) \in Nat /\ e.blanks \in Nat
      /\ Len(KernelLine(e)) = 13 + e.blanks + Len(name)
  <2>1. name \in Seq(Chars \ {NL})
    BY MappingFields
  <2> QED
    BY <2>1, MappingFields, LineLaidOut, SeqMonotonic
<1>2. n \in Int /\ n <= Len(name)
  BY <1>1
<1>3. cut \in Seq(Chars) /\ Len(cut) = IF 0 <= n THEN n ELSE 0
  <2>1. \A i \in 1 .. n : name[i] \in Chars
    <3>1. \A i \in 1 .. n : i \in 1 .. Len(name)
      BY <1>1, <1>2
    <3> QED
      BY <1>1, <3>1, ElementOfSeq
  <2>2. 1 \in Int
    OBVIOUS
  <2> HIDE DEF n, name
  <2>3. cut \in Seq(Chars) /\ Len(cut) = IF 1 <= n THEN n - 1 + 1 ELSE 0
    BY <1>2, <2>1, <2>2, SubSeqProperties
  <2> QED
    BY <1>2, <2>3
<1>4. /\ e.start \in Number(16) /\ e.end \in Number(16) /\ e.flags = <<"r-xp">>
      /\ e.offset \in Number(16) /\ e.inode \in Number(10)
  BY MappingFields
<1>5. /\ r.start = s /\ r.end = e.end /\ r.flags = e.flags /\ r.offset = e.offset
      /\ r.inode = e.inode /\ r.filename = cut
  BY DEF Remains
<1>6. s \in Number(16) /\ s \in {e.start, <<"0">>}
  BY <1>4 DEF Number, Digits
<1> HIDE DEF r, name, cut, s, n
<1>7. Len(Canonical(r)) = Width + Len(cut)
  BY <1>3, <1>4, <1>5, <1>6, CanonicalLength
<1>8. Len(Canonical(e)) = Width + Len(name)
  <2>1. e.filename \in Seq(Chars)
    BY <1>1 DEF name
  <2>2. Len(Canonical(e)) = Width + Len(e.filename)
    BY <1>4, <2>1, CanonicalLength
  <2> QED
    BY <2>2 DEF name
<1>9. Width \in Nat
  <2>1. InodeWidth \in Nat
    BY MapsLineAssumption DEF MapsLineAssumption
  <2>2. Len(Blanks(InodeWidth)) \in Nat
    BY <2>1, BlanksTyped
  <2>3. Len(<<Blank, "0", ":", "0", Blank>>) = 5
    OBVIOUS
  <2> QED
    BY <2>2, <2>3 DEF Width
<1>10. lost = Len(name) - Len(cut) /\ lost \in 0 .. Len(name)
  BY <1>1, <1>2, <1>3, <1>7, <1>8, <1>9
<1> HIDE DEF lost
<1>11. SubSeq(name, 1, Len(name) - lost) = cut
  <2>1. Len(name) - lost = Len(cut)
    BY <1>1, <1>3, <1>10
  <2>2. CASE 0 <= n
    BY <1>3, <2>1, <2>2 DEF cut
  <2>3. CASE ~(0 <= n)
    <3>1. cut = << >>
      BY <1>2, <2>3, SubSeqEmpty DEF cut
    <3>2. SubSeq(name, 1, 0) = << >>
      BY SubSeqEmpty
    <3> QED
      BY <1>3, <2>1, <2>3, <3>1, <3>2
  <2> QED
    BY <2>2, <2>3
<1>12. Canonical(Cut(lost)) = Canonical(r)
  <2> DEFINE c == Cut(lost)
  <2>1. /\ c.start = s /\ c.end = e.end /\ c.flags = e.flags /\ c.offset = e.offset
        /\ c.inode = e.inode /\ c.filename = cut
    <3>1. e \in [start : Number(16), end : Number(16), flags : {<<"r-xp">>},
                 offset : Number(16), major : Number(16), minor : Number(16),
                 inode : Number(10), blanks : Nat, filename : Seq(Chars \ {NL})]
      BY DEF Mapping
    <3> QED
      BY <1>11, <3>1 DEF name
  <2> HIDE DEF c
  <2>2. Canonical(c) = Canonical(r)
    BY <1>5, <2>1, Zenon DEF Canonical
  <2> QED
    BY <2>2 DEF c
<1>13. Damaged(Canonical(r), e)
  <2>1. \E t \in {e.start, <<"0">>} :
          Canonical(r) = Canonical([e EXCEPT !.start = t,
                           !.filename = SubSeq(@, 1, Len(@) - lost)])
    BY <1>6, <1>12, Zenon
  <2> QED
    BY <1>10, <2>1, Zenon DEF Damaged, lost, name
<1>14. ASSUME a = 1, b = Len(KernelLine(e))
       PROVE  Canonical(r) = Canonical(e)
  <2>1. n = Len(name)
    BY <1>1, <1>14, SMTT(30) DEF n, name
  <2>2. cut = name
    BY <1>1, <2>1, SubSeqFull DEF cut
  <2>3. s = e.start
    BY <1>14 DEF s
  <2> QED
    BY <1>5, <2>2, <2>3, Zenon DEF Canonical, name
<1> QED
  BY <1>13, <1>14 DEF r

\* The first field that is read is a number.
LEMMA FirstField ==
  ASSUME NEW text \in Seq(Chars), ParseProcMapsLine(text)
  PROVE  \E x \in 1 .. Len(text) :
           text[x] = "-" /\ \A i \in 1 .. x - 1 : text[i] \in Digits(16)
<1> DEFINE n == Len(text) + 1
           end == After(text, 16, "-")[1]
           flags == After(text, 16, Blank)[end]
           offset1 == After(text, 0, Blank)[flags]
           major == After(text, 16, Blank)[offset1]
           minor == After(text, 16, ":")[major]
           inode == After(text, 16, Blank)[minor]
           name == After(text, 10, Blank)[inode]
           x == ExtractUntilChar(text, 1, "-")
<1>1. FieldStarts(text).filename = name
  <2>1. FieldStarts(text) = [start |-> 1, end |-> end, flags |-> flags,
                      offset |-> offset1, inode |-> inode, filename |-> name]
    BY Zenon DEF FieldStarts
  <2> HIDE DEF name, inode, offset1, flags, end
  <2> QED
    BY <2>1
<1>2. name # 0
  BY <1>1 DEF ParseProcMapsLine
<1>3. end \in 0 .. n
  BY FieldAfter
<1>4. end = IF 1 = 0 \/ x = 0 THEN 0
        ELSE IF ~Converts(SubSeq(text, 1, x - 1), 16) THEN 0
        ELSE SkipWhileWhitespace(text, x, "-") + 1
  <2>1. 1 \in 0 .. Len(text) + 1
    OBVIOUS
  <2> QED
    BY <2>1, Zenon DEF After
<1> HIDE DEF end
<1>5. flags \in 0 .. n /\ (flags # 0 => end # 0)
  BY <1>3, FieldAfter
<1> HIDE DEF flags
<1>6. offset1 \in 0 .. n /\ (offset1 # 0 => flags # 0)
  BY <1>5, FieldAfter
<1> HIDE DEF offset1
<1>7. major \in 0 .. n /\ (major # 0 => offset1 # 0)
  BY <1>6, FieldAfter
<1> HIDE DEF major
<1>8. minor \in 0 .. n /\ (minor # 0 => major # 0)
  BY <1>7, FieldAfter
<1> HIDE DEF minor
<1>9. inode \in 0 .. n /\ (inode # 0 => minor # 0)
  BY <1>8, FieldAfter
<1> HIDE DEF inode
<1>10. name # 0 => inode # 0
  BY <1>9, FieldAfter
<1> HIDE DEF name
<1>11. end # 0
  BY <1>2, <1>5, <1>6, <1>7, <1>8, <1>9, <1>10
<1>12. x # 0 /\ Converts(SubSeq(text, 1, x - 1), 16)
  BY <1>11, <1>4
<1>13. x \in 1 .. Len(text) /\ text[x] = "-"
  <2>1. 1 \in Nat
    OBVIOUS
  <2> QED
    BY <1>12, <2>1, Extracted
<1> HIDE DEF x
<1>14. ASSUME NEW i \in 1 .. x - 1
       PROVE  text[i] \in Digits(16)
  <2> DEFINE t == SubSeq(text, 1, x - 1)
  <2>1. \A j \in 1 .. x - 1 : text[j] \in Chars
    <3>1. \A j \in 1 .. x - 1 : j \in 1 .. Len(text)
      BY <1>13
    <3> QED
      BY <3>1, ElementOfSeq
  <2>2. 1 \in Int /\ x - 1 \in Int
    BY <1>13
  <2>3. /\ t \in Seq(Chars)
        /\ Len(t) = IF 1 <= x - 1 THEN x - 1 - 1 + 1 ELSE 0
        /\ \A j \in 1 .. x - 1 - 1 + 1 : t[j] = text[1 + j - 1]
    BY <2>1, <2>2, SubSeqProperties
  <2>4. \A j \in DOMAIN t : t[j] \in Digits(16)
    <3>1. 16 # 0
      OBVIOUS
    <3>2. Converts(t, 16)
      BY <1>12
    <3> HIDE DEF t
    <3> QED
      BY <3>1, <3>2, Zenon DEF Converts
  <2> HIDE DEF t
  <2>5. i \in 1 .. Len(t) /\ i \in 1 .. x - 1 - 1 + 1 /\ 1 + i - 1 = i
    BY <1>13, <1>14, <2>3
  <2>6. i \in DOMAIN t
    BY <2>3, <2>5
  <2> QED
    BY <2>3, <2>4, <2>5, <2>6
<1> QED
  BY <1>13, <1>14

\* What follows the first two characters of a line is no entry.
LEMMA TailSilent ==
  ASSUME NEW e \in Mapping, NEW a \in Nat, 3 <= a, NEW b \in Nat,
         a <= b + 1, b <= Len(KernelLine(e))
  PROVE  ~ParseProcMapsLine(Piece(e, a, b))
<1> DEFINE text == Piece(e, a, b)
           k == KernelLine(e)
           blanks == e.blanks
           name == e.filename
<1>1. /\ text \in Seq(Chars) /\ Len(text) = b - a + 1
      /\ \A x \in a .. b : text[x - a + 1] = k[x]
  <2>1. a \in Nat \ {0}
    OBVIOUS
  <2> QED
    BY <2>1, PieceOfLine
<1>2. /\ blanks \in Nat /\ Len(name) \in Nat /\ name \in Seq(Chars \ {NL})
      /\ Len(k) = 13 + blanks + Len(name)
  BY MappingFields, LineLaidOut
<1>3. blanks = 0 => Len(name) = 0
  <2>1. blanks = 0 => name = << >>
    BY MappingFields
  <2>2. name = << >> => Len(name) = 0
    OBVIOUS
  <2> QED
    BY <2>1, <2>2
<1>4. b <= 13 + blanks + Len(name)
  BY <1>2
<1>5. /\ k[3] # "-" /\ k[4] # "-" /\ k[5] # "-" /\ k[6] # "-" /\ k[7] # "-"
      /\ k[8] # "-" /\ k[9] # "-" /\ k[10] # "-" /\ k[11] # "-" /\ k[12] # "-"
      /\ k[13] # "-" /\ k[12] = Blank
  <2>1. /\ k[3] \in Digits(16) /\ k[4] = Blank
        /\ k[5] = "r-xp" /\ k[6] = Blank /\ k[7] \in Digits(16) /\ k[8] = Blank
        /\ k[9] \in Digits(16) /\ k[10] = ":" /\ k[11] \in Digits(16)
        /\ k[12] = Blank /\ k[13] \in Digits(10)
    BY MappingFields, OneDigit, LineLaidOut
  <2>2. k[13] \in Digits(16)
    BY <2>1, DigitsAre
  <2> HIDE DEF k
  <2> QED
    BY <2>1, <2>2, DigitsAre
<1>6. \A i \in 14 .. 13 + blanks : k[i] = Blank
  BY LineLaidOut
<1>7. \A i \in 1 .. Len(name) : k[13 + blanks + i] = name[i]
  BY LineLaidOut
<1>8. \A i, j \in 1 .. Len(name) : ~ParseProcMapsLine(SubSeq(name, i, j))
  BY MappingFields
<1> SUFFICES ASSUME ParseProcMapsLine(text)
             PROVE  FALSE
  BY Zenon DEF text
<1>9. a <= b
  <2>1. text # << >>
    BY DEF ParseProcMapsLine
  <2>2. Len(text) # 0
    <3> HIDE DEF text
    <3> QED
      BY <1>1, <2>1, EmptySeq
  <2> HIDE DEF text
  <2> QED
    BY <1>1, <2>2
<1>10. CASE a <= 13 + blanks
  <2> HIDE DEF text, k, blanks, name
  <2>1. PICK x \in 1 .. Len(text) :
          text[x] = "-" /\ \A i \in 1 .. x - 1 : text[i] \in Digits(16)
    BY <1>1, FirstField
  <2> DEFINE y == x + a - 1
  <2>2. y \in a .. b /\ y - a + 1 = x
    BY <1>1, <2>1
  <2>3. k[y] = "-"
    <3> HIDE DEF y
    <3> QED
      BY <1>1, <2>1, <2>2
  <2>4. \A z \in a .. y - 1 : k[z] # Blank
    <3> SUFFICES ASSUME NEW z \in a .. y - 1
                 PROVE  k[z] # Blank
      OBVIOUS
    <3>1. z \in a .. b /\ z - a + 1 \in 1 .. x - 1
      BY <2>2
    <3>2. text[z - a + 1] = k[z]
      BY <1>1, <3>1
    <3>3. text[z - a + 1] \in Digits(16)
      BY <2>1, <3>1
    <3> QED
      BY <3>2, <3>3, DigitsAre
  <2>5. y \in Nat /\ y <= b
    BY <2>2
  <2> HIDE DEF y
  <2>6. y >= 14
    <3>1. y = 3 \/ y = 4 \/ y = 5 \/ y = 6 \/ y = 7 \/ y = 8 \/ y = 9 \/ y = 10
          \/ y = 11 \/ y = 12 \/ y = 13 \/ y >= 14
      BY <2>2, <2>5
    <3> QED
      BY <1>5, <2>3, <3>1
  <2>7. y > 13 + blanks
    <3>1. CASE y <= 13 + blanks
      <4>1. y \in 14 .. 13 + blanks
        BY <1>2, <2>5, <2>6, <3>1
      <4>2. k[y] = Blank
        BY <1>6, <4>1
      <4> QED
        BY <2>3, <4>2, DigitsAre
    <3> QED
      BY <1>2, <2>5, <3>1
  <2>8. CASE a <= 12
    <3>1. 12 \in a .. y - 1
      BY <2>6, <2>5, <2>8
    <3> QED
      BY <1>5, <2>4, <3>1
  <2>9. CASE a > 12
    <3>1. blanks # 0
      BY <1>2, <1>3, <1>4, <2>5, <2>7
    <3> DEFINE z == IF a = 13 THEN 14 ELSE a
    <3>2. z \in 14 .. 13 + blanks /\ z \in a .. y - 1
      BY <1>2, <1>10, <2>5, <2>7, <2>9, <3>1
    <3> HIDE DEF z
    <3> QED
      BY <1>6, <2>4, <3>2
  <2> QED
    BY <2>8, <2>9
<1>11. CASE ~(a <= 13 + blanks)
  <2> HIDE DEF text, k, blanks, name
  <2> DEFINE i == a - 13 - blanks
             j == b - 13 - blanks
             t == SubSeq(name, i, j)
  <2>1. i \in 1 .. Len(name) /\ j \in 1 .. Len(name) /\ i <= j /\ j - i + 1 = b - a + 1
    <3>1. blanks \in Nat /\ Len(name) \in Nat
      BY <1>2
    <3> QED
      BY <1>4, <1>9, <1>11, <3>1
  <2>2. ~ParseProcMapsLine(t)
    <3> HIDE DEF i, j
    <3> QED
      BY <1>8, <2>1
  <2>3. /\ t \in Seq(Chars) /\ Len(t) = b - a + 1
        /\ \A l \in 1 .. b - a + 1 : t[l] = name[i + l - 1]
    <3>1. \A l \in i .. j : name[l] \in Chars
      <4>1. \A l \in i .. j : l \in 1 .. Len(name)
        BY <2>1
      <4>2. \A l \in 1 .. Len(name) : name[l] \in Chars \ {NL}
        BY <1>2, ElementOfSeq
      <4> QED
        BY <4>1, <4>2
    <3>2. i \in Int /\ j \in Int
      BY <2>1
    <3> HIDE DEF i, j, name
    <3>3. /\ t \in Seq(Chars) /\ Len(t) = IF i <= j THEN j - i + 1 ELSE 0
          /\ \A l \in 1 .. j - i + 1 : t[l] = name[i + l - 1]
      BY <3>1, <3>2, SubSeqProperties
    <3> HIDE DEF t
    <3> QED
      BY <2>1, <3>3
  <2>4. ASSUME NEW l \in 1 .. Len(text)
        PROVE  text[l] = t[l]
    <3> HIDE DEF t
    <3>1. l \in 1 .. b - a + 1
      BY <1>1, <2>4
    <3> DEFINE y == a + l - 1
    <3>2. y \in a .. b /\ y - a + 1 = l /\ y = 13 + blanks + (i + l - 1)
          /\ i + l - 1 \in 1 .. Len(name)
      <4>1. blanks \in Nat /\ Len(name) \in Nat
        BY <1>2
      <4> QED
        BY <1>4, <1>11, <3>1, <4>1
    <3> HIDE DEF y, i
    <3>3. text[l] = k[y]
      BY <1>1, <3>2
    <3>4. k[y] = name[i + l - 1]
      BY <1>7, <3>2
    <3> QED
      BY <2>3, <3>1, <3>3, <3>4
  <2> HIDE DEF t
  <2>5. text = t
    BY <1>1, <2>3, <2>4, SeqEqual
  <2> QED
    BY <2>2, <2>5
<1> QED
  BY <1>10, <1>11

-----------------------------------------------------------------------------
(* The text of a file.                                                     *)

\* The line of a mapping with its newline.
LEMMA KernelLineTyped ==
  ASSUME NEW e \in Mapping
  PROVE  KernelLine(e) \in Seq(Chars) /\ <<NL>> \in Seq(Chars)
<1>1. KernelLine(e) \in Seq(Chars \ {NL})
  BY LineLaidOut
<1>2. Chars \ {NL} \subseteq Chars
  OBVIOUS
<1>3. <<NL>> \in Seq(Chars)
  BY DEF Chars
<1> QED
  BY <1>1, <1>2, <1>3, SeqMonotonic

\* The text of a file, put together line by line.
LEMMA TextRecursion ==
  ASSUME NEW file \in Seq(Mapping)
  PROVE  \E h \in [0 .. Len(file) -> Seq(Chars)] :
           /\ MapsText(file) = h[Len(file)]
           /\ h[0] = << >>
           /\ \A i \in 1 .. Len(file) :
                h[i] = h[i - 1] \o KernelLine(file[i]) \o <<NL>>
<1> DEFINE M == Len(file)
           V == Seq(Chars)
           line(i) == KernelLine(file[i])
           first == << >>
           next == [i \in 1 .. M |-> [q \in V |-> q \o line(i) \o <<NL>>]]
           body(f) == [i \in 0 .. M |->
                        IF i = 0 THEN << >> ELSE f[i - 1] \o line(i) \o <<NL>>]
           upto == CHOOSE f : f = body(f)
<1>1. MapsText(file) = upto[M]
  BY Zenon DEF MapsText
<1>2. M \in Nat
  OBVIOUS
<1>3. ASSUME NEW i \in 1 .. M
      PROVE  line(i) \in V
  <2>1. file[i] \in Mapping
    BY ElementOfSeq
  <2> QED
    BY <2>1, KernelLineTyped
<1> HIDE DEF M
<1>4. ASSUME NEW i \in 1 .. M, NEW q \in V
      PROVE  q \o line(i) \o <<NL>> \in V
  <2>1. line(i) \in V
    BY <1>3
  <2>2. <<NL>> \in V
    BY DEF Chars
  <2> DEFINE l == line(i)
             n == <<NL>>
  <2> HIDE DEF l, n
  <2>3. q \o l \in V
    BY <2>1, ConcatProperties DEF l
  <2>4. (q \o l) \o n \in V
    BY <2>2, <2>3, ConcatProperties DEF n
  <2> QED
    BY <2>4 DEF l, n
<1>5. first \in V /\ next \in [1 .. M -> [V -> V]]
  <2>1. << >> \in V
    OBVIOUS
  <2> HIDE DEF V, line
  <2> QED
    BY <1>4, <2>1
<1>6. PICK h \in [0 .. M -> V] : IsIteration(h, M, first, next)
  <2> HIDE DEF V, first, next
  <2> QED
    BY <1>2, <1>5, Iterates
<1> HIDE DEF line
<1>7. h[0] = << >> /\ \A i \in 1 .. M : h[i] = h[i - 1] \o line(i) \o <<NL>>
  <2>1. h[0] = << >> /\ \A i \in 1 .. M : h[i] = next[i][h[i - 1]]
    BY <1>6, Zenon DEF IsIteration
  <2>2. ASSUME NEW i \in 1 .. M
        PROVE  h[i] = h[i - 1] \o line(i) \o <<NL>>
    <3>1. i - 1 \in 0 .. M
      BY <1>2
    <3> DEFINE q == h[i - 1]
    <3>2. q \in V
      BY <1>6, <3>1
    <3> HIDE DEF V, q
    <3>3. next[i][q] = q \o line(i) \o <<NL>>
      BY <3>2
    <3> QED
      BY <2>1, <3>3 DEF q
  <2> QED
    BY <2>1, <2>2
<1>8. h = body(h)
  <2>1. ASSUME NEW n \in 0 .. M
        PROVE  h[n] = IF n = 0 THEN << >> ELSE h[n - 1] \o line(n) \o <<NL>>
    <3>1. n = 0 \/ n \in 1 .. M
      BY <1>2
    <3> QED
      BY <1>7, <3>1, Zenon
  <2> HIDE DEF V
  <2>2. h = [n \in 0 .. M |-> h[n]]
    BY <1>6
  <2> QED
    BY <2>1, <2>2, Zenon
<1>9. upto = body(upto)
  <2> HIDE DEF body
  <2> QED
    BY <1>8, Zenon
<1> HIDE DEF upto
<1>10. upto[0] = << >> /\ \A i \in 1 .. M : upto[i] = upto[i - 1] \o line(i) \o <<NL>>
  <2>1. ASSUME NEW n \in 0 .. M
        PROVE  upto[n] = IF n = 0 THEN << >> ELSE upto[n - 1] \o line(n) \o <<NL>>
    BY <1>9, Zenon
  <2>2. 0 \in 0 .. M /\ \A i \in 1 .. M : i \in 0 .. M /\ i # 0
    BY <1>2
  <2> QED
    BY <2>1, <2>2, Zenon
<1> DEFINE S == {i \in 0 .. M : upto[i] = h[i]}
<1>11. 0 .. M \subseteq S
  <2>1. 0 \in S
    BY <1>2, <1>7, <1>10
  <2>2. ASSUME NEW n \in 0 .. M - 1, n \in S
        PROVE  n + 1 \in S
    <3>1. n + 1 \in 1 .. M /\ n + 1 \in 0 .. M /\ (n + 1) - 1 = n
      BY <1>2
    <3>2. upto[n + 1] = upto[n] \o line(n + 1) \o <<NL>>
      BY <1>10, <3>1
    <3>3. h[n + 1] = h[n] \o line(n + 1) \o <<NL>>
      BY <1>7, <3>1
    <3>4. upto[n] = h[n]
      BY <2>2
    <3>5. upto[n + 1] = h[n + 1]
      BY <3>2, <3>3, <3>4, Zenon
    <3> QED
      BY <3>1, <3>5
  <2> HIDE DEF S
  <2> QED
    BY <1>2, <2>1, <2>2, UpTo
<1>12. upto[M] = h[M]
  BY <1>2, <1>11
<1> QED
  BY <1>1, <1>6, <1>7, <1>12, Zenon DEF M, line

\* The text of the first mappings of a file, and where it ends.
Text(file, m) == MapsText(SubSeq(file, 1, m))
End(file, m) == Len(Text(file, m))

LEMMA PrefixOfFile ==
  ASSUME NEW file \in Seq(Mapping), NEW m \in 0 .. Len(file)
  PROVE  /\ SubSeq(file, 1, m) \in Seq(Mapping) /\ Len(SubSeq(file, 1, m)) = m
         /\ \A i \in 1 .. m : SubSeq(file, 1, m)[i] = file[i]
<1> DEFINE p == SubSeq(file, 1, m)
<1>1. \A i \in 1 .. m : file[i] \in Mapping
  BY ElementOfSeq
<1>2. 1 \in Int /\ m \in Int /\ m >= 0
  OBVIOUS
<1>3. /\ p \in Seq(Mapping) /\ Len(p) = IF 1 <= m THEN m - 1 + 1 ELSE 0
      /\ \A i \in 1 .. m - 1 + 1 : p[i] = file[1 + i - 1]
  BY <1>1, <1>2, SubSeqProperties
<1>4. m - 1 + 1 = m /\ \A i \in 1 .. m : 1 + i - 1 = i
  BY <1>2
<1> HIDE DEF p
<1>5. /\ p \in Seq(Mapping) /\ Len(p) = m
      /\ \A i \in 1 .. m : p[i] = file[i]
  BY <1>2, <1>3, <1>4
<1> QED
  BY <1>5 DEF p

\* Each mapping adds its line.
LEMMA TextExtended ==
  ASSUME NEW file \in Seq(Mapping)
  PROVE  /\ Text(file, 0) = << >>
         /\ Text(file, Len(file)) = MapsText(file)
         /\ \A m \in 0 .. Len(file) : Text(file, m) \in Seq(Chars)
         /\ \A m \in 1 .. Len(file) :
              Text(file, m) = Text(file, m - 1) \o KernelLine(file[m]) \o <<NL>>
<1> DEFINE M == Len(file)
           V == Seq(Chars)
<1>1. M \in Nat
  OBVIOUS
<1>2. PICK h \in [0 .. M -> V] :
        /\ MapsText(file) = h[M]
        /\ h[0] = << >>
        /\ \A i \in 1 .. M : h[i] = h[i - 1] \o KernelLine(file[i]) \o <<NL>>
  BY TextRecursion
<1>3. ASSUME NEW m \in 0 .. M
      PROVE  Text(file, m) = h[m]
  <2> DEFINE p == SubSeq(file, 1, m)
  <2>1. p \in Seq(Mapping) /\ Len(p) = m /\ \A i \in 1 .. m : p[i] = file[i]
    BY PrefixOfFile
  <2> HIDE DEF p, V
  <2>2. PICK g \in [0 .. Len(p) -> Seq(Chars)] :
          /\ MapsText(p) = g[Len(p)]
          /\ g[0] = << >>
          /\ \A i \in 1 .. Len(p) : g[i] = g[i - 1] \o KernelLine(p[i]) \o <<NL>>
    BY <2>1, TextRecursion
  <2>3. /\ MapsText(p) = g[m] /\ g[0] = << >>
        /\ \A i \in 1 .. m : g[i] = g[i - 1] \o KernelLine(file[i]) \o <<NL>>
    <3>1. /\ MapsText(p) = g[m]
          /\ \A i \in 1 .. m : g[i] = g[i - 1] \o KernelLine(p[i]) \o <<NL>>
      BY <2>1, <2>2, Zenon
    <3> QED
      BY <2>1, <2>2, <3>1, Zenon
  <2> DEFINE S == {i \in 0 .. m : g[i] = h[i]}
  <2>4. m \in Nat /\ m <= M
    BY <1>1
  <2> HIDE DEF M
  <2>5. 0 .. m \subseteq S
    <3>1. 0 \in S
      BY <1>2, <2>3, <2>4
    <3>2. ASSUME NEW n \in 0 .. m - 1, n \in S
          PROVE  n + 1 \in S
      <4>1. n + 1 \in 1 .. m /\ n + 1 \in 1 .. M /\ n + 1 \in 0 .. m /\ (n + 1) - 1 = n
        BY <1>1, <2>4
      <4>2. g[n + 1] = g[n] \o KernelLine(file[n + 1]) \o <<NL>>
        <5>1. g[n + 1] = g[(n + 1) - 1] \o KernelLine(file[n + 1]) \o <<NL>>
          BY <2>3, <4>1, Zenon
        <5> QED
          BY <4>1, <5>1
      <4>3. h[n + 1] = h[n] \o KernelLine(file[n + 1]) \o <<NL>>
        <5>1. h[n + 1] = h[(n + 1) - 1] \o KernelLine(file[n + 1]) \o <<NL>>
          BY <1>2, <4>1, Zenon
        <5> QED
          BY <4>1, <5>1
      <4>4. g[n] = h[n]
        BY <3>2
      <4>5. g[n + 1] = h[n + 1]
        BY <4>2, <4>3, <4>4, Zenon
      <4> QED
        BY <4>1, <4>5
    <3> HIDE DEF S
    <3> QED
      BY <2>4, <3>1, <3>2, UpTo
  <2>6. g[m] = h[m]
    BY <2>4, <2>5
  <2> QED
    BY <2>3, <2>6, Zenon DEF Text, p
<1>4. 0 \in 0 .. M /\ M \in 0 .. M
  BY <1>1
<1>5. ASSUME NEW m \in 1 .. M
      PROVE  Text(file, m) = Text(file, m - 1) \o KernelLine(file[m]) \o <<NL>>
  <2>1. m \in 0 .. M /\ m - 1 \in 0 .. M
    BY <1>1
  <2>2. Text(file, m) = h[m] /\ Text(file, m - 1) = h[m - 1]
    BY <1>3, <2>1
  <2> QED
    BY <1>2, <2>2, Zenon
<1>6. \A m \in 0 .. M : Text(file, m) \in V
  BY <1>2, <1>3
<1>7. Text(file, 0) = << >>
  BY <1>2, <1>3, <1>4
<1>8. Text(file, M) = MapsText(file)
  BY <1>2, <1>3, <1>4
<1> QED
  BY <1>5, <1>6, <1>7, <1>8

\* Where the lines are in the text: each is followed by a newline, and a text is
\* not changed by what is behind it.
LEMMA TextLaidOut ==
  ASSUME NEW file \in Seq(Mapping)
  PROVE  /\ MapsText(file) \in Seq(Chars)
         /\ End(file, 0) = 0 /\ End(file, Len(file)) = Len(MapsText(file))
         /\ \A m \in 0 .. Len(file) : End(file, m) \in Nat
         /\ \A m \in 1 .. Len(file) :
              End(file, m) = End(file, m - 1) + Len(KernelLine(file[m])) + 1
         /\ \A i, j \in 0 .. Len(file) : i <= j => End(file, i) <= End(file, j)
         /\ \A i, j \in 0 .. Len(file) : i < j => End(file, i) < End(file, j)
         /\ \A m \in 0 .. Len(file) : \A x \in 1 .. End(file, m) :
              MapsText(file)[x] = Text(file, m)[x]
         /\ \A m \in 1 .. Len(file) :
              /\ MapsText(file)[End(file, m)] = NL
              /\ \A x \in 1 .. Len(KernelLine(file[m])) :
                   MapsText(file)[End(file, m - 1) + x] = KernelLine(file[m])[x]
<1> DEFINE M == Len(file)
           T(m) == Text(file, m)
           E(m) == End(file, m)
           K(m) == KernelLine(file[m])
<1>1. M \in Nat
  OBVIOUS
<1>2. T(0) = << >> /\ T(M) = MapsText(file)
  BY TextExtended
<1>3. \A m \in 0 .. M : T(m) \in Seq(Chars) /\ E(m) = Len(T(m)) /\ E(m) \in Nat
  <2>1. \A m \in 0 .. M : T(m) \in Seq(Chars)
    BY TextExtended
  <2> QED
    BY <2>1, LenProperties DEF End
<1>4. \A m \in 1 .. M : T(m) = T(m - 1) \o K(m) \o <<NL>>
  BY TextExtended
<1>5. \A m \in 1 .. M : K(m) \in Seq(Chars) /\ Len(K(m)) \in Nat
  <2>1. \A m \in 1 .. M : file[m] \in Mapping
    BY ElementOfSeq
  <2> QED
    BY <2>1, KernelLineTyped, LenProperties
<1> HIDE DEF M, T, E, K
\* One step.
<1>6. ASSUME NEW m \in 1 .. M
      PROVE  /\ E(m) = E(m - 1) + Len(K(m)) + 1
             /\ \A x \in 1 .. E(m - 1) : T(m)[x] = T(m - 1)[x]
             /\ \A x \in 1 .. Len(K(m)) : T(m)[E(m - 1) + x] = K(m)[x]
             /\ T(m)[E(m)] = NL
  <2> DEFINE s == T(m - 1)
             k == K(m)
             q == s \o k
             C == Chars
  <2>1. m \in 0 .. M /\ m - 1 \in 0 .. M
    BY <1>1
  <2>2. s \in Seq(C) /\ k \in Seq(C) /\ E(m - 1) = Len(s) /\ Len(s) \in Nat /\ Len(k) \in Nat
        /\ NL \in C
    BY <1>3, <1>5, <2>1 DEF Chars
  <2>3. T(m) = q \o <<NL>> /\ E(m) = Len(T(m))
    BY <1>3, <1>4, <2>1
  <2> HIDE DEF s, k, C
  <2>4. /\ q \in Seq(C) /\ Len(q) = Len(s) + Len(k)
        /\ \A i \in 1 .. Len(s) : q[i] = s[i]
        /\ \A i \in 1 .. Len(k) : q[Len(s) + i] = k[i]
    <3>1. s \in Seq(C) /\ k \in Seq(C)
      BY <2>2
    <3> QED
      BY <3>1, Joined
  <2> HIDE DEF q
  <2> DEFINE n == Len(s) + Len(k)
  <2>5. n \in Nat /\ Len(q) = n /\ q \in Seq(C) /\ NL \in C
    BY <2>2, <2>4
  <2> HIDE DEF n
  <2>6. /\ Len(q \o <<NL>>) = n + 1
        /\ (q \o <<NL>>)[n + 1] = NL
        /\ \A i \in 1 .. n : (q \o <<NL>>)[i] = q[i]
    BY <2>5, Extended
  <2> DEFINE t == T(m)
  <2>7. /\ Len(t) = n + 1 /\ t[n + 1] = NL /\ \A i \in 1 .. n : t[i] = q[i]
    BY <2>3, <2>6
  <2> HIDE DEF t
  <2>8. \A x \in 1 .. Len(s) : t[x] = s[x]
    <3>1. \A x \in 1 .. Len(s) : x \in 1 .. n
      BY <2>2 DEF n
    <3> QED
      BY <2>4, <2>7, <3>1
  <2>9. \A x \in 1 .. Len(k) : t[Len(s) + x] = k[x]
    <3>1. \A x \in 1 .. Len(k) : Len(s) + x \in 1 .. n
      BY <2>2 DEF n
    <3> QED
      BY <2>4, <2>7, <3>1
  <2>10. E(m) = n + 1
    BY <2>3, <2>7 DEF t
  <2>11. t[E(m)] = NL
    BY <2>7, <2>10
  <2> QED
    BY <2>2, <2>8, <2>9, <2>10, <2>11 DEF s, k, t, n
\* What is behind a text does not change it.
<1>7. ASSUME NEW m \in 0 .. M
      PROVE  \A j \in 0 .. M : m <= j =>
               /\ E(m) <= E(j)
               /\ m < j => E(m) < E(j)
               /\ \A x \in 1 .. E(m) : T(j)[x] = T(m)[x]
  <2> DEFINE P(j) == /\ E(m) <= E(j)
                     /\ m < j => E(m) < E(j)
                     /\ \A x \in 1 .. E(m) : T(j)[x] = T(m)[x]
             S == {d \in 0 .. M - m : P(m + d)}
             N == M - m
  <2>1. m \in Nat /\ m <= M /\ N \in Nat
    BY <1>1
  <2>2. 0 \in S
    <3>1. m + 0 = m /\ 0 \in 0 .. M - m /\ E(m) \in Nat
      BY <1>3, <2>1
    <3>2. P(m)
      BY <3>1
    <3> HIDE DEF P
    <3> QED
      BY <3>1, <3>2
  <2>3. ASSUME NEW d \in 0 .. N - 1, d \in S
        PROVE  d + 1 \in S
    <3> DEFINE j == m + d
               i == j + 1
    <3>1. P(j)
      BY <2>3
    <3>2. i \in 1 .. M /\ j \in 0 .. M /\ i - 1 = j /\ i = m + (d + 1) /\ i \in 0 .. M
          /\ d + 1 \in 0 .. M - m
      BY <1>1, <2>1
    <3>3. /\ E(i) = E(i - 1) + Len(K(i)) + 1 /\ Len(K(i)) \in Nat
          /\ \A x \in 1 .. E(i - 1) : T(i)[x] = T(i - 1)[x]
      <4> HIDE DEF i
      <4> QED
        BY <1>5, <1>6, <3>2
    <3>4. E(i) = E(j) + Len(K(i)) + 1 /\ \A x \in 1 .. E(j) : T(i)[x] = T(j)[x]
      BY <3>2, <3>3
    <3> HIDE DEF i, j
    <3>5. E(j) \in Nat /\ E(m) \in Nat
      BY <1>3, <3>2
    <3>6. P(i)
      BY <3>1, <3>3, <3>4, <3>5
    <3> HIDE DEF P
    <3> QED
      BY <3>2, <3>6
  <2>4. 0 .. N \subseteq S
    <3> HIDE DEF S, N
    <3> QED
      BY <2>1, <2>2, <2>3, UpTo
  <2> SUFFICES ASSUME NEW j \in 0 .. M, m <= j
               PROVE  P(j)
    OBVIOUS
  <2>5. j - m \in 0 .. N /\ m + (j - m) = j
    BY <1>1, <2>1
  <2>6. j - m \in S
    <3> HIDE DEF S, N
    <3> QED
      BY <2>4, <2>5
  <2>7. P(m + (j - m))
    <3> HIDE DEF P
    <3> QED
      BY <2>6
  <2> HIDE DEF P
  <2> QED
    BY <2>5, <2>7
<1>8. M \in 0 .. M /\ 0 \in 0 .. M
  BY <1>1
<1>9. MapsText(file) \in Seq(Chars) /\ E(0) = 0 /\ E(M) = Len(MapsText(file))
  <2>1. Len(<< >>) = 0
    OBVIOUS
  <2> QED
    BY <1>2, <1>3, <1>8, <2>1
<1>10. \A m \in 0 .. M : \A x \in 1 .. E(m) : MapsText(file)[x] = T(m)[x]
  <2>1. \A m \in 0 .. M : m <= M
    BY <1>1
  <2> QED
    BY <1>2, <1>7, <1>8, <2>1
<1>11. ASSUME NEW m \in 1 .. M
       PROVE  /\ MapsText(file)[E(m)] = NL
              /\ \A x \in 1 .. Len(K(m)) : MapsText(file)[E(m - 1) + x] = K(m)[x]
  <2>1. m \in 0 .. M /\ m - 1 \in 0 .. M
    BY <1>1
  <2>2. E(m) = E(m - 1) + Len(K(m)) + 1 /\ E(m - 1) \in Nat /\ Len(K(m)) \in Nat
    BY <1>3, <1>5, <1>6, <2>1
  <2>3. E(m) \in 1 .. E(m) /\ \A x \in 1 .. Len(K(m)) : E(m - 1) + x \in 1 .. E(m)
    BY <2>2
  <2> QED
    BY <1>6, <1>10, <2>1, <2>3
<1>12. \A i, j \in 0 .. M : (i <= j => E(i) <= E(j)) /\ (i < j => E(i) < E(j))
  <2>1. \A i, j \in 0 .. M : i < j => i <= j
    BY <1>1
  <2> QED
    BY <1>7, <2>1
<1> QED
  BY <1>3, <1>6, <1>9, <1>10, <1>11, <1>12 DEF M, T, E, K

\* A stretch of the text without a newline belongs to a single line, and reaches
\* its end if a newline follows; it does not reach the end of the file.
LEMMA StretchOfLine ==
  ASSUME NEW file \in Seq(Mapping), NEW m \in 0 .. Len(file) - 1,
         NEW p \in Nat, NEW q \in Nat, p <= q, q <= Len(MapsText(file)),
         End(file, m) <= p, p <= End(file, m) + Len(KernelLine(file[m + 1])),
         \A x \in p + 1 .. q : MapsText(file)[x] # NL
  PROVE  /\ q <= End(file, m) + Len(KernelLine(file[m + 1]))
         /\ SubSeq(MapsText(file), p + 1, q) =
              Piece(file[m + 1], p - End(file, m) + 1, q - End(file, m))
         /\ q < Len(MapsText(file))
         /\ MapsText(file)[q + 1] = NL =>
              q = End(file, m) + Len(KernelLine(file[m + 1]))
<1> DEFINE M == Len(file)
           text == MapsText(file)
           E == End(file, m)
           F == End(file, m + 1)
           e == file[m + 1]
           k == KernelLine(e)
<1>1. M \in Nat /\ m + 1 \in 1 .. M /\ (m + 1) - 1 = m /\ m \in 0 .. M /\ m + 1 \in 0 .. M
      /\ M \in 0 .. M /\ m + 1 <= M
  OBVIOUS
<1>2. e \in Mapping
  BY <1>1, ElementOfSeq
<1>3. /\ k \in Seq(Chars \ {NL}) /\ Len(k) \in Nat
      /\ \A x \in 1 .. Len(k) : k[x] \in Chars \ {NL}
  BY <1>2, LineLaidOut, LenProperties, ElementOfSeq
<1>4. text \in Seq(Chars) /\ Len(text) \in Nat
  BY TextLaidOut, LenProperties
<1>5. E \in Nat /\ F \in Nat /\ F <= Len(text)
  BY <1>1, TextLaidOut
<1>6. /\ End(file, m + 1) = End(file, (m + 1) - 1) + Len(KernelLine(file[m + 1])) + 1
      /\ text[End(file, m + 1)] = NL
      /\ \A x \in 1 .. Len(KernelLine(file[m + 1])) :
            text[End(file, (m + 1) - 1) + x] = KernelLine(file[m + 1])[x]
  <2> DEFINE n == m + 1
  <2>1. n \in 1 .. M
    BY <1>1
  <2> HIDE DEF n
  <2>2. /\ End(file, n) = End(file, n - 1) + Len(KernelLine(file[n])) + 1
        /\ text[End(file, n)] = NL
        /\ \A x \in 1 .. Len(KernelLine(file[n])) :
            text[End(file, n - 1) + x] = KernelLine(file[n])[x]
    BY <2>1, TextLaidOut
  <2> QED
    BY <2>2 DEF n
<1>7. /\ F = E + Len(k) + 1 /\ text[F] = NL
      /\ \A x \in 1 .. Len(k) : text[E + x] = k[x]
  BY <1>1, <1>6
<1>8. E <= p /\ p <= E + Len(k) /\ q <= Len(text) /\ \A x \in p + 1 .. q : text[x] # NL
  OBVIOUS
<1> HIDE DEF M, text, E, F, e, k
<1>9. q <= E + Len(k)
  <2> SUFFICES ASSUME ~(q <= E + Len(k))
               PROVE  FALSE
    OBVIOUS
  <2>1. F \in p + 1 .. q
    BY <1>3, <1>5, <1>7, <1>8
  <2> QED
    BY <1>7, <1>8, <2>1
<1>10. q < Len(text)
  BY <1>3, <1>4, <1>5, <1>7, <1>9
<1>11. ASSUME text[q + 1] = NL
       PROVE  q = E + Len(k)
  <2> SUFFICES ASSUME q < E + Len(k)
               PROVE  FALSE
    BY <1>3, <1>5, <1>9
  <2> DEFINE x == q + 1 - E
  <2>1. x \in 1 .. Len(k) /\ E + x = q + 1
    BY <1>3, <1>5, <1>8
  <2> HIDE DEF x
  <2>2. text[q + 1] = k[x]
    BY <1>7, <2>1
  <2> QED
    BY <1>3, <1>11, <2>1, <2>2
<1> DEFINE a == p - E + 1
           b == q - E
           s == SubSeq(text, p + 1, q)
           t == Piece(e, a, b)
<1>12. a \in Nat \ {0} /\ b \in Nat /\ a <= b + 1 /\ b <= Len(k) /\ q - p = b - a + 1
       /\ q - p \in Nat
  BY <1>3, <1>5, <1>8, <1>9
<1>13. /\ t \in Seq(Chars) /\ Len(t) = q - p
       /\ \A x \in a .. b : t[x - a + 1] = k[x]
  <2> HIDE DEF a, b
  <2>1. a \in Nat \ {0} /\ b \in Nat /\ a <= b + 1 /\ b <= Len(KernelLine(e))
    BY <1>12 DEF k
  <2>2. /\ t \in Seq(Chars) /\ Len(t) = b - a + 1
        /\ \A x \in a .. b : t[x - a + 1] = KernelLine(e)[x]
    BY <1>2, <2>1, PieceOfLine
  <2> QED
    BY <1>12, <2>2 DEF k
<1>14. /\ s \in Seq(Chars) /\ Len(s) = q - p
       /\ \A i \in 1 .. q - p : s[i] = text[p + i]
  <2>1. \A x \in p + 1 .. q : text[x] \in Chars
    <3>1. \A x \in p + 1 .. q : x \in 1 .. Len(text)
      BY <1>4, <1>8
    <3> QED
      BY <1>4, <3>1, ElementOfSeq
  <2>2. p + 1 \in Int /\ q \in Int
    OBVIOUS
  <2>3. /\ s \in Seq(Chars) /\ Len(s) = IF p + 1 <= q THEN q - (p + 1) + 1 ELSE 0
        /\ \A i \in 1 .. q - (p + 1) + 1 : s[i] = text[(p + 1) + i - 1]
    BY <2>1, <2>2, SubSeqProperties, SMTT(30)
  <2>4. q - (p + 1) + 1 = q - p /\ \A i \in 1 .. q - p : (p + 1) + i - 1 = p + i
    OBVIOUS
  <2> HIDE DEF s
  <2> QED
    BY <1>12, <2>3, <2>4
<1>15. ASSUME NEW i \in 1 .. q - p
       PROVE  s[i] = t[i]
  <2> DEFINE x == p - E + i
  <2>1. x \in a .. b /\ x - a + 1 = i /\ x \in 1 .. Len(k) /\ E + x = p + i
    BY <1>5, <1>8, <1>12
  <2> HIDE DEF x, a, b, s, t
  <2>2. t[i] = k[x]
    BY <1>13, <2>1
  <2>3. text[p + i] = k[x]
    BY <1>7, <2>1
  <2> QED
    BY <1>14, <2>2, <2>3
<1>16. s = t
  <2> HIDE DEF s, t
  <2> QED
    BY <1>13, <1>14, <1>15, SeqEqual
<1> QED
  BY <1>9, <1>10, <1>11, <1>16 DEF text, E, k, e

-----------------------------------------------------------------------------
(* The buffer and its pointers. The invariant is what TypeOK says of them, *)
(* and their order.                                                        *)

Pointers ==
  /\ maps \in Seq(Chars)
  /\ offset \in 0 .. Len(maps)
  /\ buf \in [Cells -> Contents]
  /\ stext \in Cells
  /\ etext \in Cells
  /\ nextline \in Cells
  /\ stext <= nextline
  /\ nextline <= etext

Terminated == \E c \in stext .. EBuf : buf[c] = NUL

\* memchr() finds the first newline.
LEMMA FirstNewline ==
  ASSUME NEW b, NEW from \in Nat, NEW to \in Nat
  PROVE  \/ /\ FindNewline(b, from, to) = -1
            /\ \A c \in from .. to - 1 : b[c] # NL
         \/ /\ FindNewline(b, from, to) \in from .. to - 1
            /\ b[FindNewline(b, from, to)] = NL
            /\ \A c \in from .. FindNewline(b, from, to) - 1 : b[c] # NL
<1> DEFINE at == {c \in from .. to - 1 : b[c] = NL}
<1>1. CASE at = {}
  BY <1>1 DEF FindNewline
<1>2. CASE at # {}
  <2>1. \E c \in at : \A d \in at : c <= d
    <3>1. at \in SUBSET Nat
      OBVIOUS
    <3> HIDE DEF at
    <3> QED
      BY <1>2, <3>1, LeastExists
  <2>2. FindNewline(b, from, to) = CHOOSE c \in at : \A d \in at : c <= d
    BY <1>2, Zenon DEF FindNewline
  <2> DEFINE nl == FindNewline(b, from, to)
  <2>3. nl \in at /\ \A d \in at : nl <= d
    <3> HIDE DEF at
    <3> QED
      BY <2>1, <2>2
  <2> HIDE DEF nl
  <2>4. nl \in from .. to - 1 /\ b[nl] = NL
    BY <2>3
  <2>5. \A c \in from .. nl - 1 : b[c] # NL
    <3> SUFFICES ASSUME NEW c \in from .. nl - 1, b[c] = NL
                 PROVE  FALSE
      OBVIOUS
    <3>1. c \in at
      BY <2>4
    <3> QED
      BY <2>3, <2>4, <3>1
  <2> QED
    BY <2>4, <2>5 DEF nl
<1> QED
  BY <1>1, <1>2

\* If there is a sentinel, it is the last one that memchr() can find.
LEMMA SentinelFound ==
  ASSUME NEW b, NEW end \in Nat, b[end] = NL
  PROVE  LET nl == FindNewline(b, 0, end + 1)
         IN  /\ nl \in 0 .. end
             /\ b[nl] = NL
             /\ \A c \in 0 .. nl - 1 : b[c] # NL
<1> DEFINE nl == FindNewline(b, 0, end + 1)
<1>1. /\ end + 1 \in Nat /\ 0 \in Nat /\ end \in 0 .. (end + 1) - 1
      /\ (end + 1) - 1 = end
  OBVIOUS
<1>2. \/ /\ nl = -1
         /\ \A c \in 0 .. (end + 1) - 1 : b[c] # NL
      \/ /\ nl \in 0 .. (end + 1) - 1
         /\ b[nl] = NL
         /\ \A c \in 0 .. nl - 1 : b[c] # NL
  BY <1>1, FirstNewline
<1> HIDE DEF nl
<1>3. nl \in 0 .. end /\ b[nl] = NL /\ \A c \in 0 .. nl - 1 : b[c] # NL
  BY <1>1, <1>2
<1> QED
  BY <1>3, Zenon DEF nl

LEMMA BufferSize == EBuf \in Nat /\ 0 \in Cells /\ EBuf \in Cells
  BY ProcMapsAssumption DEF ProcMapsAssumption, EBuf, Cells

\* Overwriting a newline at or before the end of the text keeps the order.
LEMMA TerminateOrdered ==
  ASSUME NEW b \in [Cells -> Contents], NEW start \in Cells,
         NEW end \in Cells, NEW nl \in start .. end,
         Terminate(b, nl, start, end)
  PROVE  /\ buf' \in [Cells -> Contents]
         /\ stext' \in Cells /\ etext' \in Cells /\ nextline' \in Cells
         /\ stext' <= nextline' /\ nextline' <= etext'
         /\ Terminated'
<1>1. nl \in Cells
  BY BufferSize DEF Cells
<1>2. buf'[nl] = NUL /\ nl \in stext' .. EBuf
  BY <1>1, BufferSize DEF Terminate, Cells
<1> QED
  BY <1>1, <1>2, BufferSize DEF Terminate, Terminated, Cells, Contents

LEMMA BufferedOrdered ==
  ASSUME Pointers, TakeBufferedLine, UNCHANGED maps
  PROVE  Pointers' /\ Terminated'
<1> DEFINE nl == FindNewline(buf, nextline, etext)
<1>1. nl \in nextline .. etext - 1
  BY FirstNewline, BufferSize DEF TakeBufferedLine, Pointers, Cells
<1>2. nl \in nextline .. etext
  BY <1>1, BufferSize DEF Pointers, Cells
<1>3. Terminate(buf, nl, nextline, etext) /\ UNCHANGED offset
  BY DEF TakeBufferedLine
<1> HIDE DEF nl
<1> QED
  BY <1>2, <1>3, TerminateOrdered DEF Pointers

\* A refill never writes beyond the sentinel's cell, and never reads more than
\* the file holds.
LEMMA ReadFits ==
  ASSUME Pointers, NEW r \in Reads(etext - nextline)
  PROVE  /\ r.n \in 0 .. Len(maps) - offset
         /\ etext - nextline + r.n \in Cells
<1> DEFINE room == EBuf - (etext - nextline)
<1>1. room \in Nat /\ Unread \in Nat
  BY BufferSize DEF Pointers, Cells, Unread
<1>2. /\ Least(room, Unread) \in Nat
      /\ Least(room, Unread) <= room /\ Least(room, Unread) <= Unread
  BY <1>1 DEF Least
<1>3. r.n = Least(room, Unread) \/ r.n \in 0 .. Least(room - 1, Unread) \/ r.n = 0
  BY DEF Reads
<1>4. Least(room - 1, Unread) <= room /\ Least(room - 1, Unread) <= Unread
      /\ Least(room - 1, Unread) \in Int
  BY <1>1 DEF Least
<1>5. r.n \in Nat /\ r.n <= room /\ r.n <= Unread
  BY <1>1, <1>2, <1>3, <1>4
<1> QED
  BY <1>5, BufferSize DEF Pointers, Cells, Unread

\* The buffer after the refill: the text goes up to the sentinel, and is text if
\* it was before.
LEMMA RefilledText ==
  ASSUME Pointers, NEW r \in Reads(etext - nextline)
  PROVE  LET count == etext - nextline
             b == Refilled(nextline, count, r)
             end == count + r.n
         IN  /\ count \in Nat /\ end \in Cells
             /\ r.n \in 0 .. Len(maps) - offset
             /\ b \in [Cells -> Contents]
             /\ b[end] = NL
             /\ (\A c \in Cells : c < etext => buf[c] \in Chars \cup {NUL}) =>
                  \A c \in Cells : c < end => b[c] \in Chars \cup {NUL}
<1> DEFINE count == etext - nextline
           end == count + r.n
           b == Refilled(nextline, count, r)
<1>1. r.n \in 0 .. Len(maps) - offset /\ end \in Cells /\ count \in Nat
  BY ReadFits, BufferSize DEF Pointers, Cells
<1>2. ASSUME NEW c \in Cells, c < count
      PROVE  nextline + c \in Cells /\ nextline + c < etext
  BY <1>2, BufferSize DEF Pointers, Cells
<1>3. ASSUME NEW c \in Cells, ~(c < count), c < end
      PROVE  maps[offset + c - count + 1] \in Chars
  <2>1. offset + c - count + 1 \in 1 .. Len(maps)
    BY <1>1, <1>3 DEF Pointers, Cells
  <2> QED
    BY <2>1 DEF Pointers
<1>4. b \in [Cells -> Contents]
  <2>1. \A c \in Cells : buf[c] \in Contents
    BY DEF Pointers
  <2>2. NL \in Chars
    BY DEF Chars
  <2> QED
    BY <1>2, <1>3, <2>1, <2>2 DEF Refilled, Contents
<1>5. b[end] = NL
  BY <1>1 DEF Refilled, Cells
<1>6. ASSUME \A c \in Cells : c < etext => buf[c] \in Chars \cup {NUL},
             NEW c \in Cells, c < end
      PROVE  b[c] \in Chars \cup {NUL}
  BY <1>2, <1>3, <1>6 DEF Refilled
<1> HIDE DEF count, end, b
<1> QED
  BY <1>1, <1>4, <1>5, <1>6, Zenon DEF count, end, b

LEMMA RefillOrdered ==
  ASSUME Pointers, Refill, UNCHANGED maps
  PROVE  Pointers' /\ Terminated'
<1> DEFINE count == etext - nextline
<1>1. PICK r \in Reads(count) :
        LET b == Refilled(nextline, count, r)
            end == count + r.n
        IN  /\ Terminate(b, FindNewline(b, 0, end + 1), 0, end)
            /\ offset' = offset + r.n
  BY DEF Refill
<1> DEFINE b == Refilled(nextline, count, r)
           end == count + r.n
           nl == FindNewline(b, 0, end + 1)
<1>2. r.n \in 0 .. Len(maps) - offset /\ end \in Cells
      /\ b \in [Cells -> Contents] /\ b[end] = NL
  BY RefilledText
<1>3. nl \in 0 .. end
  <2>1. end \in Nat
    BY <1>2 DEF Cells
  <2> HIDE DEF b, end
  <2> QED
    BY <1>2, <2>1, SentinelFound
<1>4. Terminate(b, nl, 0, end) /\ offset' = offset + r.n
  BY <1>1
<1>5. offset' \in 0 .. Len(maps)
  BY <1>2, <1>4 DEF Pointers
<1> HIDE DEF b, end, nl
<1> QED
  BY <1>2, <1>3, <1>4, <1>5, BufferSize, TerminateOrdered DEF Pointers

\* The constructor leaves a terminated string in the buffer, and garbage.
LEMMA PathTyped ==
  ASSUME NEW b \in [Cells -> Contents]
  PROVE  /\ ConstructFilename(b, KBufSize) \in [Cells -> Contents]
         /\ \E c \in Cells : ConstructFilename(b, KBufSize)[c] = NUL
         /\ [c \in Cells |-> Garbage] \in [Cells -> Contents]
<1> DEFINE end == IF Len(Path) < KBufSize THEN Len(Path) ELSE KBufSize - 1
<1>1. Len(Path) = 2 /\ Path[1] = "n" /\ Path[2] = "n"
  BY DEF Path
<1>2. KBufSize \in Nat \ {0} /\ EBuf = KBufSize - 1
  BY ProcMapsAssumption DEF ProcMapsAssumption, EBuf
<1>3. end \in 0 .. 2 /\ end \in Cells
  BY <1>1, <1>2 DEF Cells
<1>4. ConstructFilename(b, KBufSize) =
        [c \in Cells |-> IF c < end THEN Path[c + 1]
                        ELSE IF c = end THEN NUL ELSE b[c]]
  BY DEF ConstructFilename
<1>5. ASSUME NEW c \in Cells, c < end
      PROVE  Path[c + 1] \in Contents
  <2>1. c + 1 = 1 \/ c + 1 = 2
    BY <1>3, <1>5, BufferSize DEF Cells
  <2> QED
    BY <1>1, <2>1 DEF Contents, Chars
<1>6. NUL \in Contents /\ Garbage \in Contents
  BY DEF Contents
<1> HIDE DEF end
<1> QED
  BY <1>3, <1>4, <1>5, <1>6

LEMMA InitPointers == Init => Pointers /\ Terminated
<1> SUFFICES ASSUME Init
             PROVE  Pointers /\ Terminated
  OBVIOUS
<1>1. maps \in Seq(Chars)
  <2>1. mappings \in Seq(Mapping) /\ maps = MapsText(mappings)
    BY ProcMapsAssumption DEF Init, ProcMapsAssumption
  <2> QED
    BY <2>1, TextLaidOut
<1>2. buf \in [Cells -> Contents] /\ \E c \in Cells : buf[c] = NUL
  BY PathTyped, BufferSize DEF Init
<1> HIDE DEF Init
<1> QED
  <2>1. offset = 0 /\ stext = 0 /\ etext = 0 /\ nextline = 0
    BY DEF Init
  <2> QED
    BY <1>1, <1>2, <2>1, BufferSize DEF Pointers, Terminated, Cells

LEMMA NextPointers ==
  Pointers /\ Terminated /\ [Next]_vars => Pointers' /\ Terminated'
<1>1. ASSUME Pointers, Turn
      PROVE  Pointers' /\ Terminated'
  BY <1>1, BufferedOrdered, RefillOrdered DEF Turn
<1>2. ASSUME Pointers, Terminated, Remap
      PROVE  Pointers' /\ Terminated'
  <2>1. PICK file \in MapsFiles : maps' = MapsText(file) /\ offset <= Len(maps')
    BY <1>2, Zenon DEF Remap
  <2>2. file \in Seq(Mapping)
    BY ProcMapsAssumption DEF ProcMapsAssumption
  <2>3. maps' \in Seq(Chars)
    BY <2>1, <2>2, TextLaidOut
  <2>4. UNCHANGED <<offset, bufVars>>
    BY <1>2 DEF Remap
  <2> QED
    BY <1>2, <2>1, <2>3, <2>4 DEF Pointers, Terminated, bufVars
<1>3. ASSUME Pointers, Terminated, UNCHANGED vars
      PROVE  Pointers' /\ Terminated'
  BY <1>3 DEF Pointers, Terminated, vars, fileVars, bufVars
<1> QED
  BY <1>1, <1>2, <1>3 DEF Next

\* In every buffer and for every file, the pointers of the iterator stay in
\* order and the line that NextExt() parses is terminated inside the buffer:
\* the sentinel is enough.
THEOREM PointersAlwaysOrdered == Spec => []PointersOrdered
<1>1. Pointers /\ Terminated => PointersOrdered
  BY DEF Pointers, Terminated, PointersOrdered
<1> QED
  BY <1>1, InitPointers, NextPointers, PTL DEF Spec

-----------------------------------------------------------------------------
(* The types.  TypeOK is not inductive: that what is written is text needs *)
(* that the garbage and the path that the constructor left in the buffer   *)
(* lie beyond the end of the text, where a line never begins.              *)

TextRead == \A c \in Cells : c < etext => buf[c] \in Chars \cup {NUL}

Typed ==
  /\ mappings \in MapsFiles
  /\ emitted \in Seq(Seq(Chars))
  /\ failed \in BOOLEAN
  /\ done \in BOOLEAN

MapsInv == Pointers /\ Terminated /\ TextRead /\ Typed

\* The string at a place of the text ends before the terminator of the line.
LEMMA LineTyped ==
  ASSUME NEW b, NEW start \in Cells, NEW nl \in Cells, start <= nl, b[nl] = NUL,
         \A c \in start .. nl : b[c] \in Chars \cup {NUL}
  PROVE  Line(b, start) \in Seq(Chars)
<1> DEFINE Ends(c) == b[c] = NUL /\ \A d \in start .. c - 1 : b[d] # NUL
           S == {c \in start .. EBuf : b[c] = NUL}
           stop == CHOOSE c \in start .. EBuf : Ends(c)
           cells == [i \in 1 .. KBufSize |-> b[i - 1]]
<1>1. KBufSize \in Nat /\ EBuf = KBufSize - 1 /\ start \in 0 .. EBuf
      /\ nl \in start .. EBuf
  BY ProcMapsAssumption DEF ProcMapsAssumption, EBuf, Cells
<1>2. \E c \in start .. EBuf : Ends(c)
  <2>1. S \in SUBSET Nat /\ S # {}
    BY <1>1
  <2>2. PICK c \in S : \A d \in S : c <= d
    <3> HIDE DEF S
    <3> QED
      BY <2>1, LeastExists
  <2>3. \A d \in start .. c - 1 : b[d] # NUL
    BY <1>1, <2>2
  <2> QED
    BY <2>2, <2>3
<1>3. stop \in start .. EBuf /\ Ends(stop)
  <2> HIDE DEF Ends
  <2> QED
    BY <1>2
<1> HIDE DEF stop
<1>4. stop <= nl
  BY <1>1, <1>3
<1>5. \A c \in start .. stop - 1 : b[c] \in Chars
  BY <1>1, <1>3, <1>4
<1>6. \A i \in start + 1 .. stop : cells[i] \in Chars
  <2> SUFFICES ASSUME NEW i \in start + 1 .. stop
               PROVE  cells[i] \in Chars
    OBVIOUS
  <2>1. i \in 1 .. KBufSize /\ i - 1 \in start .. stop - 1
    BY <1>1, <1>3
  <2>2. cells[i] = b[i - 1]
    BY <2>1
  <2> QED
    BY <1>5, <2>1, <2>2
<1>7. Line(b, start) = SubSeq(cells, start + 1, stop)
  BY Zenon DEF Line, stop
<1> HIDE DEF cells
<1>8. start + 1 \in Int /\ stop \in Int
  BY <1>1, <1>3
<1>9. SubSeq(cells, start + 1, stop) \in Seq(Chars)
  BY <1>6, <1>8, SubSeqProperties
<1> QED
  BY <1>7, <1>9

LEMMA TerminateText ==
  ASSUME NEW b \in [Cells -> Contents], NEW start \in Cells,
         NEW end \in Cells, NEW nl \in start .. end,
         \A c \in Cells : c < end => b[c] \in Chars \cup {NUL},
         Terminate(b, nl, start, end)
  PROVE  TextRead' /\ Line(buf', stext') \in Seq(Chars)
<1>1. nl \in Cells /\ end \in 0 .. EBuf /\ start \in 0 .. EBuf
  BY BufferSize DEF Cells
<1>2. /\ buf' = [b EXCEPT ![nl] = NUL] /\ stext' = start /\ etext' = end
  BY DEF Terminate
<1>3. \A c \in Cells : c < end \/ c = nl => buf'[c] \in Chars \cup {NUL}
  BY <1>2
<1>4. TextRead'
  BY <1>2, <1>3 DEF TextRead
<1>5. buf'[nl] = NUL
  BY <1>1, <1>2
<1>6. \A c \in start .. nl : c \in Cells /\ (c < end \/ c = nl)
  <2>1. EBuf \in Nat
    BY BufferSize
  <2> QED
    BY <1>1, <2>1 DEF Cells
<1>7. \A c \in start .. nl : buf'[c] \in Chars \cup {NUL}
  BY <1>3, <1>6
<1>8. start <= nl
  BY <1>1
<1> QED
  BY <1>1, <1>2, <1>4, <1>5, <1>7, <1>8, LineTyped

LEMMA BufferedText ==
  ASSUME Pointers, TextRead, TakeBufferedLine
  PROVE  TextRead' /\ Line(buf', stext') \in Seq(Chars)
<1> DEFINE nl == FindNewline(buf, nextline, etext)
<1>1. nl \in nextline .. etext - 1
  BY FirstNewline, BufferSize DEF TakeBufferedLine, Pointers, Cells
<1>2. nl \in nextline .. etext
  BY <1>1, BufferSize DEF Pointers, Cells
<1>3. Terminate(buf, nl, nextline, etext)
  BY DEF TakeBufferedLine
<1> HIDE DEF nl
<1> QED
  BY <1>2, <1>3, TerminateText DEF Pointers, TextRead

LEMMA RefillText ==
  ASSUME Pointers, TextRead, Refill
  PROVE  TextRead' /\ Line(buf', stext') \in Seq(Chars)
<1> DEFINE count == etext - nextline
<1>1. PICK r \in Reads(count) :
        LET b == Refilled(nextline, count, r)
            end == count + r.n
        IN  /\ Terminate(b, FindNewline(b, 0, end + 1), 0, end)
            /\ offset' = offset + r.n
  BY DEF Refill
<1> DEFINE b == Refilled(nextline, count, r)
           end == count + r.n
           nl == FindNewline(b, 0, end + 1)
<1>2. /\ end \in Cells /\ count \in Nat /\ b \in [Cells -> Contents] /\ b[end] = NL
      /\ TextRead => \A c \in Cells : c < end => b[c] \in Chars \cup {NUL}
  <2> HIDE DEF b
  <2> QED
    BY RefilledText, Zenon DEF TextRead, b
<1>3. nl \in 0 .. end
  <2>1. end \in Nat
    BY <1>2 DEF Cells
  <2> HIDE DEF b, end
  <2> QED
    BY <1>2, <2>1, SentinelFound
<1>4. Terminate(b, nl, 0, end)
  BY <1>1
<1> HIDE DEF b, end, nl
<1> QED
  BY <1>2, <1>3, <1>4, BufferSize, TerminateText

LEMMA InitMaps == Init => MapsInv
<1> SUFFICES ASSUME Init
             PROVE  MapsInv
  OBVIOUS
<1>1. Pointers /\ Terminated
  BY InitPointers
<1>2. etext = 0 /\ mappings \in MapsFiles /\ emitted = << >> /\ failed = FALSE
      /\ done = FALSE
  BY DEF Init
<1>3. \A c \in Cells : ~(c < 0)
  BY BufferSize DEF Cells
<1>4. << >> \in Seq(Seq(Chars))
  BY EmptySeq
<1> QED
  BY <1>1, <1>2, <1>3, <1>4 DEF MapsInv, TextRead, Typed

LEMMA TurnMaps ==
  ASSUME MapsInv, Turn
  PROVE  MapsInv'
<1>1. Pointers' /\ Terminated'
  BY NextPointers DEF MapsInv, Next
<1>2. TextRead' /\ Line(buf', stext') \in Seq(Chars)
  BY BufferedText, RefillText DEF MapsInv, Turn
<1>3. failed' \in BOOLEAN
  <2>1. CASE TakeBufferedLine
    BY <2>1 DEF TakeBufferedLine, MapsInv, Typed
  <2>2. CASE Refill
    BY <2>2 DEF Refill
  <2> QED
    BY <2>1, <2>2 DEF Turn
<1> DEFINE line == Line(buf', stext')
<1>4. CASE ParseProcMapsLine(line)
  <2>1. FormatLine(Parsed(line), KBufSize) \in Seq(Seq(Chars))
    BY <1>2, <1>4, ParsedTyped, FormatTyped
  <2>2. emitted' = emitted \o FormatLine(Parsed(line), KBufSize) /\ done' = done
    BY <1>4, Zenon DEF Turn
  <2>3. emitted' \in Seq(Seq(Chars))
    BY <2>1, <2>2, ConcatProperties DEF MapsInv, Typed
  <2>4. mappings' \in MapsFiles
    BY DEF Turn, MapsInv, Typed
  <2> QED
    BY <1>1, <1>2, <1>3, <2>2, <2>3, <2>4 DEF MapsInv, Typed
<1>5. CASE ~ParseProcMapsLine(line)
  <2>1. done' = (etext' = 0) /\ emitted' = emitted
    BY <1>5, Zenon DEF Turn
  <2>2. mappings' \in MapsFiles
    BY DEF Turn, MapsInv, Typed
  <2> QED
    BY <1>1, <1>2, <1>3, <2>1, <2>2 DEF MapsInv, Typed
<1> QED
  BY <1>4, <1>5

LEMMA RemapMaps ==
  ASSUME MapsInv, Remap
  PROVE  MapsInv'
<1>1. Pointers' /\ Terminated'
  BY NextPointers DEF MapsInv, Next
<1>2. mappings' \in MapsFiles
  BY DEF Remap
<1>3. UNCHANGED <<offset, bufVars, emitted, failed, done>>
  BY DEF Remap
<1> QED
  BY <1>1, <1>2, <1>3 DEF MapsInv, Typed, TextRead, bufVars

\* TypeOK holds of every buffer and every file: nothing is written but what is
\* made of characters of the file, never the garbage or the path that the
\* constructor left in the buffer, and never more than the file holds is read.
THEOREM OnlyTextWritten == Spec => []TypeOK
<1>1. MapsInv => TypeOK
  BY DEF MapsInv, Pointers, Typed, TypeOK
<1>2. MapsInv /\ [Next]_vars => MapsInv'
  <2>1. ASSUME MapsInv, UNCHANGED vars
        PROVE  MapsInv'
    BY <2>1 DEF MapsInv, Pointers, Terminated, TextRead, Typed, vars, fileVars, bufVars
  <2> QED
    BY <2>1, TurnMaps, RemapMaps DEF Next
<1> QED
  BY <1>1, <1>2, InitMaps, PTL DEF Spec

-----------------------------------------------------------------------------
(* What is written. The invariant says where the iterator stands in the    *)
(* file, that the buffer holds what follows there, and which lines it has  *)
(* written so far.                                                         *)

\* How much of the file the iterator has gone through, and that it has lost
\* nothing of what it has read and not gone through.
Place == offset - (etext - nextline)
Unlost ==
  /\ maps = MapsText(mappings)
  /\ Place >= 0
  /\ \A c \in nextline .. etext - 1 : buf[c] = maps[Place + c - nextline + 1]

\* The string at a place of the buffer, if text is there and the terminator
\* behind it.
LEMMA LineIs ==
  ASSUME NEW b, NEW start \in Cells, NEW nl \in Cells, start <= nl, b[nl] = NUL,
         NEW text \in Seq(Chars), NEW p \in Nat, p + nl - start <= Len(text),
         \A c \in start .. nl - 1 : b[c] = text[p + c - start + 1]
  PROVE  Line(b, start) = SubSeq(text, p + 1, p + nl - start)
<1> DEFINE Ends(c) == b[c] = NUL /\ \A d \in start .. c - 1 : b[d] # NUL
           stop == CHOOSE c \in start .. EBuf : Ends(c)
           cells == [i \in 1 .. KBufSize |-> b[i - 1]]
           q == p + nl - start
           s == SubSeq(cells, start + 1, nl)
           t == SubSeq(text, p + 1, q)
<1>1. KBufSize \in Nat /\ EBuf = KBufSize - 1 /\ start \in 0 .. EBuf
      /\ nl \in start .. EBuf /\ Len(text) \in Nat
  BY ProcMapsAssumption DEF ProcMapsAssumption, EBuf, Cells
<1>2. \A c \in start .. nl - 1 : b[c] = text[p + c - start + 1] /\ b[c] \in Chars
  <2>1. \A c \in start .. nl - 1 : p + c - start + 1 \in 1 .. Len(text)
    BY <1>1
  <2> QED
    BY <2>1, ElementOfSeq
<1>3. NUL \notin Chars
  BY DEF NUL, Chars, Digits, Blank, NL
<1>4. Ends(nl)
  BY <1>2, <1>3
<1>5. ASSUME NEW c \in start .. EBuf, Ends(c)
      PROVE  c = nl
  <2>1. CASE c < nl
    <3>1. c \in start .. nl - 1
      BY <1>1, <2>1
    <3> QED
      BY <1>2, <1>3, <1>5, <3>1
  <2>2. CASE nl < c
    <3>1. nl \in start .. c - 1
      BY <1>1, <2>2
    <3> QED
      BY <1>4, <1>5, <3>1
  <2> QED
    BY <1>1, <2>1, <2>2
<1>6. stop = nl
  <2> HIDE DEF Ends
  <2> QED
    BY <1>1, <1>4, <1>5
<1>7. Line(b, start) = SubSeq(cells, start + 1, stop)
  BY Zenon DEF Line
<1> HIDE DEF stop
<1>8. \A i \in start + 1 .. nl : cells[i] = b[i - 1] /\ i - 1 \in start .. nl - 1
  BY <1>1
<1>9. \A i \in start + 1 .. nl : cells[i] \in Chars
  BY <1>2, <1>8
<1> HIDE DEF cells
<1>10. start + 1 \in Int /\ nl \in Int
  BY <1>1
<1>11. /\ s \in Seq(Chars) /\ Len(s) = IF start + 1 <= nl THEN nl - (start + 1) + 1 ELSE 0
       /\ \A i \in 1 .. nl - (start + 1) + 1 : s[i] = cells[(start + 1) + i - 1]
  BY <1>9, <1>10, SubSeqProperties
<1>12. /\ t \in Seq(Chars) /\ Len(t) = IF p + 1 <= q THEN q - (p + 1) + 1 ELSE 0
       /\ \A i \in 1 .. q - (p + 1) + 1 : t[i] = text[(p + 1) + i - 1]
  <2>1. \A i \in p + 1 .. q : text[i] \in Chars
    <3>1. \A i \in p + 1 .. q : i \in 1 .. Len(text)
      BY <1>1
    <3> QED
      BY <3>1, ElementOfSeq
  <2>2. p + 1 \in Int /\ q \in Int
    BY <1>1
  <2> HIDE DEF q
  <2> QED
    BY <2>1, <2>2, SubSeqProperties
<1> DEFINE n == nl - start
<1>13. n \in Nat /\ nl - (start + 1) + 1 = n /\ q - (p + 1) + 1 = n /\ q = p + n
  BY <1>1
<1>14. Len(s) = n /\ Len(t) = n
  <2> HIDE DEF s, t
  <2> QED
    BY <1>1, <1>11, <1>12, <1>13
<1>15. ASSUME NEW i \in 1 .. n
       PROVE  s[i] = t[i]
  <2> DEFINE c == start + i - 1
  <2>1. c \in start .. nl - 1 /\ (start + 1) + i - 1 = c + 1 /\ c + 1 \in start + 1 .. nl
        /\ (c + 1) - 1 = c /\ (p + 1) + i - 1 = p + c - start + 1
    BY <1>1
  <2> HIDE DEF s, t, c, q, n
  <2>2. s[i] = cells[c + 1]
    BY <1>11, <1>13, <2>1
  <2>3. cells[c + 1] = b[c]
    BY <1>8, <2>1
  <2>4. t[i] = text[p + c - start + 1]
    BY <1>12, <1>13, <2>1
  <2> QED
    BY <1>2, <2>1, <2>2, <2>3, <2>4
<1>16. s = t
  <2> HIDE DEF s, t, n
  <2> QED
    BY <1>11, <1>12, <1>14, <1>15, SeqEqual
<1> QED
  BY <1>6, <1>7, <1>16

\* A turn goes through the text up to its first newline, or all of it; s is what
\* it parses.
LEMMA TerminateReads ==
  ASSUME NEW b \in [Cells -> Contents], NEW start \in Cells, NEW end \in Cells,
         NEW nl \in start .. end, NEW p \in Nat, maps \in Seq(Chars), UNCHANGED maps,
         offset' = p + end - start, offset' <= Len(maps),
         \A c \in start .. end - 1 : b[c] = maps[p + c - start + 1],
         \A c \in start .. nl - 1 : b[c] # NL,
         nl < end => b[nl] = NL,
         Terminate(b, nl, start, end)
  PROVE  LET q == p + nl - start
         IN  /\ q \in Nat /\ p <= q /\ q <= Len(maps)
             /\ \A x \in p + 1 .. q : maps[x] # NL
             /\ Line(buf', stext') = SubSeq(maps, p + 1, q)
             /\ Place' = IF nl < end THEN q + 1 ELSE q
             /\ nl < end => q < Len(maps) /\ maps[q + 1] = NL
             /\ nl = end => q = offset'
             /\ \A c \in nextline' .. etext' - 1 :
                  buf'[c] = maps'[Place' + c - nextline' + 1]
<1> DEFINE q == p + nl - start
<1>1. /\ nl \in Cells /\ EBuf \in Nat /\ start \in 0 .. EBuf /\ end \in 0 .. EBuf
      /\ nl \in start .. EBuf /\ nl <= end /\ Len(maps) \in Nat
  BY BufferSize DEF Cells
<1>2. /\ buf' = [b EXCEPT ![nl] = NUL] /\ stext' = start /\ etext' = end
      /\ nextline' = IF nl < end THEN nl + 1 ELSE nl
  BY DEF Terminate
<1>3. q \in Nat /\ p <= q /\ q <= Len(maps) /\ (nl = end => q = offset')
  BY <1>1
<1>4. \A x \in p + 1 .. q : maps[x] # NL
  <2> SUFFICES ASSUME NEW x \in p + 1 .. q
               PROVE  maps[x] # NL
    OBVIOUS
  <2> DEFINE c == x - p - 1 + start
  <2>1. c \in start .. nl - 1 /\ c \in start .. end - 1 /\ p + c - start + 1 = x
    BY <1>1
  <2> HIDE DEF c
  <2>2. b[c] = maps[x] /\ b[c] # NL
    BY <2>1
  <2> QED
    BY <2>2
<1>5. nl < end => q < Len(maps) /\ maps[q + 1] = NL
  <2> SUFFICES ASSUME nl < end
               PROVE  q < Len(maps) /\ maps[q + 1] = NL
    OBVIOUS
  <2>1. q < Len(maps) /\ nl \in start .. end - 1 /\ p + nl - start + 1 = q + 1
    BY <1>1
  <2>2. b[nl] = maps[q + 1] /\ b[nl] = NL
    BY <2>1
  <2> QED
    BY <2>1, <2>2
<1>6. \A c \in start .. end - 1 : c # nl => buf'[c] = maps[p + c - start + 1]
  <2>1. \A c \in start .. end - 1 : c \in Cells
    BY <1>1 DEF Cells
  <2> QED
    BY <1>2, <2>1
<1>7. Line(buf', stext') = SubSeq(maps, p + 1, q)
  <2>1. buf'[nl] = NUL
    BY <1>1, <1>2
  <2>2. \A c \in start .. nl - 1 : buf'[c] = maps[p + c - start + 1]
    <3>1. \A c \in start .. nl - 1 : c \in start .. end - 1 /\ c # nl
      BY <1>1
    <3> QED
      BY <1>6, <3>1
  <2>3. start <= nl /\ p + nl - start <= Len(maps)
    BY <1>1, <1>3
  <2>4. Line(buf', start) = SubSeq(maps, p + 1, p + nl - start)
    <3> DEFINE d == buf'
    <3>1. d[nl] = NUL /\ \A c \in start .. nl - 1 : d[c] = maps[p + c - start + 1]
      BY <2>1, <2>2
    <3>2. nl \in Cells
      BY <1>1
    <3> HIDE DEF d
    <3>3. Line(d, start) = SubSeq(maps, p + 1, p + nl - start)
      BY <2>3, <3>1, <3>2, LineIs
    <3> QED
      BY <3>3 DEF d
  <2> QED
    BY <1>2, <2>4
<1>8. Place' = IF nl < end THEN q + 1 ELSE q
  BY <1>1, <1>2 DEF Place
<1>9. ASSUME NEW c \in nextline' .. etext' - 1
      PROVE  buf'[c] = maps'[Place' + c - nextline' + 1]
  <2>1. c \in start .. end - 1 /\ c # nl /\ nl < end /\ nextline' = nl + 1
    BY <1>1, <1>2, <1>9
  <2>2. Place' + c - nextline' + 1 = p + c - start + 1
    BY <1>1, <1>3, <1>8, <2>1
  <2> QED
    BY <1>6, <2>1, <2>2
<1> HIDE DEF q
<1>10. /\ q \in Nat /\ p <= q /\ q <= Len(maps)
       /\ \A x \in p + 1 .. q : maps[x] # NL
       /\ Line(buf', stext') = SubSeq(maps, p + 1, q)
       /\ Place' = IF nl < end THEN q + 1 ELSE q
       /\ nl < end => q < Len(maps) /\ maps[q + 1] = NL
       /\ nl = end => q = offset'
       /\ \A c \in nextline' .. etext' - 1 :
            buf'[c] = maps'[Place' + c - nextline' + 1]
  BY <1>3, <1>4, <1>5, <1>7, <1>8, <1>9
<1> QED
  BY <1>10, Zenon DEF q

\* What a turn does with the text: it parses what there is up to the place q, and
\* goes on behind the newline that is there; if there is none, a read has failed,
\* the buffer was full, or it was the end of the file.
GoneTo(q) ==
  /\ q \in Nat /\ Place <= q /\ q <= Len(maps)
  /\ \A x \in Place + 1 .. q : maps[x] # NL
  /\ Line(buf', stext') = SubSeq(maps, Place + 1, q)
  /\ \/ q < Len(maps) /\ maps[q + 1] = NL /\ Place' = q + 1 /\ etext' # 0
     \/ /\ Place' = q
        /\ failed' \/ q - Place = EBuf \/ q = Len(maps)
        /\ etext' = 0 => q = Place
  /\ failed => failed'
  /\ \A c \in nextline' .. etext' - 1 :
       buf'[c] = maps'[Place' + c - nextline' + 1]

LEMMA PlaceTyped ==
  ASSUME Pointers
  PROVE  /\ Place \in Int /\ Place <= offset /\ offset = Place + etext - nextline
         /\ etext - nextline \in Nat /\ offset \in Nat /\ Len(maps) \in Nat
         /\ offset <= Len(maps) /\ EBuf \in Nat
  BY BufferSize, LenProperties DEF Pointers, Place, Cells

LEMMA BufferedReads ==
  ASSUME Pointers, Unlost, TakeBufferedLine, UNCHANGED maps
  PROVE  \E q : GoneTo(q)
<1> DEFINE nl == FindNewline(buf, nextline, etext)
           q == Place + nl - nextline
<1>1. nextline \in Cells /\ etext \in Cells /\ nextline \in Nat /\ etext \in Nat
      /\ buf \in [Cells -> Contents] /\ maps \in Seq(Chars)
  BY BufferSize DEF Pointers, Cells
<1>2. /\ nl # -1 /\ Terminate(buf, nl, nextline, etext) /\ offset' = offset
      /\ failed' = failed
  BY DEF TakeBufferedLine
<1>3. /\ nl \in nextline .. etext - 1 /\ buf[nl] = NL
      /\ \A c \in nextline .. nl - 1 : buf[c] # NL
  <2> HIDE DEF nl
  <2>1. \/ /\ nl = -1
           /\ \A c \in nextline .. etext - 1 : buf[c] # NL
        \/ /\ nl \in nextline .. etext - 1
           /\ buf[nl] = NL
           /\ \A c \in nextline .. nl - 1 : buf[c] # NL
    BY <1>1, FirstNewline DEF nl
  <2> QED
    BY <1>2, <2>1
<1> HIDE DEF nl
<1>4. nl \in nextline .. etext /\ nl < etext
  BY <1>1, <1>3
<1>5. /\ Place \in Nat /\ offset' = Place + etext - nextline /\ offset' <= Len(maps)
      /\ \A c \in nextline .. etext - 1 : buf[c] = maps[Place + c - nextline + 1]
  BY <1>2, PlaceTyped DEF Unlost
<1> DEFINE p == Place
<1> HIDE DEF p
<1>6. /\ p \in Nat /\ offset' = p + etext - nextline /\ offset' <= Len(maps)
      /\ \A c \in nextline .. etext - 1 : buf[c] = maps[p + c - nextline + 1]
  BY <1>5 DEF p
<1>7. LET r == p + nl - nextline
      IN  /\ r \in Nat /\ p <= r /\ r <= Len(maps)
          /\ \A x \in p + 1 .. r : maps[x] # NL
          /\ Line(buf', stext') = SubSeq(maps, p + 1, r)
          /\ Place' = IF nl < etext THEN r + 1 ELSE r
          /\ nl < etext => r < Len(maps) /\ maps[r + 1] = NL
          /\ nl = etext => r = offset'
          /\ \A c \in nextline' .. etext' - 1 :
               buf'[c] = maps'[Place' + c - nextline' + 1]
  BY <1>1, <1>2, <1>3, <1>4, <1>6, TerminateReads
<1>8. etext' # 0
  BY <1>1, <1>2, <1>4 DEF Terminate
<1>9. GoneTo(q)
  BY <1>2, <1>4, <1>7, <1>8 DEF GoneTo, p
<1> QED
  BY <1>9

\* A refill puts the text that is left, and what is read, in front of the buffer.
LEMMA RefilledReads ==
  ASSUME Pointers, Unlost, NEW r \in Reads(etext - nextline)
  PROVE  \A c \in 0 .. (etext - nextline + r.n) - 1 :
           Refilled(nextline, etext - nextline, r)[c] = maps[Place + c + 1]
<1> DEFINE count == etext - nextline
           end == etext - nextline + r.n
           b == Refilled(nextline, count, r)
<1>1. /\ count \in Nat /\ end \in Cells /\ nextline \in Cells /\ etext \in Cells
      /\ offset = Place + count /\ Place \in Int
  BY RefilledText, PlaceTyped DEF Pointers
<1>2. /\ nextline \in 0 .. EBuf /\ etext \in 0 .. EBuf /\ EBuf \in Nat /\ end \in 0 .. EBuf
  BY <1>1, BufferSize DEF Cells
<1>3. \A c \in nextline .. etext - 1 : buf[c] = maps[Place + c - nextline + 1]
  BY DEF Unlost
<1>4. ASSUME NEW c \in 0 .. end - 1
      PROVE  b[c] = maps[Place + c + 1]
  <2>1. c \in Cells /\ c < end
    BY <1>2 DEF Cells
  <2>2. b[c] = IF c < count THEN buf[nextline + c] ELSE maps[offset + c - count + 1]
    BY <2>1 DEF Refilled
  <2>3. CASE c < count
    <3> DEFINE d == nextline + c
    <3>1. d \in nextline .. etext - 1 /\ Place + d - nextline + 1 = Place + c + 1
      BY <1>1, <1>2, <2>3
    <3> HIDE DEF d
    <3>2. buf[d] = maps[Place + c + 1]
      BY <1>3, <3>1
    <3> QED
      BY <2>2, <2>3, <3>2 DEF d
  <2>4. CASE ~(c < count)
    <3>1. offset + c - count + 1 = Place + c + 1
      BY <1>1
    <3> QED
      BY <2>2, <2>4, <3>1
  <2> QED
    BY <2>3, <2>4
<1> HIDE DEF b, end
<1> QED
  BY <1>4 DEF b, end

\* How much the reads of a refill bring in, if none fails.
LEMMA ReadsEnough ==
  ASSUME Pointers, NEW r \in Reads(etext - nextline), ~r.fails
  PROVE  etext - nextline + r.n = EBuf \/ offset + r.n = Len(maps)
<1> DEFINE room == EBuf - (etext - nextline)
<1>1. room \in Int /\ Unread \in Int /\ offset \in Int /\ Len(maps) \in Int
      /\ etext - nextline \in Int /\ EBuf \in Int
  BY BufferSize, PlaceTyped DEF Unread
<1>2. r.n = Least(room, Unread)
  BY DEF Reads
<1>3. r.n = room \/ r.n = Unread
  BY <1>2 DEF Least
<1> QED
  BY <1>1, <1>3 DEF Unread

LEMMA RefillReads ==
  ASSUME Pointers, Unlost, Refill, UNCHANGED maps
  PROVE  \E q : GoneTo(q)
<1> DEFINE count == etext - nextline
           p == Place
<1>1. PICK r \in Reads(count) :
        LET b == Refilled(nextline, count, r)
            end == count + r.n
        IN  /\ Terminate(b, FindNewline(b, 0, end + 1), 0, end)
            /\ offset' = offset + r.n
            /\ failed' = (failed \/ r.fails)
  BY DEF Refill
<1> DEFINE b == Refilled(nextline, count, r)
           end == count + r.n
           nl == FindNewline(b, 0, end + 1)
           q == p + nl - 0
<1>2. /\ count \in Nat /\ end \in Cells /\ r.n \in 0 .. Len(maps) - offset
      /\ b \in [Cells -> Contents] /\ b[end] = NL
  BY RefilledText
<1>3. /\ p \in Nat /\ offset = p + count /\ offset \in Nat /\ Len(maps) \in Nat
      /\ EBuf \in Nat
  BY PlaceTyped DEF Unlost
<1>4. \A c \in 0 .. end - 1 : b[c] = maps[p + c + 1]
  BY RefilledReads, Zenon
<1>5. Terminate(b, nl, 0, end) /\ offset' = offset + r.n /\ failed' = (failed \/ r.fails)
  BY <1>1, Zenon
<1>6. ~r.fails => end = EBuf \/ offset + r.n = Len(maps)
  BY ReadsEnough
<1> HIDE DEF b
<1>7. /\ nl \in 0 .. end /\ \A c \in 0 .. nl - 1 : b[c] # NL
      /\ b[nl] = NL
  <2>1. end \in Nat
    BY <1>2 DEF Cells
  <2> HIDE DEF end
  <2> QED
    BY <1>2, <2>1, SentinelFound
<1>8. maps \in Seq(Chars)
  BY DEF Pointers
<1>9. offset' = p + end - 0 /\ offset' <= Len(maps)
  BY <1>2, <1>3, <1>5
<1> HIDE DEF end, nl, p, count
<1>10. \A c \in 0 .. end - 1 : b[c] = maps[p + c - 0 + 1]
  <2>1. \A c \in 0 .. end - 1 : p + c - 0 + 1 = p + c + 1
    BY <1>3
  <2> QED
    BY <1>4, <2>1
<1>11. /\ q \in Nat /\ p <= q /\ q <= Len(maps)
       /\ \A x \in p + 1 .. q : maps[x] # NL
       /\ Line(buf', stext') = SubSeq(maps, p + 1, q)
       /\ Place' = IF nl < end THEN q + 1 ELSE q
       /\ nl < end => q < Len(maps) /\ maps[q + 1] = NL
       /\ nl = end => q = offset'
       /\ \A c \in nextline' .. etext' - 1 :
            buf'[c] = maps'[Place' + c - nextline' + 1]
  <2>1. 0 \in Cells
    BY BufferSize
  <2> QED
    BY <1>2, <1>3, <1>5, <1>7, <1>8, <1>9, <1>10, <2>1, TerminateReads
<1>12. /\ end \in Nat /\ nl \in Nat /\ nl <= end /\ q - p = nl
       /\ etext' = end
  <2>1. end \in Nat
    BY <1>2 DEF Cells
  <2> QED
    BY <1>3, <1>5, <1>7, <2>1 DEF Terminate
<1> HIDE DEF q
<1>13. failed => failed'
  BY <1>5
<1>14. CASE nl < end
  <2>1. q < Len(maps) /\ maps[q + 1] = NL /\ Place' = q + 1 /\ etext' # 0
    BY <1>11, <1>12, <1>14
  <2> QED
    BY <1>11, <1>13, <2>1 DEF GoneTo, p
<1>15. CASE nl = end
  <2>1. failed' \/ q - p = EBuf \/ q = Len(maps)
    BY <1>5, <1>6, <1>9, <1>11, <1>12, <1>15 DEF end
  <2>2. Place' = q /\ (etext' = 0 => q = p)
    BY <1>3, <1>11, <1>12, <1>15
  <2> QED
    BY <1>11, <1>13, <2>1, <2>2 DEF GoneTo, p
<1> QED
  BY <1>12, <1>14, <1>15

\* The iterator has gone through the lines of the first m mappings.  Where it
\* stands in the next one, it is behind the line, or the line does not fit into
\* the buffer, or a read has failed.
Standing(m) ==
  /\ End(mappings, m) <= Place
  /\ m = Len(mappings) => Place = End(mappings, m)
  /\ m < Len(mappings) => Place <= End(mappings, m) + Len(KernelLine(mappings[m + 1]))
  /\ Place # End(mappings, m) =>
       \/ Place = End(mappings, m) + Len(KernelLine(mappings[m + 1]))
       \/ failed
       \/ LineTooLong(mappings[m + 1])

\* It has written nothing of the mappings behind the next one, nor of that before
\* it has gone through two characters of it; and without a failure everything
\* that can be listed of what it has gone through.
Listed(from, j) ==
  \E i \in Index(emitted) : from[i] = j /\ emitted[i] = Canonical(mappings[j])
Complete(m, from) ==
  \A j \in Index(mappings) :
    /\ Listable(mappings[j])
    /\ j <= m \/ (j = m + 1 /\ Place > End(mappings, m))
    => Listed(from, j)
Accounted(m, from) ==
  /\ Origins(from)
  /\ \A i \in Index(emitted) :
       from[i] <= IF Place >= End(mappings, m) + 2 THEN m + 1 ELSE m
  /\ ~failed => Complete(m, from)

Progress ==
  \E m \in 0 .. Len(mappings) :
    \E from \in [Index(emitted) -> Index(mappings)] :
      Standing(m) /\ Accounted(m, from)

\* The files are sequences of mappings.
LEMMA FileTyped ==
  ASSUME mappings \in MapsFiles
  PROVE  mappings \in Seq(Mapping)
  BY ProcMapsAssumption DEF ProcMapsAssumption

\* Whatever is read of the line of a mapping, what is written is of it.
LEMMA PieceWritten ==
  ASSUME NEW e \in Mapping, NEW a \in Nat \ {0}, NEW b \in Nat,
         a <= b + 1, b <= Len(KernelLine(e))
  PROVE  /\ ParseProcMapsLine(Piece(e, a, b)) =>
              /\ a \in {1, 2} /\ 14 <= b
              /\ Damaged(Canonical(Parsed(Piece(e, a, b))), e)
         /\ a = 1 /\ b = Len(KernelLine(e)) =>
              /\ e.blanks > 0 => ParseProcMapsLine(Piece(e, a, b))
              /\ ParseProcMapsLine(Piece(e, a, b)) =>
                   Canonical(Parsed(Piece(e, a, b))) = Canonical(e)
<1> DEFINE k == KernelLine(e)
<1>1. CASE a \in {1, 2}
  <2>1. ParseProcMapsLine(Piece(e, a, b)) <=> 14 <= b
    BY <1>1, HeadParsed
  <2>2. ASSUME 14 <= b
        PROVE  /\ Damaged(Canonical(Parsed(Piece(e, a, b))), e)
               /\ a = 1 /\ b = Len(KernelLine(e)) =>
                    Canonical(Parsed(Piece(e, a, b))) = Canonical(e)
    <3>1. Parsed(Piece(e, a, b)) = Remains(e, a, b)
      BY <1>1, <2>2, PieceParsed
    <3>2. /\ Damaged(Canonical(Remains(e, a, b)), e)
          /\ a = 1 /\ b = Len(KernelLine(e)) =>
               Canonical(Remains(e, a, b)) = Canonical(e)
      BY <1>1, <2>2, RemainsDamaged
    <3> QED
      BY <3>1, <3>2, Zenon
  <2>3. e.blanks > 0 => 14 <= Len(k)
    <3>1. Len(k) = 13 + e.blanks + Len(e.filename) /\ e.blanks \in Nat
          /\ Len(e.filename) \in Nat
      BY MappingFields, LineLaidOut
    <3> HIDE DEF k
    <3> QED
      BY <3>1
  <2> HIDE DEF k
  <2>4. a = 1 /\ b = Len(k) => (e.blanks > 0 => ParseProcMapsLine(Piece(e, a, b)))
    BY <2>1, <2>3
  <2> QED
    BY <1>1, <2>1, <2>2, <2>4 DEF k
<1>2. CASE ~(a \in {1, 2})
  <2>1. 3 <= a /\ a \in Nat /\ a # 1
    BY <1>2
  <2>2. ~ParseProcMapsLine(Piece(e, a, b))
    BY <2>1, TailSilent
  <2> QED
    BY <2>1, <2>2
<1> QED
  BY <1>1, <1>2

\* Where a turn takes the iterator in the line of a mapping.
LEMMA TurnStands ==
  ASSUME Pointers, mappings \in Seq(Mapping), Unlost,
         NEW m \in 0 .. Len(mappings) - 1, Standing(m),
         NEW q, GoneTo(q), NEW e, e = mappings[m + 1],
         NEW a, a = Place - End(mappings, m) + 1, NEW b, b = q - End(mappings, m)
  PROVE  /\ e \in Mapping /\ a \in Nat \ {0} /\ b \in Nat
         /\ a <= b + 1 /\ b <= Len(KernelLine(e))
         /\ Line(buf', stext') = Piece(e, a, b)
         /\ a # 1 => a = Len(KernelLine(e)) + 1 \/ failed \/ LineTooLong(e)
         /\ b # Len(KernelLine(e)) => failed' \/ LineTooLong(e)
         /\ \/ b = Len(KernelLine(e)) /\ Place' = End(mappings, m + 1)
            \/ Place' = End(mappings, m) + b
<1> DEFINE E == End(mappings, m)
           k == KernelLine(e)
           M == Len(mappings)
<1>1. M \in Nat /\ m + 1 \in 1 .. M /\ m \in 0 .. M /\ m < M /\ m # M
      /\ m + 1 \in 0 .. M /\ (m + 1) - 1 = m
  OBVIOUS
<1>2. e \in Mapping
  BY <1>1, ElementOfSeq
<1>3. E \in Nat /\ maps = MapsText(mappings)
  BY <1>1, TextLaidOut DEF Unlost
<1>4. End(mappings, m + 1) = E + Len(k) + 1
  <2> DEFINE n == m + 1
  <2>1. n \in 1 .. M
    BY <1>1
  <2> HIDE DEF n
  <2>2. End(mappings, n) = End(mappings, n - 1) + Len(KernelLine(mappings[n])) + 1
    BY <2>1, TextLaidOut
  <2> QED
    BY <1>1, <2>2 DEF n
<1>5. Len(k) \in Nat
  BY <1>2, KernelLineTyped, LenProperties
<1>6. /\ E <= Place /\ Place <= E + Len(k) /\ Place \in Nat
      /\ Place # E => Place = E + Len(k) \/ failed \/ LineTooLong(e)
  <2>1. Place \in Nat
    BY PlaceTyped DEF Unlost
  <2> QED
    BY <1>1, <2>1 DEF Standing
<1>7. /\ q \in Nat /\ Place <= q /\ q <= Len(maps)
      /\ \A x \in Place + 1 .. q : maps[x] # NL
      /\ Line(buf', stext') = SubSeq(maps, Place + 1, q)
      /\ \/ q < Len(maps) /\ maps[q + 1] = NL /\ Place' = q + 1
         \/ /\ Place' = q
            /\ failed' \/ q - Place = EBuf \/ q = Len(maps)
  BY DEF GoneTo
<1>8. /\ q <= E + Len(k)
      /\ SubSeq(maps, Place + 1, q) = Piece(e, Place - E + 1, q - E)
      /\ q < Len(maps)
      /\ maps[q + 1] = NL => q = E + Len(k)
  <2> DEFINE p == Place
  <2>1. /\ p \in Nat /\ p <= q /\ q <= Len(MapsText(mappings))
        /\ End(mappings, m) <= p
        /\ p <= End(mappings, m) + Len(KernelLine(mappings[m + 1]))
        /\ \A x \in p + 1 .. q : MapsText(mappings)[x] # NL
    BY <1>3, <1>6, <1>7
  <2> HIDE DEF p
  <2>2. /\ q <= End(mappings, m) + Len(KernelLine(mappings[m + 1]))
        /\ SubSeq(MapsText(mappings), p + 1, q) =
             Piece(mappings[m + 1], p - End(mappings, m) + 1, q - End(mappings, m))
        /\ q < Len(MapsText(mappings))
        /\ MapsText(mappings)[q + 1] = NL =>
             q = End(mappings, m) + Len(KernelLine(mappings[m + 1]))
    BY <1>7, <2>1, StretchOfLine
  <2> QED
    BY <1>3, <2>2 DEF p
<1> HIDE DEF E, k
<1>9. /\ a = Place - E + 1 /\ b = q - E
  BY DEF E
<1>10. a \in Nat \ {0} /\ b \in Nat /\ a <= b + 1 /\ b <= Len(k)
  <2>1. E \in Nat /\ Len(k) \in Nat /\ Place \in Nat /\ q \in Nat
    BY <1>3, <1>5, <1>6, <1>7
  <2>2. E <= Place /\ Place <= q /\ q <= E + Len(k)
    BY <1>6, <1>7, <1>8
  <2> QED
    BY <1>9, <2>1, <2>2
<1>11. Line(buf', stext') = Piece(e, a, b)
  BY <1>7, <1>8, <1>9
<1>12. a # 1 => a = Len(k) + 1 \/ failed \/ LineTooLong(e)
  <2>1. a # 1 => Place # E
    BY <1>3, <1>6, <1>9
  <2>2. Place = E + Len(k) => a = Len(k) + 1
    BY <1>3, <1>5, <1>9
  <2> QED
    BY <1>6, <2>1, <2>2
<1>13. b # Len(k) => failed' \/ LineTooLong(e)
  <2> SUFFICES ASSUME b # Len(k), ~failed'
               PROVE  LineTooLong(e)
    OBVIOUS
  <2>1. q # E + Len(k)
    BY <1>3, <1>5, <1>9
  <2>2. q - Place = EBuf
    BY <1>7, <1>8, <2>1
  <2>3. EBuf < Len(k)
    BY <1>3, <1>5, <1>6, <1>7, <1>8, <2>1, <2>2, SMTT(30)
  <2> QED
    BY <1>5, <2>2, <1>6, <1>7, <2>3 DEF LineTooLong, k
<1>14. \/ b = Len(k) /\ Place' = End(mappings, m + 1)
       \/ Place' = E + b
  <2>1. CASE maps[q + 1] = NL /\ Place' = q + 1
    BY <1>3, <1>4, <1>5, <1>7, <1>8, <1>9, <2>1
  <2>2. CASE Place' = q
    BY <1>3, <1>7, <1>9, <2>2
  <2> QED
    BY <1>7, <2>1, <2>2
<1> QED
  BY <1>2, <1>10, <1>11, <1>12, <1>13, <1>14 DEF E, k

\* What a turn writes.
LEMMA TurnWrites ==
  ASSUME MapsInv, Turn
  PROVE  LET line == Line(buf', stext')
             entry == Canonical(Parsed(line))
             n == Len(emitted)
         IN  \/ /\ emitted' = emitted
                /\ ~(ParseProcMapsLine(line) /\ Len(entry) + 1 < KBufSize)
             \/ /\ ParseProcMapsLine(line)
                /\ Len(emitted') = n + 1
                /\ \A i \in 1 .. n : emitted'[i] = emitted[i]
                /\ emitted'[n + 1] = entry
<1> DEFINE line == Line(buf', stext')
           entry == Canonical(Parsed(line))
           n == Len(emitted)
<1>1. n \in Nat /\ emitted \in Seq(Seq(Chars))
  BY LenProperties DEF MapsInv, Typed
<1>2. CASE ParseProcMapsLine(line)
  <2>1. emitted' = emitted \o FormatLine(Parsed(line), KBufSize)
    BY <1>2, Zenon DEF Turn
  <2>2. line \in Seq(Chars)
    BY BufferedText, RefillText DEF MapsInv, Turn
  <2>3. FormatLine(Parsed(line), KBufSize) \in Seq(Seq(Chars))
    BY <1>2, <2>2, ParsedTyped, FormatTyped
  <2>4. FormatLine(Parsed(line), KBufSize) =
          IF Len(entry) + 1 >= KBufSize THEN << >> ELSE <<entry>>
    BY DEF FormatLine
  <2> HIDE DEF line, entry
  <2>5. KBufSize \in Nat
    BY ProcMapsAssumption DEF ProcMapsAssumption
  <2>6. CASE Len(entry) + 1 >= KBufSize
    <3>1. emitted' = emitted \o << >>
      BY <2>1, <2>4, <2>6
    <3>2. emitted' = emitted
      BY <1>1, <3>1, ConcatEmptySeq
    <3>3. ~(Len(entry) + 1 < KBufSize)
      <4>1. CASE Len(entry) \in Int
        BY <2>5, <2>6, <4>1
      <4>2. entry \in Seq(Chars)
        <5>1. Parsed(line) \in Fields
          BY <1>2, <2>2, ParsedTyped
        <5> QED
          BY <5>1, CanonicalTyped DEF entry
      <4> QED
        BY <4>1, <4>2, LenProperties
    <3> QED
      BY <3>2, <3>3 DEF line, entry
  <2>7. CASE ~(Len(entry) + 1 >= KBufSize)
    <3> DEFINE t == <<entry>>
    <3>1. emitted' = emitted \o t /\ t \in Seq(Seq(Chars))
      BY <2>1, <2>3, <2>4, <2>7
    <3>2. Len(t) = 1 /\ t[1] = entry
      OBVIOUS
    <3> HIDE DEF t
    <3>3. /\ Len(emitted') = Len(emitted) + Len(t)
          /\ \A i \in 1 .. Len(emitted) : emitted'[i] = emitted[i]
          /\ \A i \in 1 .. Len(t) : emitted'[Len(emitted) + i] = t[i]
      <4>1. emitted \in Seq(Seq(Chars)) /\ t \in Seq(Seq(Chars))
        BY <1>1, <3>1
      <4> DEFINE C == Seq(Chars)
      <4> HIDE DEF C
      <4>2. emitted \in Seq(C) /\ t \in Seq(C)
        BY <4>1 DEF C
      <4>3. /\ Len(emitted \o t) = Len(emitted) + Len(t)
            /\ \A i \in 1 .. Len(emitted) : (emitted \o t)[i] = emitted[i]
            /\ \A i \in 1 .. Len(t) : (emitted \o t)[Len(emitted) + i] = t[i]
        BY <4>2, Joined
      <4> QED
        BY <3>1, <4>3
    <3>4. 1 \in 1 .. Len(t)
      BY <3>2
    <3>5. Len(emitted') = n + 1 /\ emitted'[n + 1] = entry
      BY <1>1, <3>2, <3>3, <3>4
    <3> QED
      BY <1>2, <3>3, <3>5 DEF line, entry
  <2> QED
    BY <2>6, <2>7
<1>3. CASE ~ParseProcMapsLine(line)
  BY <1>3, Zenon DEF Turn
<1> QED
  BY <1>2, <1>3

\* The turn keeps account of what it has written.
LEMMA TurnProgress ==
  ASSUME MapsInv, Unlost, Turn, NEW q, GoneTo(q), Progress
  PROVE  Progress'
<1> USE DEF Index
<1> DEFINE M == Len(mappings)
           n == Len(emitted)
           line == Line(buf', stext')
           entry == Canonical(Parsed(line))
<1>1. /\ Pointers /\ mappings \in Seq(Mapping) /\ M \in Nat /\ n \in Nat
      /\ mappings' = mappings /\ maps' = maps /\ maps = MapsText(mappings)
  BY FileTyped, LenProperties DEF MapsInv, Typed, Turn, Unlost
<1>2. PICK m \in 0 .. M : \E from \in [1 .. n -> 1 .. M] : Standing(m) /\ Accounted(m, from)
  BY DEF Progress
<1>3. PICK from \in [1 .. n -> 1 .. M] : Standing(m) /\ Accounted(m, from)
  BY <1>2
<1>4. \/ /\ emitted' = emitted
         /\ ~(ParseProcMapsLine(line) /\ Len(entry) + 1 < KBufSize)
      \/ /\ ParseProcMapsLine(line)
         /\ Len(emitted') = n + 1
         /\ \A i \in 1 .. n : emitted'[i] = emitted[i]
         /\ emitted'[n + 1] = entry
  BY TurnWrites, Zenon
<1>5. failed => failed'
  BY DEF GoneTo
<1>6. Place \in Nat /\ q \in Nat /\ Place <= q /\ q <= Len(maps) /\ Len(maps) \in Nat
      /\ line = SubSeq(maps, Place + 1, q)
  BY <1>1, PlaceTyped DEF Unlost, GoneTo
\* Nothing was left.
<1>7. CASE m = M
  <2>1. Place = End(mappings, M) /\ End(mappings, M) = Len(maps)
    BY <1>1, <1>3, <1>7, TextLaidOut DEF Standing
  <2>2. q = Place /\ Place' = Place
    BY <1>6, <2>1 DEF GoneTo
  <2>3. line = << >>
    <3>1. SubSeq(maps, Place + 1, Place) = << >>
      BY <1>6, SubSeqEmpty
    <3> QED
      BY <1>6, <2>2, <3>1
  <2>4. ~ParseProcMapsLine(line)
    <3> HIDE DEF line
    <3> QED
      BY <2>3 DEF ParseProcMapsLine
  <2>5. emitted' = emitted
    BY <1>4, <2>4
  <2> HIDE DEF line, entry
  <2>6. Standing(m)'
    BY <1>1, <1>3, <1>7, <2>1, <2>2 DEF Standing
  <2>7. Accounted(m, from)'
    <3>1. Origins(from)'
      BY <1>1, <1>3, <1>5, <2>5 DEF Accounted, Origins
    <3>2. ~failed' => Complete(m, from)'
      BY <1>1, <1>3, <1>5, <2>2, <2>5 DEF Accounted, Complete, Listed
    <3>3. \A i \in Index(emitted') : from[i] <= IF Place' >= End(mappings', m) + 2 THEN m + 1 ELSE m
      BY <1>1, <1>3, <2>2, <2>5 DEF Accounted
    <3> QED
      BY <3>1, <3>2, <3>3 DEF Accounted
  <2> QED
    BY <1>1, <1>2, <1>3, <2>5, <2>6, <2>7 DEF Progress
<1>8. CASE m # M
  <2> DEFINE e == mappings[m + 1]
             E == End(mappings, m)
             F == End(mappings, m + 1)
             a == Place - E + 1
             b == q - E
             k == Len(KernelLine(e))
             U == IF Place >= E + 2 THEN m + 1 ELSE m
  <2>1. m + 1 \in 0 .. M /\ m \in 0 .. M
    BY <1>1, <1>8
  <2>2. PICK m2 \in 0 .. M : m2 = IF b = k /\ Place' = F THEN m + 1 ELSE m
    BY <2>1
  <2> DEFINE U2 == IF Place' >= End(mappings, m2) + 2 THEN m2 + 1 ELSE m2
  <2>3. m \in 0 .. M - 1 /\ m \in Nat /\ m + 1 \in 0 .. M /\ m + 1 \in 1 .. M
        /\ m < M /\ m <= M
    BY <1>1, <1>8
  <2>4. /\ e \in Mapping /\ a \in Nat \ {0} /\ b \in Nat
        /\ a <= b + 1 /\ b <= k
        /\ line = Piece(e, a, b)
        /\ a # 1 => a = k + 1 \/ failed \/ LineTooLong(e)
        /\ b # k => failed' \/ LineTooLong(e)
        /\ \/ b = k /\ Place' = F
           \/ Place' = E + b
    BY <1>1, <1>3, <2>3, TurnStands, Zenon
  <2>5. E \in Nat /\ F \in Nat /\ F = E + k + 1 /\ E <= Place
    <3>1. E \in Nat /\ F \in Nat
      BY <1>1, <2>3, TextLaidOut
    <3>2. End(mappings, m + 1) =
            End(mappings, (m + 1) - 1) + Len(KernelLine(mappings[m + 1])) + 1
      <4> DEFINE l == m + 1
      <4>1. l \in 1 .. M
        BY <2>3
      <4> HIDE DEF l
      <4>2. End(mappings, l) = End(mappings, l - 1) + Len(KernelLine(mappings[l])) + 1
        BY <1>1, <4>1, TextLaidOut
      <4> QED
        BY <4>2 DEF l
    <3>3. (m + 1) - 1 = m
      BY <2>3
    <3> QED
      BY <1>3, <3>1, <3>2, <3>3 DEF Standing
  <2>6. k \in Nat
    BY <2>4, KernelLineTyped, LenProperties
  <2>7. /\ ParseProcMapsLine(line) =>
             /\ a \in {1, 2} /\ 14 <= b
             /\ Damaged(entry, e)
        /\ a = 1 /\ b = k =>
             /\ e.blanks > 0 => ParseProcMapsLine(line)
             /\ ParseProcMapsLine(line) => entry = Canonical(e)
    <3> HIDE DEF a, b, e
    <3>1. /\ ParseProcMapsLine(Piece(e, a, b)) =>
               /\ a \in {1, 2} /\ 14 <= b
               /\ Damaged(Canonical(Parsed(Piece(e, a, b))), e)
          /\ a = 1 /\ b = Len(KernelLine(e)) =>
               /\ e.blanks > 0 => ParseProcMapsLine(Piece(e, a, b))
               /\ ParseProcMapsLine(Piece(e, a, b)) =>
                    Canonical(Parsed(Piece(e, a, b))) = Canonical(e)
      BY <2>4, PieceWritten
    <3> QED
      BY <2>4, <3>1, Zenon
  <2>8. /\ Origins(from) /\ \A i \in 1 .. n : from[i] <= U
        /\ ~failed => Complete(m, from)
    BY <1>3 DEF Accounted
  <2>9. a = Place - E + 1 /\ b = q - E
    OBVIOUS
  <2>10. m2 \in 0 .. M /\ Standing(m2)'
    <3>1. CASE b = k /\ Place' = F
      <4>1. m2 = m + 1
        BY <2>2, <3>1
      <4>2. \A l \in 1 .. M + 1 : l < M => Len(KernelLine(mappings[l + 1])) >= 0
        <5> SUFFICES ASSUME NEW l \in 1 .. M + 1, l < M
                     PROVE  Len(KernelLine(mappings[l + 1])) >= 0
          OBVIOUS
        <5>1. l + 1 \in 1 .. M
          BY <1>1
        <5>2. mappings[l + 1] \in Mapping
          BY <1>1, <5>1, ElementOfSeq
        <5> QED
          BY <5>2, KernelLineTyped, LenProperties
      <4>3. m + 1 < M => Len(KernelLine(mappings[(m + 1) + 1])) >= 0
        BY <2>3, <4>2
      <4>4. m + 1 < M => Len(KernelLine(mappings[(m + 1) + 1])) \in Nat
        <5>1. m + 1 < M => (m + 1) + 1 \in 1 .. M
          BY <1>1, <2>3
        <5>2. m + 1 < M => mappings[(m + 1) + 1] \in Mapping
          BY <1>1, <5>1, ElementOfSeq
        <5> QED
          BY <5>2, KernelLineTyped, LenProperties
      <4> HIDE DEF a, b, k, E, e
      <4>5. Standing(m + 1)'
        BY <1>1, <2>3, <2>5, <3>1, <4>4 DEF Standing
      <4> QED
        BY <2>3, <4>1, <4>5
    <3>2. CASE ~(b = k /\ Place' = F)
      <4>1. m2 = m /\ Place' = E + b
        BY <2>4, <2>2, <3>2
      <4>2. b # k => failed' \/ LineTooLong(e)
        BY <2>4
      <4>3. b \in Nat /\ b <= k
        BY <2>4
      <4> HIDE DEF a, b, F
      <4>4. Standing(m)'
        BY <1>1, <1>8, <2>3, <2>5, <2>6, <4>1, <4>2, <4>3 DEF Standing
      <4> QED
        BY <4>1, <4>4
    <3> QED
      BY <3>1, <3>2
  <2>11. U <= U2 /\ U \in Int /\ U2 \in Int
        /\ (a \in {1, 2} => U = m)
        /\ (14 <= b => m + 1 <= U2)
    <3>1. CASE b = k /\ Place' = F
      <4>1. m2 = m + 1
        BY <2>2, <3>1
      <4> HIDE DEF b, k, E
      <4> QED
        BY <1>6, <2>3, <2>5, <2>9, <4>1
    <3>2. CASE ~(b = k /\ Place' = F)
      <4>1. m2 = m /\ Place' = E + b
        BY <2>4, <2>2, <3>2
      <4>2. Place <= Place'
        BY <1>6, <2>5, <2>9, <4>1
      <4>3. End(mappings, m2) = E
        BY <4>1
      <4> HIDE DEF E
      <4> QED
        BY <1>6, <2>3, <2>5, <2>9, <4>1, <4>2, <4>3
    <3> QED
      BY <3>1, <3>2
\* What remains to be accounted for.
  <2>12. ASSUME ~failed', NEW j \in 1 .. M,
                j <= m2 \/ (j = m2 + 1 /\ Place' > End(mappings, m2)),
                Listable(mappings[j])
         PROVE  \/ Listed(from, j)
                \/ j = m + 1 /\ a = 1 /\ b = k
    <3>1. j <= m \/ j = m + 1
      <4>1. CASE b = k /\ Place' = F
        <5>1. m2 = m + 1
          BY <2>2, <4>1
        <5>2. End(mappings, m2) = F
          BY <5>1
        <5> HIDE DEF F
        <5> QED
          BY <2>3, <2>5, <2>12, <4>1, <5>1, <5>2
      <4>2. CASE ~(b = k /\ Place' = F)
        <5>1. m2 = m
          BY <2>2, <4>2
        <5> QED
          BY <2>3, <2>12, <5>1
      <4> QED
        BY <4>1, <4>2
    <3>2. Complete(m, from)
      BY <1>5, <2>8, <2>12
    <3>3. CASE j <= m \/ Place > E
      BY <2>12, <3>1, <3>2, <3>3 DEF Complete
    <3>4. CASE ~(j <= m \/ Place > E)
      <4>1. j = m + 1 /\ a = 1
        BY <1>6, <2>5, <2>9, <3>1, <3>4
      <4>2. ~LineTooLong(e)
        BY <2>12, <4>1 DEF Listable
      <4> QED
        BY <2>4, <2>12, <4>1, <4>2
    <3> QED
      BY <3>3, <3>4
  <2> HIDE DEF line, entry, a, b, k, U, U2, E, F
  <2>13. CASE /\ emitted' = emitted
              /\ ~(ParseProcMapsLine(line) /\ Len(entry) + 1 < KBufSize)
    <3>1. Origins(from)'
      BY <1>1, <1>5, <2>8, <2>13 DEF Origins
    <3>2. \A i \in Index(emitted') :
            from[i] <= IF Place' >= End(mappings', m2) + 2 THEN m2 + 1 ELSE m2
      <4>1. \A i \in 1 .. n : from[i] <= U2
        <5>1. \A i \in 1 .. n : from[i] \in Int
          OBVIOUS
        <5> QED
          BY <2>8, <2>11, <5>1
      <4> QED
        BY <1>1, <2>13, <4>1 DEF U2
    <3>3. ASSUME ~failed'
          PROVE  Complete(m2, from)'
      <4> SUFFICES ASSUME NEW j \in 1 .. M,
                          j <= m2 \/ (j = m2 + 1 /\ Place' > End(mappings, m2)),
                          Listable(mappings[j])
                   PROVE  Listed(from, j)'
        BY <1>1 DEF Complete
      <4>1. CASE Listed(from, j)
        BY <1>1, <2>13, <4>1 DEF Listed
      <4>2. CASE j = m + 1 /\ a = 1 /\ b = k
        <5>1. Listable(e)
          BY <4>2
        <5>2. ParseProcMapsLine(line) /\ entry = Canonical(e)
          BY <2>7, <4>2, <5>1 DEF Listable
        <5>3. Len(entry) + 1 < KBufSize
          BY <5>1, <5>2 DEF Listable
        <5> QED
          BY <2>13, <5>2, <5>3
      <4> QED
        BY <2>12, <3>3, <4>1, <4>2
    <3>4. Accounted(m2, from)'
      BY <3>1, <3>2, <3>3 DEF Accounted
    <3> QED
      BY <1>1, <2>10, <2>13, <3>4 DEF Progress
  <2>14. CASE /\ ParseProcMapsLine(line)
              /\ Len(emitted') = n + 1
              /\ \A i \in 1 .. n : emitted'[i] = emitted[i]
              /\ emitted'[n + 1] = entry
    <3>1. \E f \in [1 .. n + 1 -> 1 .. M] :
             f[n + 1] = m + 1 /\ \A i \in 1 .. n : f[i] = from[i]
      <4> DEFINE f == [i \in 1 .. n + 1 |-> IF i = n + 1 THEN m + 1 ELSE from[i]]
      <4>1. f \in [1 .. n + 1 -> 1 .. M] /\ f[n + 1] = m + 1
            /\ \A i \in 1 .. n : f[i] = from[i]
        BY <1>1, <2>3
      <4> HIDE DEF f
      <4> QED
        BY <4>1
    <3>2. PICK from2 \in [1 .. n + 1 -> 1 .. M] :
             from2[n + 1] = m + 1 /\ \A i \in 1 .. n : from2[i] = from[i]
      BY <3>1
    <3>3. a \in {1, 2} /\ 14 <= b /\ Damaged(entry, e)
      BY <2>7, <2>14
    <3>4. /\ from2 \in [1 .. n + 1 -> 1 .. M] /\ from2[n + 1] = m + 1
          /\ \A i \in 1 .. n : from2[i] = from[i]
          /\ \A i \in 1 .. n : i \in 1 .. n + 1
          /\ \A i \in 1 .. n : emitted'[i] = emitted[i]
          /\ \A i \in 1 .. n + 1 : i \in 1 .. n \/ i = n + 1
      BY <1>1, <2>3, <2>14, <3>2
    <3>5. ASSUME NEW i \in 1 .. n + 1
          PROVE  /\ \A j \in 1 .. i - 1 : from2[j] < from2[i]
                 /\ \/ emitted'[i] = Canonical(mappings[from2[i]])
                    \/ /\ failed' \/ LineTooLong(mappings[from2[i]])
                       /\ Damaged(emitted'[i], mappings[from2[i]])
      <4>1. CASE i \in 1 .. n
        <5>1. \A j \in 1 .. i - 1 : j \in 1 .. n /\ from[j] < from[i]
          BY <2>8, <4>1 DEF Origins
        <5>2. \A j \in 1 .. i - 1 : from2[j] < from2[i]
          BY <3>4, <4>1, <5>1
        <5>3. \/ emitted[i] = Canonical(mappings[from[i]])
              \/ /\ failed \/ LineTooLong(mappings[from[i]])
                 /\ Damaged(emitted[i], mappings[from[i]])
          BY <2>8, <4>1 DEF Origins
        <5>4. emitted'[i] = emitted[i] /\ from2[i] = from[i]
          BY <3>4, <4>1
        <5> QED
          BY <1>5, <5>2, <5>3, <5>4
      <4>2. CASE i = n + 1
        <5>1. \A j \in 1 .. i - 1 : j \in 1 .. n
          BY <1>1, <4>2
        <5>2. \A j \in 1 .. n : from[j] <= m /\ from[j] \in Int
          BY <2>8, <2>11, <3>3
        <5>3. \A j \in 1 .. i - 1 : from2[j] < from2[i]
          BY <2>3, <3>4, <4>2, <5>1, <5>2
        <5>4. emitted'[i] = entry /\ mappings[from2[i]] = e
          BY <2>14, <3>4, <4>2
        <5>5. CASE a = 1 /\ b = k
          <6>1. entry = Canonical(e)
            BY <2>7, <2>14, <5>5
          <6> QED
            BY <5>3, <5>4, <6>1
        <5>6. CASE ~(a = 1 /\ b = k)
          <6>1. a # 1 => failed \/ LineTooLong(e)
            BY <2>4, <2>6, <3>3
          <6>2. failed' \/ LineTooLong(e)
            BY <1>5, <2>4, <5>6, <6>1
          <6> HIDE DEF e
          <6>3. Damaged(emitted'[i], e)
            BY <3>3, <5>4
          <6> QED
            BY <5>3, <5>4, <6>2, <6>3
        <5> QED
          BY <5>5, <5>6
      <4> QED
        BY <3>4, <4>1, <4>2
    <3>6. Origins(from2)'
      BY <1>1, <2>14, <3>5 DEF Origins
    <3>7. \A i \in Index(emitted') :
            from2[i] <= IF Place' >= End(mappings', m2) + 2 THEN m2 + 1 ELSE m2
      <4>1. \A i \in 1 .. n + 1 : from2[i] <= U2
        <5>1. \A i \in 1 .. n : from[i] \in Int /\ from[i] <= U2
          <6>1. \A i \in 1 .. n : from[i] \in Int
            OBVIOUS
          <6> QED
            BY <2>8, <2>11, <6>1
        <5>2. m + 1 <= U2
          BY <2>11, <3>3
        <5> QED
          BY <3>4, <5>1, <5>2
      <4> QED
        BY <1>1, <2>14, <4>1 DEF U2
    <3>8. ASSUME ~failed'
          PROVE  Complete(m2, from2)'
      <4> SUFFICES ASSUME NEW j \in 1 .. M,
                          j <= m2 \/ (j = m2 + 1 /\ Place' > End(mappings, m2)),
                          Listable(mappings[j])
                   PROVE  Listed(from2, j)'
        BY <1>1 DEF Complete
      <4>1. CASE Listed(from, j)
        <5>1. PICK i \in 1 .. n : from[i] = j /\ emitted[i] = Canonical(mappings[j])
          BY <4>1 DEF Listed
        <5>2. i \in 1 .. n + 1 /\ from2[i] = j /\ emitted'[i] = Canonical(mappings[j])
          BY <3>4, <5>1
        <5> QED
          BY <1>1, <2>14, <5>2 DEF Listed
      <4>2. CASE j = m + 1 /\ a = 1 /\ b = k
        <5>1. entry = Canonical(mappings[j])
          BY <2>7, <2>14, <4>2
        <5>2. n + 1 \in 1 .. n + 1 /\ from2[n + 1] = j /\ emitted'[n + 1] = Canonical(mappings[j])
          BY <1>1, <2>14, <3>4, <4>2, <5>1
        <5> QED
          BY <1>1, <2>14, <5>2 DEF Listed
      <4> QED
        BY <2>12, <3>8, <4>1, <4>2
    <3>9. Accounted(m2, from2)'
      BY <3>6, <3>7, <3>8 DEF Accounted
    <3> QED
      BY <1>1, <2>10, <2>14, <3>4, <3>9 DEF Progress
  <2> QED
    BY <1>4, <2>13, <2>14
<1> QED
  BY <1>7, <1>8

-----------------------------------------------------------------------------
(* The file changes.                                                       *)

LEMMA BegunLines ==
  ASSUME mappings \in Seq(Mapping), offset \in 0 .. Len(MapsText(mappings))
  PROVE  Begun \in 0 .. Len(mappings) /\ offset <= End(mappings, Begun)
<1> DEFINE M == Len(mappings)
           Last(n) == /\ offset <= End(mappings, n)
                      /\ n > 0 => offset > End(mappings, n - 1)
           S == {n \in 0 .. M : offset <= End(mappings, n)}
<1>1. /\ M \in Nat /\ End(mappings, M) = Len(MapsText(mappings))
      /\ \A n \in 0 .. M : End(mappings, n) \in Nat
  BY TextLaidOut, LenProperties
<1> HIDE DEF M
<1>2. M \in S /\ S \in SUBSET Nat
  BY <1>1
<1>3. PICK n \in S : \A l \in S : n <= l
  <2> HIDE DEF S
  <2> QED
    BY <1>2, LeastExists
<1>4. n \in 0 .. M /\ Last(n)
  <2>1. n \in 0 .. M /\ offset <= End(mappings, n)
    BY <1>3
  <2>2. ASSUME n > 0
        PROVE  offset > End(mappings, n - 1)
    <3>1. n - 1 \in 0 .. M /\ ~(n - 1 \in S)
      BY <1>1, <1>3, <2>1, <2>2
    <3> QED
      BY <1>1, <3>1
  <2> QED
    BY <2>1, <2>2
<1>5. Begun = CHOOSE l \in 0 .. M : Last(l)
  BY Zenon DEF Begun, End, Text, M
<1> HIDE DEF Last
<1>6. Begun \in 0 .. M /\ Last(Begun)
  BY <1>4, <1>5
<1> QED
  BY <1>6 DEF Last, M

\* Two files that begin with the same mappings begin with the same text.
LEMMA SameBeginning ==
  ASSUME NEW f \in Seq(Mapping), NEW g \in Seq(Mapping),
         NEW n \in 0 .. Len(f), n <= Len(g), SubSeq(f, 1, n) = SubSeq(g, 1, n)
  PROVE  /\ \A i \in 1 .. n : g[i] = f[i]
         /\ \A m \in 0 .. n : Text(g, m) = Text(f, m) /\ End(g, m) = End(f, m)
         /\ \A x \in 1 .. End(f, n) : MapsText(g)[x] = MapsText(f)[x]
<1>1. n \in 0 .. Len(g) /\ n \in Nat /\ Len(f) \in Nat /\ Len(g) \in Nat
  BY LenProperties
<1>2. \A i \in 1 .. n : g[i] = f[i]
  <2>1. \A i \in 1 .. n : SubSeq(f, 1, n)[i] = f[i]
    BY PrefixOfFile
  <2>2. \A i \in 1 .. n : SubSeq(g, 1, n)[i] = g[i]
    BY <1>1, PrefixOfFile
  <2> QED
    BY <2>1, <2>2
<1>3. ASSUME NEW m \in 0 .. n
      PROVE  SubSeq(g, 1, m) = SubSeq(f, 1, m)
  <2> DEFINE s == SubSeq(g, 1, m)
             t == SubSeq(f, 1, m)
  <2>1. m \in 0 .. Len(f) /\ m \in 0 .. Len(g) /\ \A i \in 1 .. m : i \in 1 .. n
    BY <1>1
  <2>2. s \in Seq(Mapping) /\ Len(s) = m /\ \A i \in 1 .. m : s[i] = g[i]
    BY <2>1, PrefixOfFile
  <2>3. t \in Seq(Mapping) /\ Len(t) = m /\ \A i \in 1 .. m : t[i] = f[i]
    BY <2>1, PrefixOfFile
  <2> HIDE DEF s, t
  <2>4. \A i \in 1 .. Len(s) : s[i] = t[i]
    BY <1>2, <2>1, <2>2, <2>3
  <2>5. s = t
    BY <2>2, <2>3, <2>4, SeqEqual
  <2> QED
    BY <2>5 DEF s, t
<1>4. \A m \in 0 .. n : Text(g, m) = Text(f, m) /\ End(g, m) = End(f, m)
  BY <1>3, Zenon DEF Text, End
<1>5. /\ \A x \in 1 .. End(f, n) : MapsText(f)[x] = Text(f, n)[x]
      /\ \A x \in 1 .. End(g, n) : MapsText(g)[x] = Text(g, n)[x]
  BY <1>1, TextLaidOut
<1>6. Text(g, n) = Text(f, n) /\ End(g, n) = End(f, n)
  BY <1>1, <1>4
<1>7. \A x \in 1 .. End(f, n) : MapsText(g)[x] = MapsText(f)[x]
  BY <1>5, <1>6
<1> QED
  BY <1>2, <1>4, <1>7

\* What Remap leaves as it is.
Kept(n) ==
  /\ n \in 0 .. Len(mappings) /\ n \in 0 .. Len(mappings')
  /\ offset <= End(mappings, n)
  /\ mappings' \in Seq(Mapping) /\ maps' = MapsText(mappings')
  /\ \A i \in 1 .. n : mappings'[i] = mappings[i]
  /\ \A m \in 0 .. n : End(mappings', m) = End(mappings, m)
  /\ \A x \in 1 .. End(mappings, n) : maps'[x] = maps[x]

LEMMA RemapKeeps ==
  ASSUME MapsInv, Unlost, Remap
  PROVE  \E n : Kept(n)
<1> DEFINE n == Begun
           begun == SubSeq(mappings, 1, n)
<1>1. mappings \in Seq(Mapping) /\ maps = MapsText(mappings) /\ offset \in 0 .. Len(maps)
  BY FileTyped DEF MapsInv, Typed, Pointers, Unlost
<1>2. n \in 0 .. Len(mappings) /\ offset <= End(mappings, n)
  BY <1>1, BegunLines
<1>3. /\ mappings' \in MapsFiles /\ maps' = MapsText(mappings')
      /\ Len(begun) <= Len(mappings')
      /\ begun = SubSeq(mappings', 1, Len(begun))
  BY Zenon DEF Remap
<1>4. mappings' \in Seq(Mapping) /\ Len(mappings') \in Nat
  BY <1>3, ProcMapsAssumption, LenProperties DEF ProcMapsAssumption
<1>5. Len(begun) = n
  BY <1>1, <1>2, PrefixOfFile
<1> HIDE DEF n
<1>6. n \in 0 .. Len(mappings') /\ n <= Len(mappings')
      /\ SubSeq(mappings, 1, n) = SubSeq(mappings', 1, n)
  BY <1>2, <1>3, <1>4, <1>5
<1> DEFINE g == mappings'
<1> HIDE DEF g
<1>7. g \in Seq(Mapping) /\ n <= Len(g) /\ SubSeq(mappings, 1, n) = SubSeq(g, 1, n)
  BY <1>4, <1>6 DEF g
<1>8. /\ \A i \in 1 .. n : g[i] = mappings[i]
      /\ \A m \in 0 .. n : Text(g, m) = Text(mappings, m) /\ End(g, m) = End(mappings, m)
      /\ \A x \in 1 .. End(mappings, n) : MapsText(g)[x] = MapsText(mappings)[x]
  BY <1>1, <1>2, <1>7, SameBeginning
<1>9. Kept(n)
  BY <1>1, <1>2, <1>3, <1>4, <1>6, <1>8 DEF Kept, g
<1> QED
  BY <1>9

LEMMA RemapUnlost ==
  ASSUME MapsInv, Unlost, Remap
  PROVE  Unlost' /\ Place' = Place
<1>1. PICK n : Kept(n)
  BY RemapKeeps
<1>2. UNCHANGED <<offset, buf, stext, etext, nextline>>
  BY DEF Remap, bufVars
<1>3. Place' = Place
  BY <1>2 DEF Place
<1>4. /\ Place \in Nat /\ offset = Place + etext - nextline /\ offset \in Nat
      /\ nextline \in Nat /\ etext \in Nat
  BY PlaceTyped, BufferSize DEF MapsInv, Unlost, Pointers, Cells
<1>5. ASSUME NEW c \in nextline .. etext - 1
      PROVE  buf[c] = maps'[Place + c - nextline + 1]
  <2> DEFINE x == Place + c - nextline + 1
  <2>1. End(mappings, n) \in Nat
    BY <1>1, FileTyped, TextLaidOut DEF MapsInv, Typed, Kept
  <2>2. x \in 1 .. End(mappings, n)
    BY <1>1, <1>4, <2>1 DEF Kept
  <2>3. buf[c] = maps[x]
    BY DEF Unlost
  <2> HIDE DEF x
  <2>4. maps'[x] = maps[x]
    BY <1>1, <2>2 DEF Kept
  <2> QED
    BY <2>3, <2>4 DEF x
<1> QED
  BY <1>1, <1>2, <1>3, <1>4, <1>5 DEF Unlost, Kept

LEMMA RemapProgress ==
  ASSUME MapsInv, Unlost, Remap, Progress
  PROVE  Progress'
<1> USE DEF Index
<1>1. PICK n : Kept(n)
  BY RemapKeeps
<1>2. PICK m \in 0 .. Len(mappings) :
        \E from \in [1 .. Len(emitted) -> 1 .. Len(mappings)] :
          Standing(m) /\ Accounted(m, from)
  BY DEF Progress
<1>3. PICK from \in [1 .. Len(emitted) -> 1 .. Len(mappings)] :
        Standing(m) /\ Accounted(m, from)
  BY <1>2
<1>4. Place' = Place /\ emitted' = emitted /\ failed' = failed
  BY RemapUnlost DEF Remap
<1>5. /\ mappings \in Seq(Mapping) /\ Len(mappings) \in Nat /\ Len(mappings') \in Nat
      /\ Place \in Nat /\ Place <= offset /\ offset \in Nat
      /\ n \in 0 .. Len(mappings) /\ n \in 0 .. Len(mappings') /\ n \in Nat
      /\ offset <= End(mappings, n)
  BY <1>1, FileTyped, PlaceTyped, LenProperties DEF MapsInv, Typed, Unlost, Kept
<1>6. /\ \A i \in 0 .. Len(mappings) : End(mappings, i) \in Nat
      /\ \A i, j \in 0 .. Len(mappings) : i < j => End(mappings, i) < End(mappings, j)
  BY <1>5, TextLaidOut
<1>7. End(mappings, m) <= Place /\ Place <= End(mappings, n)
      /\ End(mappings, m) \in Nat /\ End(mappings, n) \in Nat
  BY <1>3, <1>5, <1>6 DEF Standing
\* The lines it has begun are kept.
<1>8. m <= n /\ (Place # End(mappings, m) => m + 1 <= n)
  <2>1. ~(n < m)
    BY <1>5, <1>6, <1>7
  <2>2. m = n => Place = End(mappings, m)
    BY <1>5, <1>7
  <2> QED
    BY <1>5, <2>1, <2>2
<1>9. /\ m \in 0 .. Len(mappings') /\ m \in 0 .. n /\ m \in Nat
      /\ End(mappings', m) = End(mappings, m)
  BY <1>1, <1>5, <1>8 DEF Kept
<1>10. /\ \A i \in 1 .. n : mappings'[i] = mappings[i] /\ i \in 1 .. Len(mappings')
                            /\ i \in 1 .. Len(mappings)
  BY <1>1, <1>5 DEF Kept
<1>11. ASSUME Place # End(mappings, m)
       PROVE  /\ m < Len(mappings) /\ m < Len(mappings')
              /\ mappings'[m + 1] = mappings[m + 1]
  BY <1>5, <1>8, <1>9, <1>10, <1>11
<1>12. Standing(m)'
  <2>1. CASE Place # End(mappings, m)
    BY <1>3, <1>4, <1>9, <1>11, <2>1 DEF Standing
  <2>2. CASE Place = End(mappings, m)
    <3>1. m < Len(mappings') => Len(KernelLine(mappings'[m + 1])) \in Nat
      <4>1. m < Len(mappings') => mappings'[m + 1] \in Mapping
        BY <1>1, <1>5, <1>9, ElementOfSeq DEF Kept
      <4> QED
        BY <4>1, KernelLineTyped, LenProperties
    <3> QED
      BY <1>4, <1>7, <1>9, <2>2, <3>1 DEF Standing
  <2> QED
    BY <2>1, <2>2
<1>13. ASSUME NEW i \in 1 .. Len(emitted)
       PROVE  from[i] \in 1 .. n
  <2>1. from[i] <= (IF Place >= End(mappings, m) + 2 THEN m + 1 ELSE m)
    BY <1>3 DEF Accounted
  <2>2. from[i] \in Nat /\ from[i] >= 1
    BY <1>5
  <2> QED
    BY <1>5, <1>7, <1>8, <1>9, <2>1, <2>2
<1>14. Origins(from)'
  <2>1. \A i \in 1 .. Len(emitted) : mappings'[from[i]] = mappings[from[i]]
    BY <1>10, <1>13
  <2>2. Origins(from)
    BY <1>3 DEF Accounted
  <2> QED
    BY <1>4, <2>1, <2>2 DEF Origins
<1>15. ASSUME ~failed'
       PROVE  Complete(m, from)'
  <2> SUFFICES ASSUME NEW j \in 1 .. Len(mappings'),
                      j <= m \/ (j = m + 1 /\ Place > End(mappings, m)),
                      Listable(mappings'[j])
               PROVE  Listed(from, j)'
    BY <1>4, <1>9 DEF Complete
  <2>1. j \in 1 .. n
    BY <1>5, <1>7, <1>8, <1>9
  <2>2. mappings'[j] = mappings[j] /\ j \in 1 .. Len(mappings)
    BY <1>10, <2>1
  <2>3. Complete(m, from)
    BY <1>3, <1>4, <1>15 DEF Accounted
  <2>4. Listed(from, j)
    BY <2>2, <2>3 DEF Complete
  <2> QED
    BY <1>4, <2>2, <2>4 DEF Listed
<1>16. Accounted(m, from)'
  <2>1. \A i \in 1 .. Len(emitted) :
          from[i] <= IF Place >= End(mappings, m) + 2 THEN m + 1 ELSE m
    BY <1>3 DEF Accounted
  <2> QED
    BY <1>4, <1>9, <1>14, <1>15, <2>1 DEF Accounted
<1>17. from \in [1 .. Len(emitted') -> 1 .. Len(mappings')]
  BY <1>4, <1>10, <1>13
<1> QED
  BY <1>9, <1>12, <1>16, <1>17 DEF Progress

-----------------------------------------------------------------------------
(* The theorems.                                                           *)

\* The loop ends where the file does, unless a read fails.
Finished == done /\ ~failed => Place = Len(maps) \/ EBuf = 0

IteratorInv == MapsInv /\ Unlost /\ Progress /\ Finished

LEMMA InitIterator == Init => IteratorInv
<1> SUFFICES ASSUME Init
             PROVE  IteratorInv
  OBVIOUS
<1>1. MapsInv
  BY InitMaps
<1>2. /\ offset = 0 /\ etext = 0 /\ nextline = 0 /\ emitted = << >> /\ done = FALSE
      /\ maps = MapsText(mappings)
  BY DEF Init
<1>3. mappings \in Seq(Mapping)
  BY <1>1, FileTyped DEF MapsInv, Typed
<1> HIDE DEF Init
<1>4. Place = 0
  BY <1>2 DEF Place
<1>5. Unlost
  BY <1>2, <1>4 DEF Unlost
<1>6. Len(mappings) \in Nat /\ 0 \in 0 .. Len(mappings) /\ End(mappings, 0) = 0
      /\ \A j \in Index(mappings) : j \in Nat /\ j >= 1
  BY <1>3, TextLaidOut, LenProperties DEF Index
<1>7. Standing(0)
  <2>1. 0 < Len(mappings) => Len(KernelLine(mappings[0 + 1])) \in Nat
    <3>1. 0 < Len(mappings) => mappings[0 + 1] \in Mapping
      BY <1>3, <1>6, ElementOfSeq
    <3> QED
      BY <3>1, KernelLineTyped, LenProperties
  <2> QED
    BY <1>4, <1>6, <2>1 DEF Standing
<1>8. Index(emitted) = {}
  BY <1>2 DEF Index
<1>9. PICK from \in [Index(emitted) -> Index(mappings)] : TRUE
  <2>1. [i \in Index(emitted) |-> i] \in [Index(emitted) -> Index(mappings)]
    BY <1>8
  <2> QED
    BY <2>1
<1>10. Accounted(0, from)
  <2>1. Origins(from)
    BY <1>8 DEF Origins
  <2>2. Complete(0, from)
    BY <1>4, <1>6 DEF Complete
  <2> QED
    BY <1>8, <2>1, <2>2 DEF Accounted
<1>11. Progress
  BY <1>6, <1>7, <1>9, <1>10 DEF Progress
<1> QED
  BY <1>1, <1>2, <1>5, <1>11 DEF IteratorInv, Finished

LEMMA TurnIterator ==
  ASSUME IteratorInv, Turn
  PROVE  IteratorInv'
<1>1. MapsInv /\ Pointers /\ Unlost /\ Progress /\ ~done
  BY DEF IteratorInv, MapsInv, Turn
<1>2. UNCHANGED <<mappings, maps>>
  BY DEF Turn
<1>3. PICK q : GoneTo(q)
  BY <1>1, <1>2, BufferedReads, RefillReads DEF Turn
<1>4. MapsInv'
  BY <1>1, TurnMaps
<1>5. Progress'
  BY <1>1, <1>3, TurnProgress
<1>6. Unlost'
  <2>1. Place \in Nat /\ q \in Nat
    BY <1>1, <1>3, PlaceTyped DEF Unlost, GoneTo
  <2>2. Place' = q + 1 \/ Place' = q
    BY <1>3 DEF GoneTo
  <2>3. \A c \in nextline' .. etext' - 1 : buf'[c] = maps'[Place' + c - nextline' + 1]
    BY <1>3 DEF GoneTo
  <2>4. maps' = MapsText(mappings')
    BY <1>1, <1>2 DEF Unlost
  <2> QED
    BY <2>1, <2>2, <2>3, <2>4 DEF Unlost
<1>7. Finished'
  <2> SUFFICES ASSUME done', ~failed'
               PROVE  Place' = Len(maps') \/ EBuf = 0
    BY DEF Finished
  <2>1. etext' = 0
    <3> DEFINE line == Line(buf', stext')
    <3>1. CASE ParseProcMapsLine(line)
      <4>1. done' = done
        BY <3>1, Zenon DEF Turn
      <4> QED
        BY <1>1, <4>1
    <3>2. CASE ~ParseProcMapsLine(line)
      <4>1. done' = (etext' = 0)
        BY <3>2, Zenon DEF Turn
      <4> QED
        BY <4>1
    <3> QED
      BY <3>1, <3>2
  <2>2. Place' = q /\ q = Place /\ (q - Place = EBuf \/ q = Len(maps))
    BY <1>3, <2>1 DEF GoneTo
  <2>3. Place \in Nat /\ EBuf \in Nat
    BY <1>1, PlaceTyped DEF Unlost
  <2> QED
    BY <1>2, <2>2, <2>3
<1> QED
  BY <1>4, <1>5, <1>6, <1>7 DEF IteratorInv

LEMMA RemapIterator ==
  ASSUME IteratorInv, Remap
  PROVE  IteratorInv'
<1>1. MapsInv /\ Unlost /\ Progress
  BY DEF IteratorInv
<1>2. ~done' 
  BY DEF Remap
<1> QED
  BY <1>1, <1>2, RemapMaps, RemapUnlost, RemapProgress DEF IteratorInv, Finished

LEMMA NextIterator == IteratorInv /\ [Next]_vars => IteratorInv'
<1>1. ASSUME IteratorInv, UNCHANGED vars
      PROVE  IteratorInv'
  <2>1. UNCHANGED <<mappings, maps, offset, buf, stext, etext, nextline,
                    emitted, failed, done>>
    BY <1>1 DEF vars, fileVars, bufVars
  <2>2. MapsInv'
    BY <1>1, <2>1 DEF IteratorInv, MapsInv, Pointers, Terminated, TextRead, Typed
  <2>3. Place' = Place
    BY <2>1 DEF Place
  <2>4. Unlost' /\ Finished'
    BY <1>1, <2>1, <2>3 DEF IteratorInv, Unlost, Finished
  <2>5. Progress'
    <3>1. PICK m \in 0 .. Len(mappings), from \in [Index(emitted) -> Index(mappings)] :
            Standing(m) /\ Accounted(m, from)
      BY <1>1 DEF IteratorInv, Progress
    <3>2. Standing(m)'
      BY <2>1, <2>3, <3>1 DEF Standing
    <3>3. Accounted(m, from)'
      BY <2>1, <2>3, <3>1 DEF Accounted, Origins, Complete, Listed
    <3> QED
      BY <2>1, <3>1, <3>2, <3>3 DEF Progress
  <2> QED
    BY <2>2, <2>4, <2>5 DEF IteratorInv
<1> QED
  BY <1>1, TurnIterator, RemapIterator DEF Next

\* Whatever the buffer's size, the file and its changes, the refills and the
\* reads that fail, what write_trailer() writes are the canonical lines of
\* mappings in the order of the file, each at most once; only a line that is too
\* long for the buffer, or a read that failed, can have damaged one.
THEOREM EntriesAlwaysInOrder == Spec => []EntriesInOrder
<1>1. IteratorInv => EntriesInOrder
  BY DEF IteratorInv, Progress, Accounted, EntriesInOrder
<1> QED
  BY <1>1, InitIterator, NextIterator, PTL DEF Spec

LEMMA AllListed ==
  ASSUME IteratorInv, done, ~failed
  PROVE  \E from \in [Index(emitted) -> Index(mappings)] :
           /\ Origins(from)
           /\ \A j \in Index(mappings) : Listable(mappings[j]) => Listed(from, j)
<1>1. PICK m \in 0 .. Len(mappings), from \in [Index(emitted) -> Index(mappings)] :
        Standing(m) /\ Accounted(m, from)
  BY DEF IteratorInv, Progress
<1>2. mappings \in Seq(Mapping) /\ Len(mappings) \in Nat
  BY FileTyped, LenProperties DEF IteratorInv, MapsInv, Typed
<1>3. ASSUME NEW j \in Index(mappings), Listable(mappings[j])
      PROVE  Listed(from, j)
  <2>1. mappings[j] \in Mapping
    BY <1>2, ElementOfSeq DEF Index
  <2>2. EBuf # 0
    <3> DEFINE e == mappings[j]
               k == Len(KernelLine(e))
    <3>1. k = 13 + e.blanks + Len(e.filename) /\ e.blanks \in Nat
          /\ Len(e.filename) \in Nat
      BY <2>1, MappingFields, LineLaidOut
    <3>2. ~(k > EBuf)
      BY <1>3 DEF Listable, LineTooLong
    <3> HIDE DEF k
    <3> QED
      BY <3>1, <3>2
  <2>3. Place = Len(maps) /\ maps = MapsText(mappings)
    BY <2>2 DEF IteratorInv, Finished, Unlost
  <2>4. m = Len(mappings)
    <3> SUFFICES ASSUME m # Len(mappings)
                 PROVE  FALSE
      OBVIOUS
    <3> DEFINE l == m + 1
               M == Len(mappings)
    <3>1. l \in 1 .. M /\ l \in 0 .. M /\ M \in 0 .. M /\ l <= M /\ l - 1 = m /\ m < M
          /\ m \in 0 .. M
      BY <1>2
    <3>2. Place <= End(mappings, m) + Len(KernelLine(mappings[l]))
      BY <1>1, <3>1 DEF Standing
    <3> HIDE DEF l, M
    <3>3. /\ End(mappings, l) = End(mappings, l - 1) + Len(KernelLine(mappings[l])) + 1
          /\ End(mappings, l) <= End(mappings, M)
          /\ End(mappings, m) \in Nat
          /\ End(mappings, M) = Len(MapsText(mappings))
      BY <1>2, <3>1, TextLaidOut DEF M
    <3>4. Len(KernelLine(mappings[l])) \in Nat
      BY <1>2, <3>1, ElementOfSeq, KernelLineTyped, LenProperties DEF M
    <3>5. End(mappings, M) \in Nat /\ End(mappings, l) \in Nat
      BY <1>2, <3>1, TextLaidOut DEF M
    <3> QED
      BY <2>3, <3>1, <3>2, <3>3, <3>4, <3>5
  <2>5. Complete(m, from) /\ j <= m
    BY <1>1, <1>2, <2>4 DEF Accounted, Index
  <2> QED
    BY <1>3, <2>5 DEF Complete
<1>4. Origins(from)
  BY <1>1 DEF Accounted
<1> QED
  BY <1>3, <1>4

\* When the loop has ended and no read has failed, every mapping whose line fits
\* into the buffers and is of the form that the parser knows has been listed,
\* unchanged and in its place: no refill loses a line, whatever the buffer's
\* size and however the file changed meanwhile.
THEOREM TrailerAlwaysComplete == Spec => []TrailerComplete
<1>1. IteratorInv => TrailerComplete
  BY AllListed DEF TrailerComplete, Listed
<1> QED
  BY <1>1, InitIterator, NextIterator, PTL DEF Spec
=============================================================================
