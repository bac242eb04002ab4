-------------------------- MODULE ProfileFileProofs --------------------------
(***************************************************************************)
(* The native profile holds defined words only, and pprof's reader stays   *)
(* in step with its writer, for every depth of the stack array, all stacks *)
(* and any number of samples.                                              *)
(***************************************************************************)
EXTENDS ProfileFile, TLAPS, Iteration, SequenceTheorems

LEMMA UnwoundDepth ==
  ASSUME NEW frames \in Unwound
  PROVE  /\ Len(frames) \in 0 .. KMaxStackDepth - 1
         /\ frames \in [1 .. Len(frames) -> Addresses]
  <1>1. PICK d \in 0 .. KMaxStackDepth - 1 : frames \in [1 .. d -> Addresses]
    BY DEF Unwound
  <1>2. Len(frames) = d
    BY <1>1, ProfileFileAssumption DEF ProfileFileAssumption
  <1> QED
    BY <1>1, <1>2

\* A record is one sample's value, its depth and as many addresses: the frames,
\* with or without the pc.  They come from cells inside the array, the last of
\* which is one cell below its end at the most.
AddressAt(pc, frames, depth, w) ==
  IF depth = Len(frames) THEN frames[w]
  ELSE IF w = 1 THEN pc ELSE frames[w - 1]

LEMMA RecordWords ==
  ASSUME NEW pc \in Addresses, NEW frames \in Unwound, NEW same \in BOOLEAN
  PROVE  LET depth == Depth(frames, same)
             record == Record(pc, frames, same)
         IN  /\ depth \in Nat \ {0}
             /\ depth \in {Len(frames), Len(frames) + 1}
             /\ record = [w \in 1 .. depth + 2 |-> record[w]]
             /\ record[1] = 1
             /\ record[2] = depth
             /\ \A w \in 1 .. depth :
                  /\ record[w + 2] = AddressAt(pc, frames, depth, w)
                  /\ record[w + 2] \in Addresses
<1> DEFINE start == Start(frames, same)
           depth == Depth(frames, same)
           stack == [Loaded(pc, frames) EXCEPT ![start - 2] = 1,
                                               ![start - 1] = depth]
<1>1. /\ Len(frames) \in 0 .. KMaxStackDepth - 1
      /\ frames \in [1 .. Len(frames) -> Addresses]
  BY UnwoundDepth
<1>2. \/ start = 2 /\ depth = Len(frames) + 1
      \/ start = 3 /\ depth = Len(frames) /\ Len(frames) > 0
  BY DEF Start, Depth, Duplicate
<1>3. KMaxStackDepth \in Nat
  BY ProfileFileAssumption DEF ProfileFileAssumption
<1>4. depth \in Nat \ {0} /\ depth \in {Len(frames), Len(frames) + 1}
  BY <1>1, <1>2
<1>5. ASSUME NEW w \in 1 .. depth + 2
      PROVE  stack[start - 3 + w] = IF w = 2 THEN depth
                                    ELSE IF w = 1 THEN 1
                                    ELSE Loaded(pc, frames)[start - 3 + w]
  <2>1. {start - 3 + w, start - 1, start - 2} \subseteq Cells
    BY <1>1, <1>2, <1>3 DEF Cells
  <2>2. DOMAIN Loaded(pc, frames) = Cells
    BY DEF Loaded
  <2>3. /\ start \in Int /\ w \in Int
        /\ (start - 3 + w = start - 2) <=> (w = 1)
        /\ (start - 3 + w = start - 1) <=> (w = 2)
    BY <1>2, <1>4
  <2> HIDE DEF depth, start
  <2> QED
    BY <2>1, <2>2, <2>3
<1>6. ASSUME NEW w \in 1 .. depth
      PROVE  /\ Loaded(pc, frames)[start - 3 + (w + 2)]
                  = AddressAt(pc, frames, depth, w)
             /\ AddressAt(pc, frames, depth, w) \in Addresses
  <2>1. start - 3 + (w + 2) \in Cells
    BY <1>1, <1>2, <1>3, <1>4 DEF Cells
  <2> HIDE DEF start, depth
  <2> QED
    BY <1>1, <1>2, <2>1 DEF Loaded, AddressAt
<1>7. Record(pc, frames, same) = [w \in 1 .. depth + 2 |-> stack[start - 3 + w]]
  BY DEF Record
<1>8. ASSUME NEW w \in 1 .. depth
      PROVE  Record(pc, frames, same)[w + 2] = Loaded(pc, frames)[start - 3 + (w + 2)]
  <2>1. w + 2 \in 1 .. depth + 2 /\ w + 2 # 1 /\ w + 2 # 2
    BY <1>4
  <2> HIDE DEF start, depth, stack
  <2> QED
    BY <1>5, <1>7, <2>1
<1>9. 1 \in 1 .. depth + 2 /\ 2 \in 1 .. depth + 2
  BY <1>4
<1> HIDE DEF start, depth, stack
<1> QED
  BY <1>4, <1>5, <1>6, <1>7, <1>8, <1>9 DEF depth

LEMMA RecordDefined ==
  ASSUME NEW pc \in Addresses, NEW frames \in Unwound, NEW same \in BOOLEAN
  PROVE  /\ Record(pc, frames, same) \in Seq(Words)
         /\ Len(Record(pc, frames, same)) = Depth(frames, same) + 2
<1> DEFINE depth == Depth(frames, same)
           record == Record(pc, frames, same)
<1>1. /\ depth \in Nat
      /\ record = [w \in 1 .. depth + 2 |-> record[w]]
      /\ record[1] = 1 /\ record[2] = depth
      /\ \A w \in 1 .. depth : record[w + 2] \in Addresses
  BY RecordWords
<1>2. Addresses \subseteq Nat
  BY ProfileFileAssumption DEF ProfileFileAssumption
<1> HIDE DEF depth, record
<1>3. ASSUME NEW w \in 1 .. depth + 2
      PROVE  record[w] \in Words
  <2>1. w = 1 \/ w = 2 \/ (w - 2 \in 1 .. depth /\ (w - 2) + 2 = w)
    BY <1>1
  <2> QED
    BY <1>1, <1>2, <2>1 DEF Words
<1>4. record \in [1 .. depth + 2 -> Words]
  BY <1>1, <1>3
<1> QED
  BY <1>1, <1>4 DEF depth, record

\* Whole or cut off by a full disk, what is put into the file is what was given;
\* nothing follows what was cut off.
LEMMA PutAppends ==
  ASSUME TypeOK, NEW words \in Seq(Words), Put(words)
  PROVE  /\ file' \in Seq(Words) /\ failed' \in BOOLEAN
         /\ Len(file) <= Len(file')
         /\ \A i \in 1 .. Len(file) : file'[i] = file[i]
         /\ failed => failed' /\ file' = file
         /\ ~failed =>
              /\ \A w \in 1 .. Len(words) :
                   Len(file) + w <= Len(file') => file'[Len(file) + w] = words[w]
              /\ IF failed' THEN Len(file') < Len(file) + Len(words)
                 ELSE Len(file') = Len(file) + Len(words)
<1>1. CASE failed
  BY <1>1 DEF Put, TypeOK
<1>2. CASE ~failed /\ file' = file \o words /\ UNCHANGED failed
  BY <1>2 DEF TypeOK
<1>3. ASSUME ~failed, failed' = TRUE, NEW n \in 0 .. Len(words) - 1,
             file' = file \o SubSeq(words, 1, n)
      PROVE  /\ file' \in Seq(Words) /\ failed'
             /\ Len(file') = Len(file) + n
             /\ \A i \in 1 .. Len(file) : file'[i] = file[i]
             /\ \A w \in 1 .. n : file'[Len(file) + w] = words[w]
  <2>1. \A i \in 1 .. n : words[i] \in Words
    OBVIOUS
  <2>2. /\ SubSeq(words, 1, n) \in Seq(Words)
        /\ Len(SubSeq(words, 1, n)) = n
        /\ \A i \in 1 .. n : SubSeq(words, 1, n)[i] = words[i]
    BY <2>1, SubSeqProperties
  <2> QED
    BY <1>3, <2>2 DEF TypeOK
<1>4. CASE ~failed /\ failed' = TRUE
           /\ \E n \in 0 .. Len(words) - 1 : file' = file \o SubSeq(words, 1, n)
  <2>1. PICK n \in 0 .. Len(words) - 1 : file' = file \o SubSeq(words, 1, n)
    BY <1>4
  <2>2. /\ file' \in Seq(Words) /\ failed'
        /\ Len(file') = Len(file) + n
        /\ \A i \in 1 .. Len(file) : file'[i] = file[i]
        /\ \A w \in 1 .. n : file'[Len(file) + w] = words[w]
    BY <1>3, <1>4, <2>1
  <2>3. ASSUME NEW w \in 1 .. Len(words), Len(file) + w <= Len(file')
        PROVE  w \in 1 .. n
    BY <2>2, <2>3 DEF TypeOK
  <2> QED
    BY <1>4, <2>2, <2>3 DEF TypeOK
<1> QED
  BY <1>1, <1>2, <1>4 DEF Put

LEMMA FixedWords ==
  Header \in Seq(Words) /\ Trailer \o <<Text>> \in Seq(Words)
<1>1. {0, 1, 3, 20000, Text} \subseteq Words
  BY DEF Words
<1> QED
  BY <1>1 DEF Header, Trailer

LEMMA NextTypeOK ==
  ASSUME TypeOK, Next
  PROVE  TypeOK'
<1>1. CASE WriteHeader
  BY <1>1, PutAppends, FixedWords DEF WriteHeader, TypeOK
<1>2. ASSUME NEW pc \in Addresses, NEW frames \in Unwound,
             NEW same \in BOOLEAN, WriteStackTrace(pc, frames, same)
      PROVE  TypeOK'
  <2>1. file' \in Seq(Words) /\ failed' \in BOOLEAN
    BY <1>2, RecordDefined, PutAppends DEF WriteStackTrace
  <2>2. traces' \in Seq([pc : Addresses, frames : Unwound])
    BY <1>2 DEF WriteStackTrace, TypeOK
  <2> QED
    BY <1>2, <2>1, <2>2 DEF WriteStackTrace, TypeOK
<1>3. CASE WriteTrailer
  BY <1>3, PutAppends, FixedWords DEF WriteTrailer, TypeOK
<1> QED
  BY <1>1, <1>2, <1>3 DEF Next

\* Whatever the depth of the stack and whichever way the comparison of the two
\* unwritten cells comes out, no unwritten cell reaches the file.
THEOREM OnlyDefinedWords == Spec => []TypeOK
<1>1. Init => TypeOK
  <2>1. << >> \in Seq(Words) /\ << >> \in Seq([pc : Addresses, frames : Unwound])
    OBVIOUS
  <2> QED
    BY <2>1, Zenon DEF Init, TypeOK
<1>2. TypeOK /\ [Next]_vars => TypeOK'
  BY NextTypeOK DEF vars, TypeOK
<1> QED
  BY <1>1, <1>2, PTL DEF Spec

-----------------------------------------------------------------------------
(* The layout of the file: the inductive invariant.                        *)

\* The words of the file f from i to j - 1 are the record of the sample t, as
\* far as the file goes.
LaidOut(f, i, j, t) ==
  LET depth == j - i - 2
  IN  /\ depth \in Nat \ {0}
      /\ depth \in {Len(t.frames), Len(t.frames) + 1}
      /\ i <= Len(f) => f[i] = 1
      /\ i + 1 <= Len(f) => f[i + 1] = depth
      /\ \A w \in 1 .. depth :
           i + 1 + w <= Len(f) => f[i + 1 + w] = AddressAt(t.pc, t.frames, depth, w)

Ending == Trailer \o <<Text>>
EndsAt(f, i) == \A w \in 1 .. 4 : i + w - 1 <= Len(f) => f[i + w - 1] = Ending[w]

\* The records of the samples ts begin at these places; what follows them
\* begins at the last place.
Starts(f, ts, at) ==
  /\ at \in [1 .. Len(ts) + 1 -> Nat]
  /\ at[1] = Len(Header) + 1
  /\ \A s \in 1 .. Len(ts) : /\ LaidOut(f, at[s], at[s + 1], ts[s])
                             /\ at[s + 1] <= at[Len(ts) + 1]

\* How long the file is if nothing is lost, for the last place.
Extent(st, last) ==
  IF st = "open" THEN 0 ELSE IF st = "closed" THEN last + 3 ELSE last - 1

Layout ==
  /\ stage = "open" => traces = << >> /\ ~failed
  /\ \E at :
       LET last == at[Len(traces) + 1]
       IN  /\ Starts(file, traces, at)
           /\ stage = "closed" => EndsAt(file, last)
           /\ IF failed THEN Len(file) < Extent(stage, last)
              ELSE Len(file) = Extent(stage, last)

\* A record stays laid out when more is written behind it.
LEMMA LaidOutStays ==
  ASSUME NEW f \in Seq(Words), NEW g \in Seq(Words),
         Len(f) <= Len(g), \A i \in 1 .. Len(f) : g[i] = f[i],
         NEW i \in Nat \ {0}, NEW j \in Nat, NEW t, LaidOut(f, i, j, t),
         g = f \/ j - 1 <= Len(f)
  PROVE  LaidOut(g, i, j, t)
<1>1. CASE g = f
  BY <1>1
<1>2. CASE j - 1 <= Len(f)
  <2> DEFINE depth == j - i - 2
  <2>1. depth \in Nat \ {0} /\ i + 1 + depth = j - 1
    BY DEF LaidOut
  <2>2. /\ i \in 1 .. Len(f) /\ i + 1 \in 1 .. Len(f)
        /\ \A w \in 1 .. depth : i + 1 + w \in 1 .. Len(f)
    BY <1>2, <2>1
  <2>3. /\ f[i] = 1 /\ f[i + 1] = depth
        /\ depth \in {Len(t.frames), Len(t.frames) + 1}
    BY <2>2 DEF LaidOut
  <2>4. ASSUME NEW w \in 1 .. depth
        PROVE  g[i + 1 + w] = AddressAt(t.pc, t.frames, depth, w)
    <3>1. f[i + 1 + w] = AddressAt(t.pc, t.frames, depth, w)
      <4>1. i + 1 + w <= Len(f) =>
              f[i + 1 + w] = AddressAt(t.pc, t.frames, depth, w)
        BY Zenon DEF LaidOut
      <4>2. i + 1 + w <= Len(f)
        <5>1. w \in Int /\ w <= depth /\ Len(f) \in Nat
          BY <2>1
        <5> HIDE DEF depth
        <5> QED
          BY <1>2, <2>1, <5>1
      <4> QED
        BY <4>1, <4>2, Zenon
    <3>2. g[i + 1 + w] = f[i + 1 + w]
      BY <2>2
    <3> QED
      BY <3>1, <3>2
  <2>5. g[i] = 1 /\ g[i + 1] = depth
    BY <2>2, <2>3
  <2> QED
    BY <2>1, <2>3, <2>4, <2>5 DEF LaidOut
<1> QED
  BY <1>1, <1>2

LEMMA StartsPositive ==
  ASSUME NEW f, NEW ts, Len(ts) \in Nat, NEW at, Starts(f, ts, at)
  PROVE  \A s \in 1 .. Len(ts) + 1 : at[s] \in Nat \ {0}
<1>1. at[1] = 6
  BY DEF Starts, Header
<1>2. ASSUME NEW s \in 1 .. Len(ts)
      PROVE  at[s + 1] \in Nat \ {0}
  <2>1. LaidOut(f, at[s], at[s + 1], ts[s])
    BY DEF Starts
  <2>2. s \in 1 .. Len(ts) + 1 /\ s + 1 \in 1 .. Len(ts) + 1
    OBVIOUS
  <2>3. at[s] \in Nat /\ at[s + 1] \in Nat
    BY <2>2 DEF Starts
  <2> QED
    BY <2>1, <2>3 DEF LaidOut
<1> QED
  <2> SUFFICES ASSUME NEW s \in 1 .. Len(ts) + 1
               PROVE  at[s] \in Nat \ {0}
    OBVIOUS
  <2>1. CASE s = 1
    BY <1>1, <2>1
  <2>2. CASE s # 1
    <3>1. s - 1 \in 1 .. Len(ts) /\ (s - 1) + 1 = s
      BY <2>2
    <3> QED
      BY <1>2, <3>1
  <2> QED
    BY <2>1, <2>2

\* Writing the header, or nothing.
LEMMA InitLayout == Init => Layout
<1> DEFINE at == [s \in 1 .. 1 |-> 6]
<1>1. Init => Starts(file, traces, at)
  BY DEF Init, Starts, Header
<1> QED
  BY <1>1 DEF Init, Layout, Extent

LEMMA HeaderLayout ==
  ASSUME TypeOK, Layout, WriteHeader
  PROVE  Layout'
<1>1. PICK at : Starts(file, traces, at)
  BY DEF Layout
<1>2. /\ stage = "open" /\ stage' = "sampling" /\ traces = << >> /\ traces' = << >>
      /\ ~failed /\ Len(file) = 0
  BY DEF Layout, WriteHeader, Extent
<1>3. Header \in Seq(Words) /\ Len(Header) = 5
  BY FixedWords DEF Header
<1>4. Put(Header)
  BY DEF WriteHeader
<1>5. IF failed' THEN Len(file') < 5 ELSE Len(file') = 5
  BY <1>2, <1>3, <1>4, PutAppends
<1>6. Starts(file', traces', at) /\ at[Len(traces') + 1] = 6
  BY <1>1, <1>2, <1>3 DEF Starts
<1>7. stage' # "open" /\ stage' # "closed" /\ Extent(stage', 6) = 5
  BY <1>2 DEF Extent
<1> QED
  BY <1>5, <1>6, <1>7 DEF Layout

\* After a sample or the ending, all records are laid out as they were.
LEMMA StartsStay ==
  ASSUME TypeOK, Layout, stage = "sampling", NEW words \in Seq(Words), Put(words),
         NEW at, Starts(file, traces, at), 
         IF failed THEN Len(file) < Extent(stage, at[Len(traces) + 1])
         ELSE Len(file) = Extent(stage, at[Len(traces) + 1])
  PROVE  \A s \in 1 .. Len(traces) : LaidOut(file', at[s], at[s + 1], traces[s])
<1>1. /\ file \in Seq(Words) /\ file' \in Seq(Words)
      /\ Len(file) <= Len(file') /\ \A i \in 1 .. Len(file) : file'[i] = file[i]
      /\ failed => file' = file
  BY PutAppends DEF TypeOK
<1>2. SUFFICES ASSUME NEW s \in 1 .. Len(traces)
               PROVE  LaidOut(file', at[s], at[s + 1], traces[s])
  OBVIOUS
<1>3. Len(traces) \in Nat
  BY DEF TypeOK
<1>4. s \in 1 .. Len(traces) + 1 /\ s + 1 \in 1 .. Len(traces) + 1
  BY <1>3
<1>5. /\ LaidOut(file, at[s], at[s + 1], traces[s])
      /\ at[s] \in Nat \ {0} /\ at[s + 1] \in Nat
      /\ at[s + 1] <= at[Len(traces) + 1]
  BY <1>3, <1>4, StartsPositive DEF Starts
<1>6. file' = file \/ at[s + 1] - 1 <= Len(file)
  <2>1. CASE failed
    BY <1>1, <2>1
  <2>2. CASE ~failed
    <3>1. Len(file) = at[Len(traces) + 1] - 1
      BY <2>2 DEF Extent
    <3>2. at[Len(traces) + 1] \in Nat
      BY <1>3 DEF Starts
    <3> QED
      BY <1>5, <3>1, <3>2
  <2> QED
    BY <2>1, <2>2
<1> QED
  BY <1>1, <1>5, <1>6, LaidOutStays

LEMMA SampleLayout ==
  ASSUME TypeOK, Layout, NEW pc \in Addresses, NEW frames \in Unwound,
         NEW same \in BOOLEAN, WriteStackTrace(pc, frames, same)
  PROVE  Layout'
<1> DEFINE n == Len(traces)
           depth == Depth(frames, same)
           record == Record(pc, frames, same)
           sample == [pc |-> pc, frames |-> frames]
<1>1. PICK at : /\ Starts(file, traces, at)
                /\ IF failed THEN Len(file) < Extent(stage, at[n + 1])
                   ELSE Len(file) = Extent(stage, at[n + 1])
  BY DEF Layout
<1> DEFINE last == at[n + 1]
           new == [s \in 1 .. n + 2 |-> IF s = n + 2 THEN last + depth + 2 ELSE at[s]]
<1>2. /\ n \in Nat /\ last \in Nat \ {0} /\ n + 1 \in 1 .. n + 1
      /\ at \in [1 .. n + 1 -> Nat]
  <2>1. n \in Nat
    BY DEF TypeOK
  <2>2. \A s \in 1 .. n + 1 : at[s] \in Nat \ {0}
    BY <1>1, <2>1, StartsPositive
  <2>3. n + 1 \in 1 .. n + 1
    BY <2>1
  <2>4. at \in [1 .. n + 1 -> Nat]
    BY <1>1 DEF Starts
  <2> QED
    BY <2>1, <2>2, <2>3, <2>4
<1>3. stage = "sampling" /\ stage' = "sampling" /\ Put(record)
  BY DEF WriteStackTrace
<1>4. /\ traces' = Append(traces, sample) /\ Len(traces') = n + 1
      /\ traces'[n + 1] = sample
      /\ \A s \in 1 .. n : traces'[s] = traces[s]
  BY DEF WriteStackTrace, TypeOK
<1>5. record \in Seq(Words) /\ Len(record) = depth + 2
  BY RecordDefined
<1>6. /\ depth \in Nat \ {0}
      /\ depth \in {Len(frames), Len(frames) + 1}
      /\ record[1] = 1
      /\ record[2] = depth
      /\ \A w \in 1 .. depth : record[w + 2] = AddressAt(pc, frames, depth, w)
  BY RecordWords
<1>7. \A s \in 1 .. n : LaidOut(file', at[s], at[s + 1], traces[s])
  <2> HIDE DEF record
  <2> QED
    BY <1>1, <1>3, <1>5, StartsStay
<1>8. /\ file' \in Seq(Words) /\ file \in Seq(Words)
      /\ failed => failed' /\ file' = file
      /\ ~failed =>
           /\ \A w \in 1 .. depth + 2 :
                Len(file) + w <= Len(file') => file'[Len(file) + w] = record[w]
           /\ IF failed' THEN Len(file') < Len(file) + (depth + 2)
              ELSE Len(file') = Len(file) + (depth + 2)
  <2> HIDE DEF record, depth
  <2> QED
    BY <1>3, <1>5, PutAppends DEF TypeOK
<1>9. IF failed THEN Len(file) < last - 1 ELSE Len(file) = last - 1
  BY <1>1, <1>3 DEF Extent
<1> HIDE DEF n, depth, record
<1>10. LaidOut(file', last, last + depth + 2, sample)
  <2>1. (last + depth + 2) - last - 2 = depth
    BY <1>2, <1>6
  <2>2. CASE failed
    <3>1. Len(file') < last /\ Len(file') < last + 1
          /\ \A w \in 1 .. depth : ~(last + 1 + w <= Len(file'))
      BY <1>2, <1>6, <1>8, <1>9, <2>2
    <3>2. ~(last <= Len(file')) /\ ~(last + 1 <= Len(file'))
      BY <1>2, <1>8, <3>1
    <3> QED
      BY <1>6, <2>1, <3>1, <3>2 DEF LaidOut
  <2>3. CASE ~failed
    <3>1. \A w \in 1 .. depth + 2 :
            last - 1 + w <= Len(file') => file'[last - 1 + w] = record[w]
      BY <1>8, <1>9, <2>3
    <3>2. last <= Len(file') => file'[last] = 1
      <4>1. 1 \in 1 .. depth + 2 /\ last - 1 + 1 = last
        BY <1>2, <1>6
      <4> QED
        BY <1>6, <3>1, <4>1
    <3>3. last + 1 <= Len(file') => file'[last + 1] = depth
      <4>1. 2 \in 1 .. depth + 2 /\ last - 1 + 2 = last + 1
        BY <1>2, <1>6
      <4> QED
        BY <1>6, <3>1, <4>1
    <3>4. ASSUME NEW w \in 1 .. depth, last + 1 + w <= Len(file')
          PROVE  file'[last + 1 + w] = AddressAt(pc, frames, depth, w)
      <4>1. w + 2 \in 1 .. depth + 2 /\ last - 1 + (w + 2) = last + 1 + w
        BY <1>2, <1>6
      <4> QED
        BY <1>6, <3>1, <3>4, <4>1
    <3> QED
      BY <1>6, <2>1, <3>2, <3>3, <3>4 DEF LaidOut
  <2> QED
    BY <2>2, <2>3
<1>11. Starts(file', traces', new)
  <2>1. new \in [1 .. n + 2 -> Nat] /\ new[1] = Len(Header) + 1
    BY <1>1, <1>2, <1>6 DEF Starts
  <2>2. ASSUME NEW s \in 1 .. n
        PROVE  /\ LaidOut(file', new[s], new[s + 1], traces'[s])
               /\ new[s + 1] <= new[n + 2]
    <3>1. new[s] = at[s] /\ new[s + 1] = at[s + 1] /\ new[n + 2] = last + depth + 2
      BY <1>2
    <3>2. at[s + 1] <= last /\ at[s + 1] \in Nat
      BY <1>1, <1>2 DEF Starts, n
    <3>3. new[s + 1] <= new[n + 2]
      BY <1>2, <1>6, <3>1, <3>2
    <3> HIDE DEF new
    <3> QED
      BY <1>4, <1>7, <3>1, <3>3
  <2>3. new[n + 1] = last /\ new[n + 2] = last + depth + 2
    BY <1>2
  <2>4. /\ LaidOut(file', new[n + 1], new[(n + 1) + 1], traces'[n + 1])
        /\ new[(n + 1) + 1] <= new[n + 2]
    <3>1. (n + 1) + 1 = n + 2
      BY <1>2
    <3>2. new[n + 2] \in Nat
      BY <1>2, <1>6, <2>3
    <3> HIDE DEF new, sample
    <3> QED
      BY <1>4, <1>10, <2>3, <3>1, <3>2
  <2> HIDE DEF new
  <2>5. \A s \in 1 .. n + 1 : s \in 1 .. n \/ s = n + 1
    BY <1>2
  <2>6. (n + 1) + 1 = n + 2
    BY <1>2
  <2> QED
    BY <1>4, <2>1, <2>2, <2>4, <2>5, <2>6 DEF Starts
<1>12. /\ new[Len(traces') + 1] = last + depth + 2
       /\ Extent(stage', last + depth + 2) = last + depth + 1
  <2>1. Len(traces') + 1 = n + 2 /\ n + 2 \in 1 .. n + 2
    BY <1>2, <1>4
  <2> QED
    BY <1>2, <1>3, <1>6, <2>1 DEF Extent
<1>13. IF failed' THEN Len(file') < last + depth + 1
       ELSE Len(file') = last + depth + 1
  <2>1. Len(file') \in Nat /\ Len(file) \in Nat
    BY <1>8
  <2> QED
    BY <1>2, <1>6, <1>8, <1>9, <2>1
<1> HIDE DEF new
<1> QED
  BY <1>3, <1>11, <1>12, <1>13 DEF Layout

LEMMA TrailerLayout ==
  ASSUME TypeOK, Layout, WriteTrailer
  PROVE  Layout'
<1> DEFINE n == Len(traces)
<1>1. PICK at : /\ Starts(file, traces, at)
                /\ IF failed THEN Len(file) < Extent(stage, at[n + 1])
                   ELSE Len(file) = Extent(stage, at[n + 1])
  BY DEF Layout
<1> DEFINE last == at[n + 1]
<1>2. n \in Nat /\ last \in Nat \ {0}
  <2>1. n \in Nat
    BY DEF TypeOK
  <2>2. n + 1 \in 1 .. n + 1
    BY <2>1
  <2> QED
    BY <1>1, <2>1, <2>2, StartsPositive
<1>3. stage = "sampling" /\ stage' = "closed" /\ Put(Ending) /\ traces' = traces
  BY DEF WriteTrailer, Ending
<1>4. Ending \in Seq(Words) /\ Len(Ending) = 4
  BY FixedWords DEF Ending, Trailer
<1>5. \A s \in 1 .. n : LaidOut(file', at[s], at[s + 1], traces[s])
  BY <1>1, <1>3, <1>4, StartsStay
<1>6. /\ file' \in Seq(Words) /\ file \in Seq(Words)
      /\ failed => failed' /\ file' = file
      /\ ~failed =>
           /\ \A w \in 1 .. 4 :
                Len(file) + w <= Len(file') => file'[Len(file) + w] = Ending[w]
           /\ IF failed' THEN Len(file') < Len(file) + 4
              ELSE Len(file') = Len(file) + 4
  BY <1>3, <1>4, PutAppends DEF TypeOK
<1>7. IF failed THEN Len(file) < last - 1 ELSE Len(file) = last - 1
  BY <1>1, <1>3 DEF Extent
<1>8. Len(file) \in Nat /\ Len(file') \in Nat
  BY <1>6
<1>9. Starts(file', traces', at)
  BY <1>1, <1>3, <1>5 DEF Starts
<1> HIDE DEF n, last
<1>10. EndsAt(file', last)
  <2>1. SUFFICES ASSUME NEW w \in 1 .. 4, last + w - 1 <= Len(file')
                 PROVE  file'[last + w - 1] = Ending[w]
    BY DEF EndsAt
  <2>2. ~failed /\ Len(file) + w = last + w - 1
    BY <1>2, <1>6, <1>7, <1>8, <2>1
  <2> QED
    BY <1>6, <2>1, <2>2
<1>11. IF failed' THEN Len(file') < last + 3 ELSE Len(file') = last + 3
  BY <1>2, <1>6, <1>7, <1>8
<1> QED
  BY <1>3, <1>9, <1>10, <1>11 DEF Layout, Extent, n, last

LEMMA Invariance ==
  Spec => [](TypeOK /\ Layout)
<1>1. TypeOK /\ Layout /\ [Next]_vars => Layout'
  <2>1. CASE UNCHANGED vars
    BY <2>1 DEF vars, Layout
  <2> QED
    BY <2>1, HeaderLayout, SampleLayout, TrailerLayout DEF Next
<1> QED
  BY <1>1, OnlyDefinedWords, InitLayout, PTL DEF Spec

-----------------------------------------------------------------------------
(* The reader.                                                             *)

LEMMA PositionDefined ==
  ASSUME TypeOK
  PROVE  /\ position \in [0 .. Len(file) -> Nat]
         /\ position[0] = Len(Header) + 1
         /\ \A k \in 1 .. Len(file) :
              position[k] = IF AtRecord(position[k - 1])
                              THEN position[k - 1] + 2 + file[position[k - 1] + 1]
                              ELSE position[k - 1]
<1> DEFINE N == Len(file)
           step(i) == IF AtRecord(i) THEN i + 2 + file[i + 1] ELSE i
           next == [n \in 1 .. N |-> [i \in Nat |-> step(i)]]
           body(h) == [k \in 0 .. N |->
                         IF k = 0 THEN Len(Header) + 1 ELSE step(h[k - 1])]
<1>1. N \in Nat /\ Len(Header) + 1 \in Nat
  BY DEF TypeOK, Header
<1>2. \A i \in Nat : step(i) \in Nat
  BY DEF AtRecord, HasRecord
<1>3. next \in [1 .. N -> [Nat -> Nat]]
  BY <1>2
<1>4. PICK h \in [0 .. N -> Nat] :
        h[0] = Len(Header) + 1 /\ \A n \in 1 .. N : h[n] = next[n][h[n - 1]]
  <2> DEFINE V == Nat
             first == Len(Header) + 1
  <2>1. N \in Nat /\ first \in V /\ next \in [1 .. N -> [V -> V]]
    BY <1>1, <1>3
  <2>2. \E h \in [0 .. N -> V] : IsIteration(h, N, first, next)
    <3> HIDE DEF N, next, V, first
    <3> QED
      BY <2>1, Iterates
  <2> QED
    BY <2>2, Zenon DEF IsIteration
<1>5. h = body(h)
  <2>1. \A n \in 1 .. N : n - 1 \in 0 .. N
    BY <1>1
  <2>2. \A n \in 1 .. N : h[n] = step(h[n - 1])
    <3> HIDE DEF step, N
    <3> QED
      BY <1>4, <2>1
  <2>3. \A n \in 0 .. N : h[n] = body(h)[n]
    <3> HIDE DEF step
    <3> QED
      BY <1>1, <1>4, <2>2
  <2> HIDE DEF step, N
  <2> QED
    BY <2>3
<1>6. position = body(position)
  <2>1. position = CHOOSE p : p = body(p)
    BY Zenon DEF position
  <2> HIDE DEF body
  <2> QED
    BY <1>5, <2>1, Zenon
<1>7. /\ position[0] = Len(Header) + 1
      /\ \A k \in 1 .. N : position[k] = step(position[k - 1])
  <2> DEFINE p == position
  <2>1. p = body(p)
    BY <1>6
  <2> HIDE DEF step, N, p
  <2>2. p[0] = Len(Header) + 1 /\ \A k \in 1 .. N : p[k] = step(p[k - 1])
    <3>1. \A k \in 0 .. N : p[k] = IF k = 0 THEN Len(Header) + 1 ELSE step(p[k - 1])
      BY <2>1
    <3> QED
      BY <1>1, <3>1
  <2> QED
    BY <2>2 DEF p
<1>8. position \in [0 .. N -> Nat]
  <2> DEFINE S == {k \in 0 .. N : position[k] \in Nat}
  <2>1. 0 \in S
    BY <1>1, <1>7
  <2>2. ASSUME NEW k \in 0 .. N - 1, k \in S
        PROVE  k + 1 \in S
    <3>1. k + 1 \in 1 .. N /\ (k + 1) - 1 = k
      BY <1>1
    <3>2. position[k + 1] = step(position[k])
      BY <1>7, <3>1
    <3> QED
      BY <1>1, <1>2, <2>2, <3>1, <3>2
  <2>3. 0 .. N \subseteq S
    <3> HIDE DEF S, N
    <3> QED
      BY <1>1, <2>1, <2>2, UpTo
  <2>4. DOMAIN position = 0 .. N /\ position = [k \in 0 .. N |-> position[k]]
    BY <1>6
  <2> HIDE DEF N
  <2> QED
    BY <2>3, <2>4
<1> QED
  BY <1>7, <1>8

\* The reader comes to an end.
LEMMA ReaderStops ==
  ASSUME TypeOK
  PROVE  /\ RecordsRead \in 0 .. Len(file)
         /\ ~AtRecord(position[RecordsRead])
         /\ \A k \in 0 .. RecordsRead - 1 : AtRecord(position[k])
<1> DEFINE N == Len(file)
           S == {k \in 0 .. N : \/ position[k] >= k
                                \/ \E j \in 0 .. k : ~AtRecord(position[j])}
           T == {k \in 0 .. N : ~AtRecord(position[k])}
<1>1. N \in Nat
  BY DEF TypeOK
<1>2. 0 .. N \subseteq S
  <2>1. 0 \in S
    BY <1>1, PositionDefined DEF Header
  <2>2. ASSUME NEW k \in 0 .. N - 1, k \in S
        PROVE  k + 1 \in S
    <3>1. k + 1 \in 1 .. N /\ (k + 1) - 1 = k /\ k \in 0 .. k + 1 /\ k \in 0 .. N
      BY <1>1
    <3>2. CASE \E j \in 0 .. k : ~AtRecord(position[j])
      BY <3>1, <3>2
    <3>3. CASE AtRecord(position[k]) /\ position[k] >= k
      <4>1. position[k + 1] = position[k] + 2 + file[position[k] + 1]
        BY <3>1, <3>3, PositionDefined
      <4>2. position[k] \in Nat /\ file[position[k] + 1] \in Nat
        BY <3>1, <3>3, PositionDefined DEF AtRecord, HasRecord
      <4> QED
        BY <3>1, <3>3, <4>1, <4>2
    <3> QED
      BY <2>2, <3>1, <3>2, <3>3
  <2> HIDE DEF S, N
  <2> QED
    BY <1>1, <2>1, <2>2, UpTo
<1>3. \E k \in T : TRUE
  <2>1. N \in S
    BY <1>1, <1>2
  <2>2. ~AtRecord(position[N]) \/ ~(position[N] >= N)
    BY <1>1, PositionDefined DEF AtRecord, HasRecord
  <2> QED
    BY <1>1, <2>1, <2>2
<1>4. PICK m \in T : \A k \in T : m <= k
  <2>1. T \subseteq Nat /\ T # {}
    BY <1>1, <1>3
  <2> HIDE DEF T
  <2> QED
    BY <2>1, LeastExists
<1>5. \A k \in 0 .. m - 1 : AtRecord(position[k])
  <2>1. SUFFICES ASSUME NEW k \in 0 .. m - 1
                 PROVE  k \notin T /\ k \in 0 .. N
    OBVIOUS
  <2>2. m \in 0 .. N
    OBVIOUS
  <2>3. k \in 0 .. N /\ ~(m <= k)
    BY <1>1, <2>2
  <2> HIDE DEF T
  <2> QED
    BY <1>4, <2>3
<1>6. m \in 0 .. N /\ ~AtRecord(position[m])
  OBVIOUS
<1> HIDE DEF T
<1> QED
  BY <1>5, <1>6 DEF RecordsRead

\* Record for record, the reader is where a record of the layout begins.
LEMMA ReaderInStep ==
  ASSUME TypeOK, NEW at, Starts(file, traces, at),
         stage = "closed" => EndsAt(file, at[Len(traces) + 1]),
         Len(file) <= Extent(stage, at[Len(traces) + 1])
  PROVE  \A k \in 0 .. RecordsRead :
           k <= Len(traces) /\ position[k] = at[k + 1]
<1> DEFINE R == RecordsRead
           n == Len(traces)
           S == {k \in Nat : k <= n /\ position[k] = at[k + 1]}
<1>1. /\ R \in Nat /\ R <= Len(file) /\ n \in Nat /\ Len(file) \in Nat
      /\ \A k \in 0 .. R - 1 : AtRecord(position[k])
  BY ReaderStops DEF TypeOK
<1>2. 0 \in S
  BY <1>1, PositionDefined DEF Starts
<1>3. ASSUME NEW k \in 0 .. R - 1, k \in S
      PROVE  k + 1 \in S
  <2> DEFINE i == at[k + 1]
  <2>1. k \in Nat /\ k <= n /\ position[k] = i /\ AtRecord(i)
    BY <1>1, <1>3
  <2>2. i \in Nat \ {0}
    <3>1. k + 1 \in 1 .. n + 1
      BY <1>1, <2>1
    <3> QED
      BY <1>1, <3>1, StartsPositive
  <2>3. /\ i + 1 <= Len(file) /\ file[i + 1] \in Nat
        /\ i + 1 + file[i + 1] <= Len(file) /\ ~IsTrailer(i)
    BY <2>1 DEF AtRecord, HasRecord
  <2>4. k # n
    <3>1. SUFFICES ASSUME k = n
                   PROVE  FALSE
      OBVIOUS
    <3>2. stage = "closed" /\ EndsAt(file, i)
      <4>1. Len(file) <= Extent(stage, i)
        BY <3>1
      <4>2. stage = "closed"
        <5> HIDE DEF i
        <5> QED
          BY <1>1, <2>2, <2>3, <4>1 DEF Extent
      <4> QED
        BY <3>1, <4>2
    <3> HIDE DEF i
    <3>3. i + 1 - 1 = i /\ i + 2 - 1 = i + 1 /\ i + 3 - 1 = i + 2 /\ i <= Len(file)
      BY <1>1, <2>2, <2>3
    <3>4. file[i] = 0 /\ file[i + 1] = 1
      <4>1. Ending[1] = 0 /\ Ending[2] = 1
        BY DEF Ending, Trailer
      <4>2. 1 \in 1 .. 4 /\ 2 \in 1 .. 4
        OBVIOUS
      <4> QED
        BY <2>3, <3>2, <3>3, <4>1, <4>2 DEF EndsAt
    <3>5. i + 2 <= Len(file)
      BY <2>2, <2>3, <3>4
    <3>6. file[i + 2] = 0
      <4>1. Ending[3] = 0
        BY DEF Ending, Trailer
      <4>2. 3 \in 1 .. 4
        OBVIOUS
      <4> QED
        BY <3>2, <3>3, <3>5, <4>1, <4>2 DEF EndsAt
    <3> QED
      BY <2>3, <3>4, <3>6 DEF IsTrailer
  <2>5. k + 1 \in 1 .. n /\ k + 1 \in 1 .. Len(file) /\ (k + 1) - 1 = k
    BY <1>1, <2>1, <2>4
  <2>6. LaidOut(file, i, at[(k + 1) + 1], traces[k + 1])
    BY <2>5 DEF Starts
  <2>7. file[i + 1] = at[(k + 1) + 1] - i - 2 /\ at[(k + 1) + 1] \in Nat
    <3>1. (k + 1) + 1 \in 1 .. n + 1
      BY <1>1, <2>5
    <3> QED
      BY <2>3, <2>6, <3>1 DEF LaidOut, Starts
  <2>8. position[k + 1] = i + 2 + file[i + 1]
    BY <2>1, <2>5, PositionDefined
  <2> HIDE DEF i
  <2>9. position[k + 1] = at[(k + 1) + 1]
    BY <2>2, <2>7, <2>8
  <2> QED
    BY <1>1, <2>1, <2>5, <2>9
<1> HIDE DEF R, S
<1>4. 0 .. R \subseteq S
  BY <1>1, <1>2, <1>3, UpTo
<1> QED
  BY <1>4 DEF R, S

LEMMA LayoutReadsBack ==
  ASSUME TypeOK, Layout
  PROVE  NothingInvented /\ NothingLost
<1> DEFINE R == RecordsRead
           n == Len(traces)
<1>1. PICK at : /\ Starts(file, traces, at)
                /\ stage = "closed" => EndsAt(file, at[n + 1])
                /\ IF failed THEN Len(file) < Extent(stage, at[n + 1])
                   ELSE Len(file) = Extent(stage, at[n + 1])
  BY DEF Layout
<1> DEFINE last == at[n + 1]
<1>2. /\ n \in Nat /\ Len(file) \in Nat
      /\ R \in 0 .. Len(file) /\ ~AtRecord(position[R])
      /\ \A k \in 0 .. R - 1 : AtRecord(position[k])
  BY ReaderStops DEF TypeOK
<1>3. \A s \in 1 .. n + 1 : at[s] \in Nat \ {0}
  BY <1>1, <1>2, StartsPositive
<1>4. Len(file) <= Extent(stage, last)
  <2>1. last \in Nat
    BY <1>2, <1>3
  <2> HIDE DEF last, n
  <2>2. Extent(stage, last) \in Int
    BY <2>1 DEF Extent
  <2> QED
    BY <1>1, <1>2, <2>2 DEF last, n
<1>5. \A k \in 0 .. R : k <= n /\ position[k] = at[k + 1]
  BY <1>1, <1>4, ReaderInStep
<1>6. /\ Len(SamplesRead) = R
      /\ \A s \in 1 .. R :
           SamplesRead[s] = SubSeq(file, position[s - 1] + 2,
                                   position[s - 1] + 1 + file[position[s - 1] + 1])
  <2> DEFINE read(s) == SubSeq(file, position[s - 1] + 2,
                               position[s - 1] + 1 + file[position[s - 1] + 1])
  <2>1. SamplesRead = [s \in 1 .. R |-> read(s)]
    BY Zenon DEF SamplesRead
  <2>2. R \in Nat
    BY <1>2
  <2> HIDE DEF read, R
  <2>3. Len(SamplesRead) = R /\ \A s \in 1 .. R : SamplesRead[s] = read(s)
    BY <2>1, <2>2
  <2> QED
    BY <2>3 DEF R, read
<1>7. ASSUME NEW s \in 1 .. R
      PROVE  /\ SamplesRead[s] \in {traces[s].frames, <<traces[s].pc>> \o traces[s].frames}
             /\ SamplesRead[s] # << >>
  <2> DEFINE i == position[s - 1]
             depth == file[i + 1]
             frames == traces[s].frames
             pc == traces[s].pc
             sample == SamplesRead[s]
  <2>1. s \in 1 .. n /\ s - 1 \in 0 .. R - 1 /\ s - 1 \in 0 .. R /\ (s - 1) + 1 = s
    <3>1. s - 1 \in 0 .. R - 1 /\ s - 1 \in 0 .. R /\ (s - 1) + 1 = s
      BY <1>2
    <3>2. s \in 0 .. R
      BY <1>2
    <3> QED
      BY <1>2, <1>5, <3>1, <3>2
  <2>2. i = at[s] /\ AtRecord(i)
    BY <1>2, <1>5, <2>1
  <2>3. i \in Nat /\ at[s + 1] \in Nat
    BY <1>2, <1>3, <2>1, <2>2
  <2>4. LaidOut(file, i, at[s + 1], traces[s])
    BY <1>1, <2>1, <2>2 DEF Starts
  <2>5. i + 1 <= Len(file) /\ depth \in Nat /\ i + 1 + depth <= Len(file)
    BY <2>2 DEF AtRecord, HasRecord
  <2>6. depth = at[s + 1] - i - 2
    BY <2>4, <2>5 DEF LaidOut
  <2>7. /\ depth \in Nat \ {0} /\ depth \in {Len(frames), Len(frames) + 1}
        /\ \A w \in 1 .. depth : i + 1 + w <= Len(file) =>
             file[i + 1 + w] = AddressAt(pc, frames, depth, w)
    BY <2>4, <2>6, Zenon DEF LaidOut
  <2>8. sample = SubSeq(file, i + 2, i + 1 + depth)
    BY <1>6
  <2>9. traces[s] \in [pc : Addresses, frames : Unwound]
    <3> HIDE DEF i, depth, frames, pc, sample
    <3> QED
      BY <2>1, ElementOfSeq DEF TypeOK
  <2>10. frames \in Unwound /\ pc \in Addresses
    BY <2>9
  <2>11. /\ Len(frames) \in Nat
         /\ frames \in [1 .. Len(frames) -> Addresses]
    BY <2>10, UnwoundDepth
  <2> HIDE DEF i, depth, frames, pc, sample
  <2>12. sample = [w \in 1 .. depth |-> AddressAt(pc, frames, depth, w)]
    <3>1. sample = [w \in 1 .. depth |-> file[i + 1 + w]]
      <4>1. file \in Seq(Words)
        BY DEF TypeOK
      <4>2. /\ i + 2 \in 1 .. Len(file) + 1
            /\ i + 1 + depth \in i + 2 - 1 .. Len(file)
            /\ (i + 1 + depth) - (i + 2) + 1 = depth
        BY <1>2, <2>3, <2>5
      <4>3. /\ sample \in Seq(Words)
            /\ Len(sample) = depth
            /\ \A w \in 1 .. depth : sample[w] = file[i + 2 + w - 1]
        <5> DEFINE a == i + 2
                   b == i + 1 + depth
        <5>1. a \in Int /\ b \in Int /\ b - a + 1 = depth /\ a <= b + 1
          BY <2>3, <2>5
        <5>2. \A k \in a .. b : file[k] \in Words
          BY <4>1, <4>2
        <5>3. sample = SubSeq(file, a, b)
          BY <2>8
        <5> HIDE DEF a, b
        <5>4. /\ SubSeq(file, a, b) \in Seq(Words)
              /\ Len(SubSeq(file, a, b)) = IF a <= b THEN b - a + 1 ELSE 0
              /\ \A w \in 1 .. b - a + 1 : SubSeq(file, a, b)[w] = file[a + w - 1]
          BY <5>1, <5>2, SubSeqProperties
        <5> QED
          BY <5>1, <5>3, <5>4 DEF a
      <4>4. \A w \in 1 .. depth : i + 2 + w - 1 = i + 1 + w
        BY <2>3, <2>5
      <4> QED
        BY <4>3, <4>4
    <3>2. \A w \in 1 .. depth : i + 1 + w <= Len(file)
      BY <1>2, <2>3, <2>5
    <3> QED
      BY <2>7, <3>1, <3>2
  <2>13. CASE depth = Len(frames)
    <3>1. sample = [w \in 1 .. Len(frames) |-> frames[w]]
      BY <2>12, <2>13 DEF AddressAt
    <3>2. sample = frames
      BY <2>11, <3>1
    <3>3. sample # << >>
      BY <2>7, <2>13, <3>2
    <3> QED
      BY <3>2, <3>3 DEF sample, frames
  <2>14. CASE depth # Len(frames)
    <3>1. depth = Len(frames) + 1
      BY <2>7, <2>14
    <3>2. sample = [w \in 1 .. Len(frames) + 1 |-> IF w = 1 THEN pc ELSE frames[w - 1]]
      BY <2>12, <2>14, <3>1 DEF AddressAt
    <3>3. <<pc>> \o frames
            = [w \in 1 .. Len(frames) + 1 |-> IF w = 1 THEN pc ELSE frames[w - 1]]
      BY <2>11
    <3>4. sample # << >>
      <4>1. 1 \in DOMAIN sample
        BY <2>11, <3>2
      <4> QED
        BY <4>1
    <3> QED
      BY <3>2, <3>3, <3>4 DEF sample, frames, pc
  <2> QED
    BY <2>13, <2>14
<1>8. R <= n
  BY <1>2, <1>5
<1>9. ~failed => R = n
  <2>1. SUFFICES ASSUME ~failed, R < n
                 PROVE  AtRecord(position[R])
    BY <1>2, <1>8
  <2> DEFINE i == position[R]
             next == at[(R + 1) + 1]
  <2>2. /\ R + 1 \in 1 .. n /\ R + 1 \in 1 .. n + 1 /\ (R + 1) + 1 \in 1 .. n + 1
        /\ R \in 0 .. R /\ n + 1 \in 1 .. n + 1
    BY <1>2, <2>1
  <2>3. i = at[R + 1]
    BY <1>5, <2>2
  <2>4. i \in Nat \ {0} /\ next \in Nat /\ last \in Nat
    BY <1>3, <2>2, <2>3
  <2>5. LaidOut(file, i, next, traces[R + 1]) /\ next <= last
    BY <1>1, <2>2, <2>3 DEF Starts
  <2>6. stage # "open"
    BY <1>2, <2>1 DEF Layout
  <2>7. Len(file) = Extent(stage, last)
    BY <1>1, <2>1
  <2> HIDE DEF i, next, last
  <2>8. next - 1 <= Len(file)
    BY <2>4, <2>5, <2>6, <2>7 DEF Extent
  <2>9. next - i - 2 \in Nat \ {0}
    BY <2>5 DEF LaidOut
  <2>10. i <= Len(file) /\ i + 1 <= Len(file)
    BY <1>2, <2>4, <2>8, <2>9
  <2>11. file[i] = 1 /\ file[i + 1] = next - i - 2
    BY <2>5, <2>10 DEF LaidOut
  <2>12. HasRecord(i)
    BY <2>4, <2>8, <2>9, <2>10, <2>11 DEF HasRecord
  <2> QED
    BY <2>11, <2>12 DEF AtRecord, IsTrailer, i
<1> HIDE DEF R, n
<1>10. \A s \in 1 .. Len(SamplesRead) : s \in 1 .. R
  BY <1>6 DEF R
<1>11. NothingInvented
  BY <1>6, <1>7, <1>8, <1>10 DEF NothingInvented, R, n
<1>12. NothingLost
  BY <1>6, <1>7, <1>9, <1>10 DEF NothingLost, R, n
<1> QED
  BY <1>11, <1>12

\* However many samples were written and wherever a full disk has cut the file
\* off, pprof takes for the s-th sample the s-th trace and nothing else.
THEOREM ReaderInventsNothing == Spec => []NothingInvented
  BY Invariance, LayoutReadsBack, PTL

\* As long as no write has failed, pprof finds every sample, and an address in
\* each; none of them ends the profile early by looking like the trailer.
THEOREM ReaderLosesNothing == Spec => []NothingLost
  BY Invariance, LayoutReadsBack, PTL
=============================================================================
