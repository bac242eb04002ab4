------------------------- MODULE StackSampleProofs -------------------------
(***************************************************************************)
(* Where GetPC() knows the place no sample skips a caller, and elsewhere   *)
(* at most one, whatever the program and the depth of its stack.           *)
(***************************************************************************)
EXTENDS StackSample, ProfileFileProofs, FiniteSetTheorems

-----------------------------------------------------------------------------
(* The shape of the stack: the inductive invariant.                        *)

\* Where the call at this depth has its return address, and its frame if it
\* has one; and the frame of the call outside it.
ReturnAt(l) == StackTop - 8 * l
FrameAt(l) == StackTop - 8 * l - 4
Outer(l) == IF l = 0 THEN 0 ELSE FrameAt(l - 1)

Top == Len(calls) - 1

Registers ==
  /\ eip \in Instructions \cup {Null}
  /\ eip \in Bare \cup {Null} => esp = ReturnAt(Top) /\ ebp = Outer(Top)
  /\ eip \in Pushed => esp = FrameAt(Top) /\ ebp = Outer(Top)
  /\ eip \in Framed => esp = FrameAt(Top) /\ ebp = FrameAt(Top)

Frames ==
  /\ memory \in [Stack -> Nat]
  /\ \A l \in 0 .. Top : memory[ReturnAt(l)] = calls[Len(calls) - l]
  /\ \A l \in 0 .. Top - 1 : memory[FrameAt(l)] = Outer(l)
  /\ eip \in Pushed \cup Framed => memory[FrameAt(Top)] = Outer(Top)

InProgress ==
  /\ calls \in Seq(Code)
  /\ Len(calls) \in 1 .. MaxCalls
  /\ \A j \in 1 .. Len(calls) - 1 : calls[j] \in Framed

Shape == Registers /\ Frames /\ InProgress

\* What the sample of a stack may be: a part of it without gaps from one of the
\* innermost two addresses on.
Shown(stack, sample, k) ==
  /\ k + Len(sample.frames) <= Len(stack)
  /\ sample.pc = stack[k]
  /\ \A i \in 1 .. Len(sample.frames) : sample.frames[i] = stack[k + i]
  /\ \/ k + Len(sample.frames) = Len(stack)
     \/ Len(sample.frames) = KMaxStackDepth - 1

\* Or the caller, and no other, is missing.
Skipped(stack, sample) ==
  /\ 2 + Len(sample.frames) <= Len(stack)
  /\ sample.pc = stack[1]
  /\ \A i \in 1 .. Len(sample.frames) : sample.frames[i] = stack[2 + i]
  /\ \/ 2 + Len(sample.frames) = Len(stack)
     \/ Len(sample.frames) = KMaxStackDepth - 1

Fair(stack, sample, known) ==
  \/ \E k \in {1, 2} : Shown(stack, sample, k)
  \/ ~known /\ Skipped(stack, sample)

Truthful ==
  /\ truth \in Seq([stack : Seq(Addresses), known : BOOLEAN])
  /\ Len(truth) = Len(traces)
  /\ \A s \in 1 .. Len(traces) : Fair(truth[s].stack, traces[s], truth[s].known)

-----------------------------------------------------------------------------
(* The program and the places on the stack.                                *)

\* The places of each call lie on the stack, and are told apart from zero.
LEMMA Places ==
  /\ MaxCalls \in Nat \ {0}
  /\ Stack \in SUBSET Nat
  /\ Near \in Nat \ {0} /\ \A a \in Stack : a >= Near
  /\ \A l \in 0 .. MaxCalls : /\ ReturnAt(l) \in Stack /\ FrameAt(l) \in Stack
                              /\ ReturnAt(l) \in Nat /\ FrameAt(l) \in Nat
                              /\ Outer(l) \in Nat /\ Outer(l) \in Stack \cup {0}
                              /\ l # 0 => Outer(l) = FrameAt(l - 1)
                              /\ Outer(l) # 0 <=> l # 0
  /\ \A l \in Int : /\ ReturnAt(l) = StackTop - 8 * l
                    /\ FrameAt(l) = StackTop - 8 * l - 4
                    /\ ReturnAt(l) \in Int /\ FrameAt(l) \in Int
<1>1. /\ MaxCalls \in Nat \ {0} /\ Near \in Nat \ {0}
      /\ \A a \in Stack : a >= Near
  BY StackSampleAssumption DEF StackSampleAssumption, Near
<1>2. Stack \in SUBSET Nat
  <2>1. \A i \in 0 .. 2 * MaxCalls + 1 : StackTop - Word * i \in Int
    BY <1>1 DEF StackTop, Word
  <2>2. \A a \in Stack : a \in Int
    BY <2>1 DEF Stack
  <2>3. \A a \in Int : a >= Near => a \in Nat
    BY <1>1
  <2> QED
    BY <1>1, <2>2, <2>3
<1>3. \A l \in Int : /\ ReturnAt(l) = StackTop - 8 * l
                     /\ FrameAt(l) = StackTop - 8 * l - 4
                     /\ ReturnAt(l) \in Int /\ FrameAt(l) \in Int
  BY DEF ReturnAt, FrameAt, StackTop
<1>4. ASSUME NEW l \in 0 .. MaxCalls
      PROVE  ReturnAt(l) \in Stack /\ FrameAt(l) \in Stack
  <2>1. 2 * l \in 0 .. 2 * MaxCalls + 1 /\ 2 * l + 1 \in 0 .. 2 * MaxCalls + 1
    BY <1>1
  <2>2. ReturnAt(l) = StackTop - Word * (2 * l)
        /\ FrameAt(l) = StackTop - Word * (2 * l + 1)
    BY <1>1 DEF ReturnAt, FrameAt, StackTop, Word
  <2> QED
    BY <2>1, <2>2 DEF Stack
<1>5. ASSUME NEW l \in 0 .. MaxCalls
      PROVE  /\ Outer(l) \in Stack \cup {0}
             /\ l # 0 => Outer(l) = FrameAt(l - 1)
             /\ Outer(l) # 0 <=> l # 0
  <2>1. CASE l = 0
    BY <2>1 DEF Outer
  <2>2. CASE l # 0
    <3>1. l - 1 \in 0 .. MaxCalls /\ Outer(l) = FrameAt(l - 1)
      BY <1>1, <2>2 DEF Outer
    <3>2. FrameAt(l - 1) \in Stack
      BY <1>4, <3>1
    <3> QED
      BY <1>1, <1>2, <2>2, <3>1, <3>2
  <2> QED
    BY <2>1, <2>2
<1> QED
  BY <1>1, <1>2, <1>3, <1>4, <1>5

\* Each instruction has one of three states.
LEMMA States ==
  /\ Instructions \subseteq Code /\ Code \subseteq Nat /\ Null \notin Code
  /\ Addresses = Code \cup {Null}
  /\ \A a \in Instructions : a >= Near /\ a - 1 \in Code /\ a + 1 \in Code /\ a + 2 \in Code
  /\ Functions \subseteq Bare
  /\ Instructions = Bare \cup Pushed \cup Framed
  /\ Bare \cap Pushed = {} /\ Bare \cap Framed = {} /\ Pushed \cap Framed = {}
<1>1. Len(Program) \in Nat
  BY StackSampleAssumption DEF StackSampleAssumption
<1>2. \A a \in Instructions : a \in Base + 1 .. Base + Len(Program) - 3
  BY StackSampleAssumption DEF StackSampleAssumption
<1>3. \A a \in Instructions :
        /\ a >= Near /\ a \in Code
        /\ a - 1 \in Code /\ a + 1 \in Code /\ a + 2 \in Code
  BY <1>1, <1>2 DEF Code, Base, Near
<1>4. Code \subseteq Nat /\ Null \notin Code
  BY <1>1 DEF Code, Base, Null
<1>5. Addresses = Code \cup {Null}
  BY StackSampleAssumption DEF StackSampleAssumption
<1> QED
  BY <1>3, <1>4, <1>5, CompilerAssumption DEF CompilerAssumption, Instructions

\* What CompilerAssumption says of an instruction, by its first byte.
LEMMA Classes ==
  \A a \in Instructions :
    /\ Byte(a) = 85 => a \in Bare /\ a + 1 \in Pushed
    /\ Byte(a) = 137 => a \in Pushed /\ a + 2 \in Framed
    /\ Byte(a) = 255 => a \in Framed /\ a + 2 \in Framed
    /\ Byte(a) = 116 => Goes(a, a + 2) /\ Goes(a, a + 4)
    /\ Byte(a) = 144 => Goes(a, a + 1)
    /\ Byte(a) = 93 => a \in Framed /\ a + 1 \in Bare
    /\ Byte(a) = 195 => a \in Bare
  BY CompilerAssumption DEF CompilerAssumption

-----------------------------------------------------------------------------
(* The machine keeps the shape of the stack.                               *)

\* The first function has been called from Origin, and there is no frame yet.
LEMMA InitShape == SampleInit => Shape /\ Truthful
<1> SUFFICES ASSUME SampleInit
             PROVE  Shape /\ Truthful
  OBVIOUS
<1>1. /\ eip \in Functions /\ esp = StackTop /\ ebp = 0
      /\ memory = [a \in Stack |-> IF a = StackTop THEN Origin ELSE 0]
      /\ calls = <<Origin>> /\ truth = << >> /\ traces = << >>
  BY DEF SampleInit, Init
<1>2. Origin \in Code /\ Origin \in Nat /\ StackTop \in Int
  BY StackSampleAssumption, States DEF StackSampleAssumption, StackTop
<1>3. calls \in Seq(Code) /\ Len(calls) = 1 /\ calls[1] = Origin /\ Top = 0
  BY <1>1, <1>2 DEF Top
<1>4. ReturnAt(0) = StackTop /\ Outer(0) = 0 /\ ReturnAt(0) \in Stack
  BY Places DEF ReturnAt, Outer, StackTop
<1>5. Registers
  BY <1>1, <1>3, <1>4, States DEF Registers
<1>6. Frames
  <2>1. memory \in [Stack -> Nat]
    BY <1>1, <1>2
  <2>2. memory[ReturnAt(0)] = calls[Len(calls) - 0]
    BY <1>1, <1>3, <1>4
  <2>3. eip \notin Pushed \cup Framed
    BY <1>1, States
  <2> QED
    BY <1>3, <2>1, <2>2, <2>3 DEF Frames
<1>7. InProgress
  BY <1>3, Places DEF InProgress
<1>8. Truthful
  <2>1. << >> \in Seq([stack : Seq(Addresses), known : BOOLEAN])
    BY EmptySeq
  <2> QED
    BY <1>1, <2>1 DEF Truthful
<1> QED
  BY <1>5, <1>6, <1>7, <1>8 DEF Shape

\* What the following lemmas use of the shape.
LEMMA Depths ==
  ASSUME Shape
  PROVE  /\ Len(calls) \in Nat /\ Top \in 0 .. MaxCalls /\ Len(calls) = Top + 1
         /\ Len(calls) <= MaxCalls
         /\ ReturnAt(Top) \in Stack /\ FrameAt(Top) \in Stack
         /\ FrameAt(Top) = ReturnAt(Top) - 4
         /\ ReturnAt(Top + 1) = FrameAt(Top) - 4
         /\ Outer(Top) \in Nat /\ Outer(Top + 1) = FrameAt(Top)
         /\ ReturnAt(Top) \in Int /\ FrameAt(Top) \in Int
<1>1. Len(calls) \in 1 .. MaxCalls /\ MaxCalls \in Nat
  BY Places DEF Shape, InProgress
<1>2. Top = Len(calls) - 1 /\ Top \in 0 .. MaxCalls /\ Top + 1 \in 0 .. MaxCalls
      /\ Top + 1 # 0
  BY <1>1 DEF Top
<1>3. /\ ReturnAt(Top) = StackTop - 8 * Top /\ FrameAt(Top) = StackTop - 8 * Top - 4
      /\ ReturnAt(Top + 1) = StackTop - 8 * (Top + 1) /\ StackTop \in Int
  BY <1>2, Places DEF StackTop
<1>4. /\ ReturnAt(Top) \in Stack /\ FrameAt(Top) \in Stack
      /\ Outer(Top) \in Nat /\ Outer(Top + 1) = FrameAt((Top + 1) - 1)
      /\ ReturnAt(Top) \in Int /\ FrameAt(Top) \in Int
  BY <1>2, Places
<1> QED
  BY <1>1, <1>2, <1>3, <1>4

\* The cells of the calls in progress are all different.
LEMMA Apart ==
  ASSUME Shape
  PROVE  \A l \in 0 .. Top :
           /\ ReturnAt(l) \in Stack /\ FrameAt(l) \in Stack
           /\ ReturnAt(l) # FrameAt(Top) /\ ReturnAt(l) # ReturnAt(Top + 1)
           /\ FrameAt(l) # ReturnAt(Top + 1)
           /\ l < Top => FrameAt(l) # FrameAt(Top)
<1> SUFFICES ASSUME NEW l \in 0 .. Top
             PROVE  /\ ReturnAt(l) \in Stack /\ FrameAt(l) \in Stack
                    /\ ReturnAt(l) # FrameAt(Top) /\ ReturnAt(l) # ReturnAt(Top + 1)
                    /\ FrameAt(l) # ReturnAt(Top + 1)
                    /\ l < Top => FrameAt(l) # FrameAt(Top)
  OBVIOUS
<1>1. l \in 0 .. MaxCalls /\ l \in Int /\ Top \in Int /\ l <= Top
  <2>1. MaxCalls \in Nat /\ Top \in 0 .. MaxCalls
    BY Depths, Places
  <2> QED
    BY <2>1
<1>2. ReturnAt(l) \in Stack /\ FrameAt(l) \in Stack
  BY <1>1, Places
<1>3. /\ ReturnAt(l) = StackTop - 8 * l /\ FrameAt(l) = StackTop - 8 * l - 4
      /\ FrameAt(Top) = StackTop - 8 * Top - 4
      /\ ReturnAt(Top + 1) = StackTop - 8 * (Top + 1) /\ StackTop \in Int
  BY <1>1 DEF ReturnAt, FrameAt, StackTop
<1> QED
  BY <1>1, <1>2, <1>3

\* push %ebp saves the caller's frame pointer where the own frame will be.
LEMMA PushEbpShape ==
  ASSUME Shape, eip # Null, PushEbp
  PROVE  Shape'
<1> DEFINE f == FrameAt(Top)
<1>1. eip \in Instructions /\ eip \in Bare /\ eip + 1 \in Pushed
  BY Classes DEF Shape, Registers, PushEbp
<1>2. esp = ReturnAt(Top) /\ ebp = Outer(Top)
  BY <1>1 DEF Shape, Registers
<1>3. esp - Word = f
  BY <1>2, Depths DEF Word
<1>4. /\ eip' = eip + 1 /\ esp' = f /\ memory' = [memory EXCEPT ![f] = ebp]
      /\ ebp' = ebp /\ calls' = calls /\ Top' = Top
  BY <1>3 DEF PushEbp, Top
<1>5. memory' \in [Stack -> Nat] /\ memory'[f] = Outer(Top)
      /\ \A a \in Stack : a # f => memory'[a] = memory[a]
  BY <1>2, <1>4, Depths DEF Shape, Frames
<1>6. Registers'
  BY <1>1, <1>2, <1>4, States DEF Registers
<1>7. \A l \in 0 .. Top : memory'[ReturnAt(l)] = memory[ReturnAt(l)]
  BY <1>5, Apart
<1>8. \A l \in 0 .. Top - 1 : memory'[FrameAt(l)] = memory[FrameAt(l)]
  <2>1. \A l \in 0 .. Top - 1 : l \in 0 .. Top /\ l < Top
    BY Depths
  <2> QED
    BY <1>5, <2>1, Apart
<1>9. Frames'
  BY <1>4, <1>5, <1>7, <1>8 DEF Shape, Frames
<1>10. InProgress'
  BY <1>4 DEF Shape, InProgress
<1> QED
  BY <1>6, <1>9, <1>10 DEF Shape

\* mov %esp,%ebp makes the word that was pushed the frame.
LEMMA MovEspEbpShape ==
  ASSUME Shape, eip # Null, MovEspEbp
  PROVE  Shape'
<1>1. eip \in Instructions /\ eip \in Pushed /\ eip + 2 \in Framed
  BY Classes DEF Shape, Registers, MovEspEbp
<1>2. esp = FrameAt(Top) /\ memory[FrameAt(Top)] = Outer(Top)
  BY <1>1 DEF Shape, Registers, Frames
<1>3. eip' = eip + 2 /\ ebp' = esp /\ UNCHANGED <<esp, memory, calls>> /\ Top' = Top
  BY DEF MovEspEbp, Top
<1>4. Registers'
  BY <1>1, <1>2, <1>3, States DEF Registers
<1>5. Frames' /\ InProgress'
  BY <1>2, <1>3 DEF Shape, Frames, InProgress
<1> QED
  BY <1>4, <1>5 DEF Shape

\* A call leaves a function with its frame, and the return address on top.
LEMMA CallShape ==
  ASSUME Shape, eip # Null, Call
  PROVE  Shape'
<1> DEFINE n == Len(calls)
           new == ReturnAt(Top + 1)
<1>1. /\ eip \in Instructions /\ eip \in Framed /\ eip + 2 \in Framed
      /\ eip + 2 \in Code /\ eip + 2 \in Nat
  BY Classes, States DEF Shape, Registers, Call
<1>2. esp = FrameAt(Top) /\ ebp = FrameAt(Top)
  BY <1>1 DEF Shape, Registers
<1>3. /\ n < MaxCalls /\ esp' = new /\ memory' = [memory EXCEPT ![new] = eip + 2]
      /\ calls' = <<eip + 2>> \o calls /\ ebp' = ebp
      /\ eip' \in Bare \cup {Null}
  <2>1. esp - Word = new
    BY <1>2, Depths DEF Word
  <2>2. Functions \subseteq Bare
    BY States
  <2> HIDE DEF new
  <2> QED
    BY <2>1, <2>2 DEF Call
<1>4. n \in Nat /\ calls \in Seq(Code) /\ <<eip + 2>> \in Seq(Code)
  BY <1>1, Depths DEF Shape, InProgress
<1>5. /\ calls' \in Seq(Code) /\ Len(calls') = n + 1 /\ calls'[1] = eip + 2
      /\ \A j \in 1 .. n : calls'[j + 1] = calls[j]
  BY <1>3, <1>4
<1>6. Top' = Top + 1 /\ Top = n - 1 /\ Top \in Nat /\ MaxCalls \in Nat
  BY <1>4, <1>5, Places, Depths DEF Top
<1>7. new \in Stack
  <2>1. Top + 1 \in 0 .. MaxCalls
    BY <1>3, <1>6
  <2> QED
    BY <2>1, Places
<1>8. /\ memory' \in [Stack -> Nat] /\ memory'[new] = eip + 2
      /\ \A a \in Stack : a # new => memory'[a] = memory[a]
  BY <1>1, <1>3, <1>7 DEF Shape, Frames
<1>9. Registers'
  BY <1>2, <1>3, <1>6, Depths, States DEF Registers
<1>10. \A l \in 0 .. Top : /\ memory'[ReturnAt(l)] = memory[ReturnAt(l)]
                           /\ memory'[FrameAt(l)] = memory[FrameAt(l)]
  BY <1>8, Apart
<1>11. Frames'
  <2>1. ASSUME NEW l \in 0 .. Top + 1
        PROVE  memory'[ReturnAt(l)] = calls'[n + 1 - l]
    <3>1. CASE l = Top + 1
      <4>1. n + 1 - l = 1
        BY <1>6, <3>1
      <4> QED
        BY <1>5, <1>8, <3>1, <4>1
    <3>2. CASE l # Top + 1
      <4>1. l \in 0 .. Top /\ n - l \in 1 .. n /\ (n - l) + 1 = n + 1 - l
        BY <1>4, <1>6, <3>2
      <4>2. memory[ReturnAt(l)] = calls[n - l]
        BY <4>1 DEF Shape, Frames
      <4> QED
        BY <1>5, <1>10, <4>1, <4>2
    <3> QED
      BY <3>1, <3>2
  <2>2. ASSUME NEW l \in 0 .. Top
        PROVE  memory'[FrameAt(l)] = Outer(l)
    <3>1. l \in 0 .. Top - 1 \/ l = Top
      BY <1>6
    <3>2. memory[FrameAt(l)] = Outer(l)
      BY <1>1, <3>1 DEF Shape, Frames
    <3> QED
      BY <1>10, <3>2
  <2>3. eip' \notin Pushed \cup Framed
    BY <1>3, States
  <2>4. (Top + 1) - 1 = Top
    BY <1>6
  <2>5. Len(calls') = n + 1 /\ Top' = Top + 1 /\ memory' \in [Stack -> Nat]
    BY <1>5, <1>6, <1>8
  <2> HIDE DEF n, new
  <2>6. \A l \in 0 .. Top' : memory'[ReturnAt(l)] = calls'[Len(calls') - l]
    <3> SUFFICES ASSUME NEW l \in 0 .. Top'
                 PROVE  memory'[ReturnAt(l)] = calls'[Len(calls') - l]
      OBVIOUS
    <3>1. l \in 0 .. Top + 1
      BY <2>5, Zenon
    <3>2. memory'[ReturnAt(l)] = calls'[n + 1 - l]
      BY <2>1, <3>1
    <3>3. Len(calls') = n + 1
      BY <2>5
    <3> QED
      BY <1>4, <1>6, <2>5, <3>2, <3>3
  <2>7. \A l \in 0 .. Top' - 1 : memory'[FrameAt(l)] = Outer(l)
    BY <2>2, <2>4, <2>5
  <2> QED
    BY <2>3, <2>5, <2>6, <2>7, Zenon DEF Frames
<1>12. InProgress'
  <2>1. ASSUME NEW j \in 1 .. n
        PROVE  calls'[j] \in Framed
    <3>1. CASE j = 1
      BY <1>1, <1>5, <3>1
    <3>2. CASE j # 1
      <4>1. j - 1 \in 1 .. n - 1 /\ j - 1 \in 1 .. n /\ (j - 1) + 1 = j
        BY <1>4, <3>2
      <4>2. calls[j - 1] \in Framed
        BY <4>1 DEF Shape, InProgress
      <4> QED
        BY <1>5, <4>1, <4>2
    <3> QED
      BY <3>1, <3>2
  <2>2. Len(calls') \in 1 .. MaxCalls /\ Len(calls') - 1 = n
    BY <1>3, <1>4, <1>5, <1>6
  <2> QED
    BY <1>5, <2>1, <2>2 DEF InProgress
<1> QED
  BY <1>9, <1>11, <1>12 DEF Shape

\* A jump or a nop leaves the frame as it is.
LEMMA GoesShape ==
  ASSUME Shape, eip # Null, Goes(eip, eip'), UNCHANGED <<esp, ebp, memory, calls>>
  PROVE  Shape'
<1>1. Top' = Top
  BY DEF Top
<1>2. \/ eip \in Bare /\ eip' \in Bare
      \/ eip \in Pushed /\ eip' \in Pushed
      \/ eip \in Framed /\ eip' \in Framed
  BY DEF Goes
<1>3. Registers'
  BY <1>1, <1>2, States DEF Shape, Registers
<1>4. Frames' /\ InProgress'
  BY <1>1, <1>2, States DEF Shape, Frames, InProgress
<1> QED
  BY <1>3, <1>4 DEF Shape

\* pop %ebp takes the frame away: ebp is the caller's again.
LEMMA PopEbpShape ==
  ASSUME Shape, eip # Null, PopEbp
  PROVE  Shape'
<1>1. eip \in Instructions /\ eip \in Framed /\ eip + 1 \in Bare
  BY Classes DEF Shape, Registers, PopEbp
<1>2. esp = FrameAt(Top) /\ memory[FrameAt(Top)] = Outer(Top)
  BY <1>1 DEF Shape, Registers, Frames
<1>3. /\ eip' = eip + 1 /\ ebp' = Outer(Top) /\ esp' = ReturnAt(Top)
      /\ UNCHANGED <<memory, calls>> /\ Top' = Top
  BY <1>2, Depths DEF PopEbp, Top, Word
<1>4. Registers'
  BY <1>1, <1>3, States DEF Registers
<1>5. Frames' /\ InProgress'
  BY <1>1, <1>3, States DEF Shape, Frames, InProgress
<1> QED
  BY <1>4, <1>5 DEF Shape

\* A ret comes back to a function that has its frame.
LEMMA RetShape ==
  ASSUME Shape, eip # Null, Ret
  PROVE  Shape'
<1> DEFINE n == Len(calls)
<1>1. eip \in Instructions /\ eip \in Bare
  BY Classes DEF Shape, Registers, Ret
<1>2. esp = ReturnAt(Top) /\ ebp = Outer(Top)
  BY <1>1 DEF Shape, Registers
<1>3. n \in Nat /\ n > 1 /\ calls \in Seq(Code) /\ Top = n - 1 /\ Top \in Nat
      /\ n <= MaxCalls /\ MaxCalls \in Nat
  <2>1. n > 1 /\ calls \in Seq(Code)
    BY DEF Ret, Shape, InProgress
  <2>2. n \in Nat /\ Top \in 0 .. MaxCalls /\ n = Top + 1 /\ n <= MaxCalls
    BY Depths
  <2>3. MaxCalls \in Nat
    BY Places
  <2> QED
    BY <2>1, <2>2, <2>3
<1>4. eip' = calls[1] /\ calls[1] \in Framed
  <2>1. memory[ReturnAt(Top)] = calls[n - Top] /\ n - Top = 1
    BY <1>3 DEF Shape, Frames
  <2>2. 1 \in 1 .. n - 1
    BY <1>3
  <2> QED
    BY <1>2, <2>1, <2>2 DEF Ret, Shape, InProgress
<1>5. calls' = Tail(calls) /\ UNCHANGED <<ebp, memory>> /\ esp' = esp + Word
  BY DEF Ret
<1>6. /\ calls' \in Seq(Code) /\ Len(calls') = n - 1
      /\ \A j \in 1 .. n - 1 : calls'[j] = calls[j + 1]
  BY <1>3, <1>5
<1>7. Top' = Top - 1
  BY <1>3, <1>6 DEF Top
<1>8. /\ Outer(Top) = FrameAt(Top - 1) /\ ReturnAt(Top) + 4 = FrameAt(Top - 1)
  <2>1. Outer(Top) = FrameAt(Top - 1)
    BY <1>3 DEF Outer
  <2> QED
    BY <1>3, <2>1 DEF ReturnAt, FrameAt, StackTop
<1>9. esp' = FrameAt(Top - 1) /\ ebp' = FrameAt(Top - 1)
  BY <1>2, <1>5, <1>8 DEF Word
<1>10. Registers'
  BY <1>4, <1>7, <1>9, States DEF Registers
<1>11. Frames'
  <2>1. ASSUME NEW l \in 0 .. Top - 1
        PROVE  /\ memory'[ReturnAt(l)] = calls'[n - 1 - l]
               /\ memory'[FrameAt(l)] = Outer(l)
    <3>1. l \in 0 .. Top /\ n - 1 - l \in 1 .. n - 1 /\ (n - 1 - l) + 1 = n - l
      BY <1>3
    <3> QED
      BY <1>5, <1>6, <2>1, <3>1 DEF Shape, Frames
  <2>2. Top - 1 \in 0 .. Top - 1 /\ \A l \in 0 .. (Top - 1) - 1 : l \in 0 .. Top - 1
    BY <1>3
  <2>3. memory' \in [Stack -> Nat]
    BY <1>5 DEF Shape, Frames
  <2> QED
    BY <1>6, <1>7, <2>1, <2>2, <2>3 DEF Frames
<1>12. InProgress'
  <2>1. ASSUME NEW j \in 1 .. n - 1 - 1
        PROVE  calls'[j] \in Framed
    <3>1. j \in 1 .. n - 1 /\ j + 1 \in 1 .. n - 1
      BY <1>3
    <3> QED
      BY <1>6, <3>1 DEF Shape, InProgress
  <2>2. n - 1 \in 1 .. MaxCalls
    BY <1>3
  <2> QED
    BY <1>6, <2>1, <2>2 DEF InProgress
<1> QED
  BY <1>10, <1>11, <1>12 DEF Shape

\* Every instruction keeps the shape of the stack.
LEMMA ExecuteShape ==
  ASSUME Shape, Execute
  PROVE  Shape'
<1>1. eip # Null
  BY DEF Execute
<1>2. ASSUME Jump
      PROVE  Shape'
  <2>1. eip \in Instructions /\ Byte(eip) = 116
    BY <1>1, <1>2 DEF Jump, Shape, Registers
  <2>2. Goes(eip, eip')
    BY <1>2, <2>1, Classes DEF Jump
  <2> QED
    BY <1>1, <1>2, <2>2, GoesShape DEF Jump
<1>3. ASSUME Nop
      PROVE  Shape'
  <2>1. eip \in Instructions /\ Byte(eip) = 144
    BY <1>1, <1>3 DEF Nop, Shape, Registers
  <2>2. Goes(eip, eip')
    BY <1>3, <2>1, Classes DEF Nop
  <2> QED
    BY <1>1, <1>3, <2>2, GoesShape DEF Nop
<1> QED
  BY <1>1, <1>2, <1>3, PushEbpShape, MovEspEbpShape, CallShape, PopEbpShape, RetShape
  DEF Execute

-----------------------------------------------------------------------------
(* GetPC().                                                                *)

\* The three patterns, written out.
LEMMA UnrollInfo ==
  /\ DOMAIN callunrollinfo = {1, 2, 3}
  /\ callunrollinfo[1] = [pc_offset |-> 0, ins |-> <<85, 137, 229>>,
                          return_sp_offset |-> 0]
  /\ callunrollinfo[2] = [pc_offset |-> -1, ins |-> <<85, 137, 229>>,
                          return_sp_offset |-> 4]
  /\ callunrollinfo[3] = [pc_offset |-> 0, ins |-> <<195>>, return_sp_offset |-> 0]
  BY DEF callunrollinfo, Prologue, Word

\* Where they match.
LEMMA Patterns ==
  ASSUME eip \in Instructions
  PROVE  /\ Matches(callunrollinfo[1]) <=> Entry(eip)
         /\ Matches(callunrollinfo[2]) <=> Entry(eip - 1)
         /\ Matches(callunrollinfo[3]) <=> Byte(eip) = 195
<1> DEFINE first == callunrollinfo[1]
           second == callunrollinfo[2]
           third == callunrollinfo[3]
<1>1. /\ eip \in Code /\ eip - 1 \in Code /\ eip + 1 \in Code /\ eip + 2 \in Code
      /\ eip \in Nat
  BY States
<1>2. /\ first.pc_offset = 0 /\ first.ins = <<85, 137, 229>>
      /\ second.pc_offset = -1 /\ second.ins = <<85, 137, 229>>
      /\ third.pc_offset = 0 /\ third.ins = <<195>>
  BY UnrollInfo
<1> HIDE DEF first, second, third
<1>3. /\ Compared(first) = eip .. eip + 2
      /\ Compared(second) = eip - 1 .. eip + 1
      /\ Compared(third) = eip .. eip
  BY <1>1, <1>2 DEF Compared
<1>4. /\ Compared(first) = {eip, eip + 1, eip + 2}
      /\ Compared(second) = {eip - 1, eip, eip + 1}
      /\ Compared(third) = {eip}
  BY <1>1, <1>3
<1>5. Matches(first) <=> Byte(eip) = 85 /\ Byte(eip + 1) = 137 /\ Byte(eip + 2) = 229
  <2>1. /\ first.ins[eip - eip - first.pc_offset + 1] = 85
        /\ first.ins[(eip + 1) - eip - first.pc_offset + 1] = 137
        /\ first.ins[(eip + 2) - eip - first.pc_offset + 1] = 229
    BY <1>1, <1>2
  <2> DEFINE Same(a) == Byte(a) = first.ins[a - eip - first.pc_offset + 1]
  <2>2. Matches(first) <=> \A a \in Compared(first) : Same(a)
    BY Zenon DEF Matches
  <2>3. /\ Same(eip) <=> Byte(eip) = 85
        /\ Same(eip + 1) <=> Byte(eip + 1) = 137
        /\ Same(eip + 2) <=> Byte(eip + 2) = 229
    BY <2>1
  <2> HIDE DEF Same
  <2> QED
    BY <1>4, <2>2, <2>3
<1>6. Matches(second) <=> Byte(eip - 1) = 85 /\ Byte(eip) = 137 /\ Byte(eip + 1) = 229
  <2>1. /\ second.ins[eip - 1 - eip - second.pc_offset + 1] = 85
        /\ second.ins[eip - eip - second.pc_offset + 1] = 137
        /\ second.ins[(eip + 1) - eip - second.pc_offset + 1] = 229
    BY <1>1, <1>2
  <2> DEFINE Same(a) == Byte(a) = second.ins[a - eip - second.pc_offset + 1]
  <2>2. Matches(second) <=> \A a \in Compared(second) : Same(a)
    BY Zenon DEF Matches
  <2>3. /\ Same(eip - 1) <=> Byte(eip - 1) = 85
        /\ Same(eip) <=> Byte(eip) = 137
        /\ Same(eip + 1) <=> Byte(eip + 1) = 229
    BY <2>1
  <2> HIDE DEF Same
  <2> QED
    BY <1>4, <2>2, <2>3
<1>7. Matches(third) <=> Byte(eip) = 195
  <2>1. third.ins[eip - eip - third.pc_offset + 1] = 195
    BY <1>1, <1>2
  <2> DEFINE Same(a) == Byte(a) = third.ins[a - eip - third.pc_offset + 1]
  <2>2. Matches(third) <=> \A a \in Compared(third) : Same(a)
    BY Zenon DEF Matches
  <2>3. /\ Same(eip) <=> Byte(eip) = 195
    BY <2>1
  <2> HIDE DEF Same
  <2> QED
    BY <1>4, <2>2, <2>3
<1>8. Entry(eip) <=> Byte(eip) = 85 /\ Byte(eip + 1) = 137 /\ Byte(eip + 2) = 229
  BY DEF Entry
<1>9. Entry(eip - 1) <=> Byte(eip - 1) = 85 /\ Byte(eip) = 137 /\ Byte(eip + 1) = 229
  <2>1. (eip - 1) + 1 = eip /\ (eip - 1) + 2 = eip + 1
    BY <1>1
  <2> QED
    BY <2>1 DEF Entry
<1> QED
  BY <1>5, <1>6, <1>7, <1>8, <1>9 DEF first, second, third

\* The return address where a known place has no frame, and else the pc.
LEMMA PC ==
  ASSUME Shape
  PROVE  /\ eip \in Instructions \ Framed /\ Known(eip) => GetPC = calls[1]
         /\ eip \in Framed \cup {Null} \/ ~Known(eip) => GetPC = eip
         /\ GetPC \in Addresses
<1> DEFINE hits == {i \in DOMAIN callunrollinfo : Matches(callunrollinfo[i])}
           first == CHOOSE i \in hits : \A j \in hits : i <= j
<1>1. GetPC = IF Reasonable /\ hits # {}
                THEN memory[esp + callunrollinfo[first].return_sp_offset]
                ELSE eip
  BY DEF GetPC
<1>2. CASE eip = Null
  <2>1. ~Reasonable
    BY <1>2, Places DEF Reasonable, Null
  <2>2. eip \notin Instructions /\ eip \in Addresses
    BY <1>2, States
  <2> QED
    BY <1>1, <2>1, <2>2
<1>3. CASE eip \in Instructions
  <2>1. hits \in SUBSET {1, 2, 3} /\ (1 \in hits <=> Entry(eip))
        /\ (2 \in hits <=> Entry(eip - 1)) /\ (3 \in hits <=> Byte(eip) = 195)
    BY <1>3, Patterns, UnrollInfo
  <2> HIDE DEF hits
  <2>2. ASSUME NEW i \in {1, 2, 3}, hits = {i}
        PROVE  first = i
    BY <2>2
  <2>3. esp \in Stack /\ (eip \in Bare => esp = ReturnAt(Top))
        /\ (eip \in Pushed => esp = FrameAt(Top)) /\ eip >= Near /\ eip \in Nat
    BY <1>3, Depths, States DEF Shape, Registers
  <2>4. Reasonable
    <3>1. esp \in Nat /\ esp >= Near /\ Near \in Nat \ {0}
      BY <2>3, Places
    <3> QED
      BY <2>3, <3>1 DEF Reasonable
  <2>5. calls[1] = memory[ReturnAt(Top)] /\ calls[1] \in Code
    <3>1. Len(calls) - Top = 1 /\ Top \in 0 .. Top /\ 1 \in 1 .. Len(calls)
      BY Depths
    <3>2. calls \in Seq(Code)
      BY DEF Shape, InProgress
    <3> QED
      BY <3>1, <3>2, ElementOfSeq DEF Shape, Frames
  <2>6. ReturnAt(Top) + 0 = ReturnAt(Top) /\ FrameAt(Top) + 4 = ReturnAt(Top)
    BY Depths
  <2>7. eip \in Code /\ (eip \in Bare \/ eip \in Pushed \/ eip \in Framed)
    BY <1>3, States
  <2>8. (Entry(eip) => Byte(eip) = 85) /\ (Entry(eip - 1) => Byte(eip) = 137)
    <3>1. (eip - 1) + 1 = eip
      BY <2>3
    <3> QED
      BY <3>1 DEF Entry
  <2>9. CASE Entry(eip)
    <3>1. hits = {1} /\ eip \in Bare
      <4>1. 1 \in hits /\ 2 \notin hits /\ 3 \notin hits
        BY <2>1, <2>8, <2>9
      <4>2. \A i \in hits : i = 1 \/ i = 2 \/ i = 3
        BY <2>1
      <4> QED
        BY <1>3, <2>8, <2>9, <4>1, <4>2, Classes
    <3>2. GetPC = calls[1]
      BY <1>1, <2>2, <2>3, <2>4, <2>5, <2>6, <3>1, UnrollInfo
    <3>3. eip \notin Framed \cup {Null} /\ Known(eip)
      BY <1>3, <2>9, <3>1, States DEF Known
    <3> QED
      BY <2>5, <3>2, <3>3, States
  <2>10. CASE Entry(eip - 1)
    <3>1. hits = {2} /\ eip \in Pushed
      <4>1. 1 \notin hits /\ 2 \in hits /\ 3 \notin hits
        BY <2>1, <2>8, <2>10
      <4>2. \A i \in hits : i = 1 \/ i = 2 \/ i = 3
        BY <2>1
      <4> QED
        BY <1>3, <2>8, <2>10, <4>1, <4>2, Classes
    <3>2. GetPC = calls[1]
      BY <1>1, <2>2, <2>3, <2>4, <2>5, <2>6, <3>1, UnrollInfo
    <3>3. eip \notin Framed \cup {Null} /\ Known(eip)
      BY <1>3, <2>10, <3>1, States DEF Known
    <3> QED
      BY <2>5, <3>2, <3>3, States
  <2>11. CASE Byte(eip) = 195
    <3>1. hits = {3} /\ eip \in Bare
      <4>1. 1 \notin hits /\ 2 \notin hits /\ 3 \in hits
        BY <2>1, <2>8, <2>11
      <4>2. \A i \in hits : i = 1 \/ i = 2 \/ i = 3
        BY <2>1
      <4> QED
        BY <1>3, <2>8, <2>11, <4>1, <4>2, Classes
    <3>2. GetPC = calls[1]
      BY <1>1, <2>2, <2>3, <2>4, <2>5, <2>6, <3>1, UnrollInfo
    <3>3. eip \notin Framed \cup {Null} /\ Known(eip)
      BY <1>3, <2>11, <3>1, States DEF Known
    <3> QED
      BY <2>5, <3>2, <3>3, States
  <2>12. CASE ~(Entry(eip) \/ Entry(eip - 1) \/ Byte(eip) = 195)
    <3>1. hits = {}
      BY <2>1, <2>12
    <3>2. GetPC = eip
      BY <1>1, <3>1
    <3>3. Known(eip) => eip \in Framed
      BY <2>12 DEF Known
    <3> QED
      BY <2>7, <3>2, <3>3, States
  <2> QED
    BY <2>9, <2>10, <2>11, <2>12
<1> QED
  BY <1>2, <1>3 DEF Shape, Registers

-----------------------------------------------------------------------------
(* The unwinder.                                                           *)

\* It follows the frame pointers from one frame to the next outer one, and
\* stays at zero behind the last.
LEMMA Followed ==
  ASSUME Shape, NEW m \in 0 .. MaxCalls, ebp = Outer(m),
         \A l \in 0 .. m - 1 : memory[FrameAt(l)] = Outer(l)
  PROVE  \A i \in 0 .. KMaxStackDepth : frame[i] = Outer(IF i < m THEN m - i ELSE 0)
<1> DEFINE N == KMaxStackDepth
           step(a) == IF a \in Stack THEN memory[a] ELSE 0
           body(f) == [i \in 0 .. N |-> IF i = 0 THEN ebp ELSE step(f[i - 1])]
           left(i) == IF i < m THEN m - i ELSE 0
           h == [i \in 0 .. N |-> Outer(left(i))]
<1>1. N \in Nat /\ m \in Nat /\ MaxCalls \in Nat
  BY ProfileFileAssumption, Places DEF ProfileFileAssumption
<1>2. step(Outer(0)) = Outer(0)
  <2>1. Outer(0) = 0 /\ 0 \notin Stack
    BY Places DEF Outer
  <2> QED
    BY <2>1
<1>3. \A k \in 1 .. m : step(Outer(k)) = Outer(k - 1)
  <2> SUFFICES ASSUME NEW k \in 1 .. m
               PROVE  step(Outer(k)) = Outer(k - 1)
    OBVIOUS
  <2>1. k \in 0 .. MaxCalls /\ k - 1 \in 0 .. MaxCalls /\ k - 1 \in 0 .. m - 1 /\ k # 0
    BY <1>1
  <2>2. Outer(k) = FrameAt(k - 1) /\ FrameAt(k - 1) \in Stack
    BY <2>1, Places
  <2> QED
    BY <2>1, <2>2
<1> HIDE DEF step
<1>4. \A i \in 1 .. N : step(h[i - 1]) = h[i]
  <2> SUFFICES ASSUME NEW i \in 1 .. N
               PROVE  step(h[i - 1]) = h[i]
    OBVIOUS
  <2>1. i - 1 \in 0 .. N /\ i \in 0 .. N
    BY <1>1
  <2>2. h[i - 1] = Outer(left(i - 1)) /\ h[i] = Outer(left(i))
    BY <2>1
  <2>3. CASE i - 1 < m
    <3>1. left(i - 1) \in 1 .. m /\ left(i - 1) - 1 = left(i)
      BY <1>1, <2>1, <2>3
    <3> HIDE DEF left
    <3> QED
      BY <1>3, <2>2, <3>1
  <2>4. CASE ~(i - 1 < m)
    <3>1. left(i - 1) = 0 /\ left(i) = 0
      BY <1>1, <2>1, <2>4
    <3> HIDE DEF left
    <3> QED
      BY <1>2, <2>2, <3>1
  <2> QED
    BY <2>3, <2>4
<1>5. h[0] = ebp
  <2>1. 0 \in 0 .. N /\ left(0) = m
    BY <1>1
  <2> HIDE DEF left
  <2> QED
    BY <2>1
<1>6. h = body(h)
  <2>1. h = [i \in 0 .. N |-> h[i]]
    OBVIOUS
  <2>2. \A i \in 0 .. N : h[i] = IF i = 0 THEN ebp ELSE step(h[i - 1])
    <3> HIDE DEF h
    <3>1. \A i \in 0 .. N : i = 0 \/ i \in 1 .. N
      BY <1>1
    <3> QED
      BY <1>4, <1>5, <3>1
  <2> HIDE DEF h, N
  <2> QED
    BY <2>1, <2>2
<1>7. frame = body(frame)
  <2>1. frame = CHOOSE f : f = body(f)
    BY Zenon DEF frame, step
  <2> HIDE DEF body
  <2> QED
    BY <1>6, <2>1, Zenon
<1>8. frame[0] = ebp /\ \A i \in 1 .. N : frame[i] = step(frame[i - 1])
  <2> DEFINE p == frame
  <2>1. p = body(p)
    BY <1>7
  <2> HIDE DEF N, p
  <2>2. \A i \in 0 .. N : p[i] = IF i = 0 THEN ebp ELSE step(p[i - 1])
    BY <2>1
  <2>3. p[0] = ebp /\ \A i \in 1 .. N : p[i] = step(p[i - 1])
    BY <1>1, <2>2
  <2> QED
    BY <2>3 DEF p
<1> DEFINE S == {i \in 0 .. N : frame[i] = h[i]}
<1>9. 0 .. N \subseteq S
  <2> HIDE DEF h
  <2>1. 0 \in S
    BY <1>1, <1>5, <1>8
  <2>2. ASSUME NEW i \in 0 .. N - 1, i \in S
        PROVE  i + 1 \in S
    <3>1. i + 1 \in 1 .. N /\ (i + 1) - 1 = i /\ i + 1 \in 0 .. N
      BY <1>1
    <3>2. frame[i + 1] = step(frame[i]) /\ step(h[i]) = h[i + 1]
      BY <1>4, <1>8, <3>1
    <3> QED
      BY <2>2, <3>1, <3>2
  <2> HIDE DEF S
  <2> QED
    BY <1>1, <2>1, <2>2, UpTo
<1> QED
  BY <1>9

\* The return addresses of as many calls as have a frame, or as it is asked for.
LEMMA Unwinds ==
  ASSUME Shape, NEW m \in {Top, Top + 1}, ebp = Outer(m),
         \A l \in 0 .. m - 1 : memory[FrameAt(l)] = Outer(l)
  PROVE  LET n == KMaxStackDepth - 1
             size == IF n < m THEN n ELSE m
         IN  /\ size \in Nat
             /\ Unwind(n) = [i \in 1 .. size |-> calls[Len(calls) - (m - i)]]
<1> DEFINE n == KMaxStackDepth - 1
           size == IF n < m THEN n ELSE m
           left(i) == IF i < m THEN m - i ELSE 0
           seen == {j \in 0 .. n - 1 : frame[j] # 0}
<1>1. /\ n \in Nat /\ KMaxStackDepth = n + 1 /\ Top \in Nat /\ m \in 0 .. MaxCalls
      /\ MaxCalls \in Nat /\ m \in Nat /\ Len(calls) = Top + 1
  <2>1. KMaxStackDepth \in Nat \ {0}
    BY ProfileFileAssumption DEF ProfileFileAssumption
  <2>2. Top \in 0 .. MaxCalls /\ Len(calls) = Top + 1 /\ Len(calls) <= MaxCalls
    BY Depths
  <2>3. MaxCalls \in Nat
    BY Places
  <2> QED
    BY <2>1, <2>2, <2>3
<1>2. size \in Nat /\ size <= n /\ size <= m
  BY <1>1
<1>3. \A j \in 0 .. n : frame[j] = Outer(left(j))
  <2>1. \A j \in 0 .. n : j \in 0 .. KMaxStackDepth
    BY <1>1
  <2> QED
    BY <1>1, <2>1, Followed
<1>4. \A j \in 0 .. n - 1 : frame[j] # 0 <=> j < size
  <2> SUFFICES ASSUME NEW j \in 0 .. n - 1
               PROVE  frame[j] # 0 <=> j < size
    OBVIOUS
  <2>1. j \in 0 .. n /\ left(j) \in 0 .. MaxCalls /\ (left(j) # 0 <=> j < m)
        /\ (j < m <=> j < size)
    BY <1>1
  <2>2. frame[j] = Outer(left(j))
    BY <1>3, <2>1
  <2> HIDE DEF left, size
  <2> QED
    BY <2>1, <2>2, Places
<1>5. seen = 0 .. size - 1
  <2>1. \A j : j \in 0 .. size - 1 <=> j \in 0 .. n - 1 /\ j < size
    BY <1>1, <1>2
  <2> HIDE DEF size
  <2> QED
    BY <1>4, <2>1
<1>6. Cardinality(seen) = size
  <2> HIDE DEF size, seen
  <2>1. 0 \in Int /\ size - 1 \in Int
    BY <1>2
  <2>2. Cardinality(0 .. size - 1) = IF 0 > size - 1 THEN 0 ELSE (size - 1) - 0 + 1
    BY <2>1, FS_Interval
  <2> QED
    BY <1>2, <1>5, <2>2
<1>7. \A i \in 1 .. size : memory[frame[i - 1] + Word] = calls[Len(calls) - (m - i)]
  <2> SUFFICES ASSUME NEW i \in 1 .. size
               PROVE  memory[frame[i - 1] + Word] = calls[Len(calls) - (m - i)]
    OBVIOUS
  <2>1. /\ i - 1 \in 0 .. n /\ left(i - 1) \in 0 .. MaxCalls /\ left(i - 1) # 0
        /\ left(i - 1) - 1 = m - i /\ m - i \in 0 .. Top /\ m - i \in Int
    BY <1>1, <1>2
  <2>2. frame[i - 1] = Outer(left(i - 1))
    BY <1>3, <2>1
  <2>3. Outer(left(i - 1)) = FrameAt(m - i)
    <3> HIDE DEF left
    <3> QED
      BY <2>1, Places
  <2>4. FrameAt(m - i) + Word = ReturnAt(m - i)
    BY <2>1 DEF FrameAt, ReturnAt, StackTop, Word
  <2>5. memory[ReturnAt(m - i)] = calls[Len(calls) - (m - i)]
    BY <2>1 DEF Shape, Frames
  <2> QED
    BY <2>2, <2>3, <2>4, <2>5
<1>8. Unwind(n) = [i \in 1 .. size |-> memory[frame[i - 1] + Word]]
  <2> HIDE DEF size
  <2>1. Unwind(n) = [i \in 1 .. Cardinality(seen) |-> memory[frame[i - 1] + Word]]
    BY Zenon DEF Unwind
  <2> HIDE DEF seen
  <2> QED
    BY <1>6, <2>1
<1>9. Unwind(n) = [i \in 1 .. size |-> calls[Len(calls) - (m - i)]]
  <2> HIDE DEF size, n
  <2> QED
    BY <1>7, <1>8
<1> QED
  BY <1>2, <1>9

-----------------------------------------------------------------------------
(* The sample.                                                             *)

\* Where the chain of frames begins: at the caller's frame, or at the own one.
LEMMA Chain ==
  ASSUME Shape
  PROVE  LET m == IF eip \in Framed THEN Top + 1 ELSE Top
         IN  /\ ebp = Outer(m)
             /\ \A l \in 0 .. m - 1 : memory[FrameAt(l)] = Outer(l)
<1>1. Top \in Nat /\ (Top + 1) - 1 = Top
  BY Depths, Places
<1>2. CASE eip \in Framed
  <2>1. ebp = Outer(Top + 1)
    BY <1>2, Depths DEF Shape, Registers
  <2>2. \A l \in 0 .. Top : l \in 0 .. Top - 1 \/ l = Top
    BY <1>1
  <2>3. \A l \in 0 .. Top : memory[FrameAt(l)] = Outer(l)
    BY <1>2, <2>2 DEF Shape, Frames
  <2> QED
    BY <1>1, <1>2, <2>1, <2>3
<1>3. CASE eip \notin Framed
  <2>1. ebp = Outer(Top)
    BY <1>3, States DEF Shape, Registers
  <2> QED
    BY <1>3, <2>1 DEF Shape, Frames
<1> QED
  BY <1>2, <1>3

\* A sample is typed and shows a part of the stack, or where the place is not a
\* known one all of it but the caller.
LEMMA Sampled ==
  ASSUME Shape
  PROVE  LET stack == <<eip>> \o calls
             sample == [pc |-> GetPC, frames |-> Unwind(KMaxStackDepth - 1)]
         IN  /\ stack \in Seq(Addresses)
             /\ sample \in [pc : Addresses, frames : Unwound]
             /\ Fair(stack, sample, eip \in Instructions /\ Known(eip))
<1> DEFINE n == KMaxStackDepth - 1
           m == IF eip \in Framed THEN Top + 1 ELSE Top
           size == IF n < m THEN n ELSE m
           frames == Unwind(n)
           sample == [pc |-> GetPC, frames |-> frames]
           stack == <<eip>> \o calls
<1>1. n \in Nat /\ Top \in Nat /\ Len(calls) = Top + 1 /\ m \in {Top, Top + 1}
  BY ProfileFileAssumption, Depths, Places DEF ProfileFileAssumption
<1>2. size \in Nat /\ size <= n /\ size <= m /\ (size = m \/ size = n)
  BY <1>1
<1>3. frames = [i \in 1 .. size |-> calls[Len(calls) - (m - i)]]
  <2>1. /\ ebp = Outer(m)
        /\ \A l \in 0 .. m - 1 : memory[FrameAt(l)] = Outer(l)
    BY Chain
  <2> HIDE DEF m
  <2> QED
    BY <1>1, <2>1, Unwinds
<1>4. calls \in Seq(Code) /\ eip \in Addresses /\ Code \subseteq Addresses
  BY States DEF Shape, Registers, InProgress
<1>5. <<eip>> \in Seq(Addresses) /\ calls \in Seq(Addresses)
  BY <1>4
<1>6. /\ stack \in Seq(Addresses) /\ Len(stack) = Top + 2 /\ stack[1] = eip
      /\ \A j \in 1 .. Len(calls) : stack[j + 1] = calls[j]
  BY <1>1, <1>5
<1>7. \A i \in 1 .. size : Len(calls) - (m - i) \in 1 .. Len(calls)
  BY <1>1, <1>2
<1>8. \A i \in 1 .. size : calls[Len(calls) - (m - i)] \in Addresses
  BY <1>5, <1>7, ElementOfSeq
<1>9. frames \in Unwound /\ Len(frames) = size
  <2>1. size \in 0 .. n
    BY <1>1, <1>2
  <2> HIDE DEF size, n, m
  <2>2. frames \in [1 .. size -> Addresses]
    BY <1>3, <1>8
  <2>3. Unwound = UNION {[1 .. d -> Addresses] : d \in 0 .. n}
    BY DEF Unwound, n
  <2>4. Len(frames) = size
    BY <1>2, <1>3
  <2> HIDE DEF frames
  <2> QED
    BY <2>1, <2>2, <2>3, <2>4
<1>10. GetPC \in Addresses
  BY PC
<1>11. Fair(stack, sample, eip \in Instructions /\ Known(eip))
  <2>1. eip \in Instructions \/ eip = Null
    BY DEF Shape, Registers
  <2>2. sample.pc = GetPC /\ sample.frames = frames
    OBVIOUS
  <2>3. CASE eip \in Framed
    <3>1. GetPC = eip /\ m = Top + 1
      BY <2>3, PC
    <3>2. \A i \in 1 .. size : frames[i] = stack[1 + i]
      <4> SUFFICES ASSUME NEW i \in 1 .. size
                   PROVE  frames[i] = stack[1 + i]
        OBVIOUS
      <4>1. Len(calls) - (m - i) = i /\ i \in 1 .. Len(calls) /\ 1 + i = i + 1
        BY <1>1, <1>2, <3>1
      <4>2. frames[i] = calls[Len(calls) - (m - i)]
        BY <1>3
      <4> HIDE DEF frames, stack, size, m
      <4> QED
        BY <1>6, <4>1, <4>2
    <3>3. 1 + size <= Len(stack) /\ (1 + size = Len(stack) \/ size = n)
      BY <1>1, <1>2, <1>6, <3>1
    <3> HIDE DEF frames, stack, size, m, sample
    <3>4. Shown(stack, sample, 1)
      BY <1>6, <1>9, <2>2, <3>1, <3>2, <3>3 DEF Shown
    <3> QED
      BY <3>4 DEF Fair
  <2>4. CASE eip \notin Framed
    <3>1. m = Top
      BY <2>4
    <3>2. \A i \in 1 .. size : frames[i] = stack[2 + i]
      <4> SUFFICES ASSUME NEW i \in 1 .. size
                   PROVE  frames[i] = stack[2 + i]
        OBVIOUS
      <4>1. /\ Len(calls) - (m - i) = i + 1 /\ i + 1 \in 1 .. Len(calls)
            /\ 2 + i = (i + 1) + 1
        BY <1>1, <1>2, <3>1
      <4>2. frames[i] = calls[Len(calls) - (m - i)]
        BY <1>3
      <4> HIDE DEF frames, stack, size, m
      <4> QED
        BY <1>6, <4>1, <4>2
    <3>3. 2 + size <= Len(stack) /\ (2 + size = Len(stack) \/ size = n)
      BY <1>1, <1>2, <1>6, <3>1
    <3>4. stack[2] = calls[1]
      <4>1. 1 \in 1 .. Len(calls) /\ 1 + 1 = 2
        BY <1>1
      <4> HIDE DEF stack
      <4> QED
        BY <1>6, <4>1
    <3> HIDE DEF frames, stack, size, m, sample
    <3>5. CASE eip \in Instructions /\ Known(eip)
      <4>1. GetPC = calls[1]
        BY <2>4, <3>5, PC
      <4>2. Shown(stack, sample, 2)
        BY <1>9, <2>2, <3>2, <3>3, <3>4, <4>1 DEF Shown
      <4> QED
        BY <4>2 DEF Fair
    <3>6. CASE ~(eip \in Instructions /\ Known(eip))
      <4>1. GetPC = eip
        BY <2>1, <3>6, PC
      <4>2. Skipped(stack, sample)
        BY <1>6, <1>9, <2>2, <3>2, <3>3, <4>1 DEF Skipped
      <4> QED
        BY <3>6, <4>2 DEF Fair
    <3> QED
      BY <3>5, <3>6
  <2> QED
    BY <2>3, <2>4
<1> HIDE DEF frames, stack
<1> QED
  BY <1>6, <1>9, <1>10, <1>11 DEF frames, stack

\* The sampling machine writes the file as ProfileFile says.
LEMMA SampleWrites ==
  ASSUME Shape, [SampleNext]_sampleVars
  PROVE  [Next]_vars
<1>1. ASSUME NEW same \in BOOLEAN, Sample(same)
      PROVE  Next
  <2> DEFINE pc == GetPC
             frames == Unwind(KMaxStackDepth - 1)
             sample == [pc |-> pc, frames |-> frames]
  <2>1. WriteStackTrace(pc, frames, same)
    BY <1>1, Zenon DEF Sample
  <2>2. pc \in Addresses /\ frames \in Unwound
    <3>1. sample \in [pc : Addresses, frames : Unwound]
      BY Sampled
    <3>2. sample.pc = pc /\ sample.frames = frames
      OBVIOUS
    <3> HIDE DEF sample, pc, frames
    <3> QED
      BY <3>1, <3>2
  <2> HIDE DEF pc, frames
  <2> QED
    BY <2>1, <2>2 DEF Next
<1> QED
  BY <1>1 DEF SampleNext, sampleVars, Execute, Next

\* A sample changes neither the registers nor the stack.
LEMMA SampleShape == Shape /\ [SampleNext]_sampleVars => Shape'
<1>1. ASSUME Shape, UNCHANGED machineVars
      PROVE  Shape'
  <2>1. Top' = Top
    BY <1>1 DEF machineVars, Top
  <2> QED
    BY <1>1, <2>1 DEF machineVars, Shape, Registers, Frames, InProgress
<1> QED
  BY <1>1, ExecuteShape DEF SampleNext, Sample, sampleVars

\* Shape is an invariant.
LEMMA ShapeAlways == SampleSpec => []Shape
  BY InitShape, SampleShape, PTL DEF SampleSpec

\* What is sampled of the machine is a profile as ProfileFile describes it: what
\* is proved of the file and of its reader holds of these samples too.
THEOREM SamplesAreTraces == SampleSpec => Spec
<1>1. SampleInit => Init
  BY DEF SampleInit
<1>2. Shape /\ [SampleNext]_sampleVars => [Next]_vars
  BY SampleWrites
<1> QED
  BY <1>1, <1>2, ShapeAlways, PTL DEF SampleSpec, Spec

\* A new sample shows a part of the stack as it is.
LEMMA SampleTruthful ==
  ASSUME Shape, TypeOK, Truthful, NEW same \in BOOLEAN, Sample(same)
  PROVE  Truthful'
<1> DEFINE stack == <<eip>> \o calls
           known == eip \in Instructions /\ Known(eip)
           sample == [pc |-> GetPC, frames |-> Unwind(KMaxStackDepth - 1)]
           entry == [stack |-> stack, known |-> known]
           n == Len(traces)
<1>1. traces' = Append(traces, sample) /\ truth' = Append(truth, entry)
  BY Zenon DEF Sample, WriteStackTrace
<1>2. /\ stack \in Seq(Addresses) /\ sample \in [pc : Addresses, frames : Unwound]
      /\ Fair(stack, sample, known)
  BY Sampled
<1>3. known \in BOOLEAN
  OBVIOUS
<1> HIDE DEF stack, known, sample
<1>4. entry \in [stack : Seq(Addresses), known : BOOLEAN]
      /\ entry.stack = stack /\ entry.known = known
  BY <1>2, <1>3
<1> HIDE DEF entry
<1>5. /\ traces \in Seq([pc : Addresses, frames : Unwound])
      /\ truth \in Seq([stack : Seq(Addresses), known : BOOLEAN])
      /\ Len(truth) = n /\ n \in Nat
  BY DEF TypeOK, Truthful
<1>6. /\ truth' \in Seq([stack : Seq(Addresses), known : BOOLEAN])
      /\ Len(truth') = n + 1 /\ truth'[n + 1] = entry
      /\ \A s \in 1 .. n : truth'[s] = truth[s]
  BY <1>1, <1>4, <1>5
<1>7. /\ Len(traces') = n + 1 /\ traces'[n + 1] = sample
      /\ \A s \in 1 .. n : traces'[s] = traces[s]
  BY <1>1, <1>2, <1>5
<1>8. ASSUME NEW s \in 1 .. n + 1
      PROVE  Fair(truth'[s].stack, traces'[s], truth'[s].known)
  <2>1. CASE s = n + 1
    BY <1>2, <1>4, <1>6, <1>7, <2>1
  <2>2. CASE s # n + 1
    <3>1. s \in 1 .. n
      BY <1>5, <2>2
    <3> QED
      BY <1>6, <1>7, <3>1 DEF Truthful
  <2> QED
    BY <2>1, <2>2
<1> HIDE DEF n
<1> QED
  BY <1>6, <1>7, <1>8 DEF Truthful

\* Truthful is an invariant.
LEMMA TruthfulAlways == SampleSpec => []Truthful
<1>1. Shape /\ TypeOK /\ Truthful /\ [SampleNext]_sampleVars => Truthful'
  <2>1. ASSUME Truthful, UNCHANGED <<traces, truth>>
        PROVE  Truthful'
    BY <2>1 DEF Truthful
  <2>2. ASSUME SampleNext, ~\E same \in BOOLEAN : Sample(same)
        PROVE  UNCHANGED <<traces, truth>>
    BY <2>2 DEF SampleNext, Execute, vars, WriteHeader
  <2>3. UNCHANGED sampleVars => UNCHANGED <<traces, truth>>
    BY DEF sampleVars, vars
  <2> QED
    BY <2>1, <2>2, <2>3, SampleTruthful
<1>2. SampleSpec => []TypeOK
  BY SamplesAreTraces, OnlyDefinedWords, PTL
<1> QED
  BY <1>1, <1>2, ShapeAlways, InitShape, PTL DEF SampleSpec

-----------------------------------------------------------------------------
(* The theorems.                                                           *)

\* The registers stay in the program and on the stack, and what GetPC() returns
\* is an address of the program, wherever it is interrupted.
THEOREM SampleTypeCorrect == SampleSpec => []SampleTypeOK
<1>1. Shape /\ TypeOK => SampleTypeOK
  <2> SUFFICES ASSUME Shape, TypeOK
               PROVE  SampleTypeOK
    OBVIOUS
  <2>1. eip \in Addresses /\ calls \in Seq(Code)
    BY States DEF Shape, Registers, InProgress
  <2>2. eip \in Bare \cup {Null} \/ eip \in Pushed \/ eip \in Framed
    BY States DEF Shape, Registers
  <2>3. Outer(Top) \in Stack \cup {0}
    BY Depths, Places
  <2>4. esp \in Stack /\ ebp \in Stack \cup {0}
    BY <2>2, <2>3, Depths DEF Shape, Registers
  <2> QED
    BY <2>1, <2>4, PC DEF SampleTypeOK
<1>2. SampleSpec => []TypeOK
  BY SamplesAreTraces, OnlyDefinedWords, PTL
<1> QED
  BY <1>1, <1>2, ShapeAlways, PTL

\* Addresses next to each other on the stack are a part of it without gaps.
LEMMA Consecutive ==
  ASSUME NEW stack \in Seq(Addresses), NEW part \in Seq(Addresses),
         NEW k \in 1 .. 3, NEW deep,
         k + Len(part) - 1 <= Len(stack),
         \A i \in 1 .. Len(part) : part[i] = stack[k + i - 1],
         k + Len(part) - 1 = Len(stack) \/ deep
  PROVE  WithoutGaps(stack, part, k, deep)
<1> DEFINE n == Len(part)
           last == k + n - 1
           sub == SubSeq(stack, k, last)
<1>1. n \in Nat /\ k \in Int /\ last \in Int /\ Len(stack) \in Nat /\ last - k + 1 = n
  OBVIOUS
<1>2. \A i \in k .. last : stack[i] \in Addresses
  <2>1. \A i \in k .. last : i \in 1 .. Len(stack)
    BY <1>1
  <2> QED
    BY <2>1, ElementOfSeq
<1> HIDE DEF last
<1>3. /\ sub \in Seq(Addresses)
      /\ Len(sub) = IF k <= last THEN last - k + 1 ELSE 0
      /\ \A i \in 1 .. last - k + 1 : sub[i] = stack[k + i - 1]
  BY <1>1, <1>2, SubSeqProperties
<1> HIDE DEF sub
<1>4. Len(sub) = n /\ \A i \in 1 .. n : sub[i] = part[i]
  BY <1>1, <1>3
<1>5. part = sub
  BY <1>3, <1>4
<1> QED
  BY <1>5 DEF WithoutGaps, sub, last

\* In no program, at no depth and wherever it is interrupted does a sample skip
\* a caller if the frame is set up or the place is one of the three that
\* callunrollinfo knows; and elsewhere it skips no other than the caller.
THEOREM NoCallerSkipped == SampleSpec => []NoFalseEdge
<1>1. TypeOK /\ Truthful /\ NothingInvented => NoFalseEdge
  <2> SUFFICES ASSUME TypeOK, Truthful, NothingInvented,
                      NEW s \in 1 .. Len(SamplesRead)
               PROVE  LET stack == truth[s].stack
                          read == SamplesRead[s]
                          deep == Len(traces[s].frames) = KMaxStackDepth - 1
                      IN  \/ \E k \in 1 .. 3 : WithoutGaps(stack, read, k, deep)
                          \/ /\ ~truth[s].known
                             /\ read # << >> /\ Head(read) = stack[1]
                             /\ WithoutGaps(stack, Tail(read), 3, deep)
    BY Zenon DEF NoFalseEdge
  <2> DEFINE stack == truth[s].stack
             frames == traces[s].frames
             pc == traces[s].pc
             read == SamplesRead[s]
             n == Len(frames)
             deep == n = KMaxStackDepth - 1
  <2>1. s \in 1 .. Len(traces) /\ s \in 1 .. Len(truth)
    <3>1. Len(SamplesRead) <= Len(traces) /\ Len(truth) = Len(traces)
      BY DEF NothingInvented, Truthful
    <3>2. Len(traces) \in Nat
      BY DEF TypeOK
    <3> HIDE DEF SamplesRead
    <3> QED
      BY <3>1, <3>2
  <2>2. Fair(stack, traces[s], truth[s].known)
    BY <2>1 DEF Truthful
  <2>3. stack \in Seq(Addresses)
    <3>1. truth[s] \in [stack : Seq(Addresses), known : BOOLEAN]
      BY <2>1, ElementOfSeq DEF Truthful
    <3> QED
      BY <3>1
  <2>4. frames \in Seq(Addresses) /\ pc \in Addresses
    <3>1. traces[s] \in [pc : Addresses, frames : Unwound]
      BY <2>1, ElementOfSeq DEF TypeOK
    <3>2. frames \in Unwound /\ pc \in Addresses
      BY <3>1
    <3>3. PICK d \in 0 .. KMaxStackDepth - 1 : frames \in [1 .. d -> Addresses]
      BY <3>2 DEF Unwound
    <3> QED
      BY <3>2, <3>3
  <2>5. read = frames \/ read = <<pc>> \o frames
    BY DEF NothingInvented
  <2>6. /\ \A k \in {1, 2} : Shown(stack, traces[s], k) =>
             /\ k + n <= Len(stack) /\ pc = stack[k]
             /\ \A i \in 1 .. n : frames[i] = stack[k + i]
             /\ k + n = Len(stack) \/ deep
        /\ Skipped(stack, traces[s]) =>
             /\ 2 + n <= Len(stack) /\ pc = stack[1]
             /\ \A i \in 1 .. n : frames[i] = stack[2 + i]
             /\ 2 + n = Len(stack) \/ deep
    BY Zenon DEF Shown, Skipped
  <2>7. \/ \E k \in {1, 2} : Shown(stack, traces[s], k)
        \/ ~truth[s].known /\ Skipped(stack, traces[s])
    BY <2>2 DEF Fair
  <2> HIDE DEF stack, frames, read, pc, deep
  <2>8. n \in Nat /\ Len(stack) \in Nat
    BY <2>3, <2>4
  <2>9. ASSUME NEW k \in {1, 2}, k + n <= Len(stack), k + n = Len(stack) \/ deep,
               \A i \in 1 .. n : frames[i] = stack[k + i]
        PROVE  WithoutGaps(stack, frames, k + 1, deep)
    <3>1. k + 1 \in 1 .. 3 /\ (k + 1) + n - 1 = k + n
      BY <2>8
    <3>2. \A i \in 1 .. n : (k + 1) + i - 1 = k + i
      BY <2>8
    <3> QED
      BY <2>3, <2>4, <2>9, <3>1, <3>2, Consecutive
  <2>10. ASSUME NEW k \in {1, 2}, k + n <= Len(stack), k + n = Len(stack) \/ deep,
                pc = stack[k], \A i \in 1 .. n : frames[i] = stack[k + i]
         PROVE  WithoutGaps(stack, <<pc>> \o frames, k, deep)
    <3> DEFINE part == <<pc>> \o frames
    <3>1. /\ part \in Seq(Addresses) /\ Len(part) = n + 1 /\ part[1] = pc
          /\ \A i \in 1 .. n : part[i + 1] = frames[i]
      <4>1. <<pc>> \in Seq(Addresses)
        BY <2>4
      <4> QED
        BY <2>4, <2>8, <4>1
    <3> HIDE DEF part
    <3>2. ASSUME NEW i \in 1 .. n + 1
          PROVE  part[i] = stack[k + i - 1]
      <4>1. CASE i = 1
        <5>1. k + i - 1 = k
          BY <4>1
        <5> QED
          BY <2>10, <3>1, <4>1, <5>1
      <4>2. CASE i # 1
        <5>1. i - 1 \in 1 .. n /\ (i - 1) + 1 = i /\ k + i - 1 = k + (i - 1)
          BY <2>8, <4>2
        <5> QED
          BY <2>10, <3>1, <5>1
      <4> QED
        BY <4>1, <4>2
    <3>3. k \in 1 .. 3 /\ k + (n + 1) - 1 = k + n
      BY <2>8
    <3>4. WithoutGaps(stack, part, k, deep)
      BY <2>3, <2>10, <3>1, <3>2, <3>3, Consecutive
    <3> QED
      BY <3>4 DEF part
  <2>11. CASE \E k \in {1, 2} : Shown(stack, traces[s], k)
    <3>1. PICK k \in {1, 2} : Shown(stack, traces[s], k)
      BY <2>11
    <3>2. WithoutGaps(stack, read, k, deep) \/ WithoutGaps(stack, read, k + 1, deep)
      BY <2>5, <2>6, <2>9, <2>10, <3>1
    <3>3. k \in 1 .. 3 /\ k + 1 \in 1 .. 3
      OBVIOUS
    <3>4. \E j \in 1 .. 3 : WithoutGaps(stack, read, j, deep)
      BY <3>2, <3>3
    <3> QED
      BY <3>4 DEF stack, read, deep, frames
  <2>12. CASE ~truth[s].known /\ Skipped(stack, traces[s])
    <3>1. WithoutGaps(stack, frames, 3, deep) /\ pc = stack[1]
      BY <2>6, <2>9, <2>12
    <3>2. CASE read = frames
      <4>1. WithoutGaps(stack, read, 3, deep)
        BY <3>1, <3>2
      <4>2. \E j \in 1 .. 3 : WithoutGaps(stack, read, j, deep)
        BY <4>1
      <4> QED
        BY <4>2 DEF stack, read, deep, frames
    <3>3. CASE read = <<pc>> \o frames
      <4>1. read # << >> /\ Head(read) = pc /\ Tail(read) = frames
        BY <2>4, <3>3
      <4>2. ~truth[s].known /\ read # << >> /\ Head(read) = stack[1]
            /\ WithoutGaps(stack, Tail(read), 3, deep)
        BY <2>12, <3>1, <4>1
      <4> QED
        BY <4>2 DEF stack, read, deep, frames
    <3> QED
      BY <2>5, <3>2, <3>3
  <2> QED
    BY <2>7, <2>11, <2>12
<1>2. SampleSpec => [](TypeOK /\ NothingInvented)
  BY SamplesAreTraces, OnlyDefinedWords, ReaderInventsNothing, PTL
<1> QED
  BY <1>1, <1>2, TruthfulAlways, PTL
=============================================================================
