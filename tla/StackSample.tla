----------------------------- MODULE StackSample -----------------------------
(***************************************************************************)
(* Where the addresses of a native sample come from: GetPC() of            *)
(* src/getpc.h on 32-bit x86, and the unwinder that follows the frame      *)
(* pointers (external), both looking at a machine (external) that is       *)
(* interrupted before any of its instructions.  The sample is written and  *)
(* read back as ProfileFile has it.                                        *)
(***************************************************************************)
EXTENDS ProfileFile, FiniteSets

CONSTANTS Program,       \* the bytes of the program
          Functions,     \* the addresses of its functions
          Bare,          \* the addresses of the instructions before which the
                         \* return address is on top of the stack,
          Pushed,        \* those before which the caller's frame pointer is,
          Framed,        \* and those before which the frame is set up
          MaxCalls       \* bound on the calls in progress

Instructions == Bare \cup Pushed \cup Framed

Base == 65536
Code == Base .. Base + Len(Program) - 1
Byte(a) == Program[a - Base + 1]
Null == 0            \* a call through a null pointer gets there
Near == 65536        \* what is near the address zero is taken to be unmapped
Origin == Base + 3   \* where the first function returns to

Word == 4
StackTop == 131072
Stack == {StackTop - Word * i : i \in 0 .. 2 * MaxCalls + 1}

ASSUME StackSampleAssumption ==
  /\ Program \in Seq(0 .. 255)
  /\ Instructions \subseteq Base + 1 .. Base + Len(Program) - 3
  /\ Origin \in Code
  /\ MaxCalls \in Nat \ {0}
  /\ \A a \in Stack : a >= Near
  /\ Addresses = Code \cup {Null}

\* A compiler knows at each place how far the frame is set up, on every way
\* there; only functions with a frame call others.  Nothing is assumed of where
\* the instructions are that set it up, nor that there are any.
Goes(a, b) == \E places \in {Bare, Pushed, Framed} : {a, b} \subseteq places
ASSUME CompilerAssumption ==
  /\ Bare \cap Pushed = {} /\ Bare \cap Framed = {} /\ Pushed \cap Framed = {}
  /\ Functions \subseteq Bare
  /\ \A a \in Instructions :
       /\ Byte(a) = 85 => a \in Bare /\ a + 1 \in Pushed
       /\ Byte(a) = 137 => a \in Pushed /\ a + 2 \in Framed /\ Byte(a + 1) = 229
       /\ Byte(a) = 255 => a \in Framed /\ a + 2 \in Framed
       /\ Byte(a) = 116 => Goes(a, a + 2) /\ Goes(a, a + 4)
       /\ Byte(a) = 144 => Goes(a, a + 1)
       /\ Byte(a) = 93 => a \in Framed /\ a + 1 \in Bare
       /\ Byte(a) = 195 => a \in Bare

VARIABLES eip, esp, ebp,  \* the registers
          memory,         \* the words of the stack
          calls,          \* history: the return addresses of the calls in
                          \* progress, the innermost first
          truth           \* history: the stack at each sample, and whether its
                          \* frame was set up or the place is a known one

machineVars == <<eip, esp, ebp, memory, calls>>
sampleVars == <<vars, machineVars, truth>>

SampleInit ==
  /\ Init
  /\ eip \in Functions
  /\ esp = StackTop
  /\ ebp = 0
  /\ memory = [a \in Stack |-> IF a = StackTop THEN Origin ELSE 0]
  /\ calls = <<Origin>>
  /\ truth = << >>

-----------------------------------------------------------------------------
(* The machine, external.                                                  *)

PushEbp ==
  /\ Byte(eip) = 85
  /\ eip' = eip + 1
  /\ esp' = esp - Word
  /\ memory' = [memory EXCEPT ![esp - Word] = ebp]
  /\ UNCHANGED <<ebp, calls>>

MovEspEbp ==
  /\ Byte(eip) = 137
  /\ eip' = eip + 2
  /\ ebp' = esp
  /\ UNCHANGED <<esp, memory, calls>>

Call ==
  /\ Byte(eip) = 255
  /\ Len(calls) < MaxCalls
  /\ eip' \in Functions \cup {Null}
  /\ esp' = esp - Word
  /\ memory' = [memory EXCEPT ![esp - Word] = eip + 2]
  /\ calls' = <<eip + 2>> \o calls
  /\ UNCHANGED ebp

\* A conditional jump over the next two bytes.
Jump ==
  /\ Byte(eip) = 116
  /\ eip' \in {eip + 2, eip + 4}
  /\ UNCHANGED <<esp, ebp, memory, calls>>

Nop ==
  /\ Byte(eip) = 144
  /\ eip' = eip + 1
  /\ UNCHANGED <<esp, ebp, memory, calls>>

PopEbp ==
  /\ Byte(eip) = 93
  /\ eip' = eip + 1
  /\ ebp' = memory[esp]
  /\ esp' = esp + Word
  /\ UNCHANGED <<memory, calls>>

Ret ==
  /\ Byte(eip) = 195
  /\ Len(calls) > 1
  /\ eip' = memory[esp]
  /\ esp' = esp + Word
  /\ calls' = Tail(calls)
  /\ UNCHANGED <<ebp, memory>>

Execute ==
  /\ eip # Null
  /\ PushEbp \/ MovEspEbp \/ Call \/ Jump \/ Nop \/ PopEbp \/ Ret
  /\ UNCHANGED <<vars, truth>>

-----------------------------------------------------------------------------
(* GetPC()                                                                 *)

Prologue == <<85, 137, 229>>   \* push %ebp; mov %esp,%ebp

\* Mutant: the return address is looked for below the saved frame pointer.
callunrollinfoUnadjusted ==
  <<[pc_offset |-> 0, ins |-> Prologue, return_sp_offset |-> 0],
    [pc_offset |-> -1, ins |-> Prologue, return_sp_offset |-> 0],
    [pc_offset |-> 0, ins |-> <<195>>, return_sp_offset |-> 0]>>
\* Mutant: a function that is about to return is not recognised.
callunrollinfoEntryOnly ==
  <<[pc_offset |-> 0, ins |-> Prologue, return_sp_offset |-> 0],
    [pc_offset |-> -1, ins |-> Prologue, return_sp_offset |-> Word]>>

callunrollinfo ==
  <<[pc_offset |-> 0, ins |-> Prologue, return_sp_offset |-> 0],
    [pc_offset |-> -1, ins |-> Prologue, return_sp_offset |-> Word],
    [pc_offset |-> 0, ins |-> <<195>>, return_sp_offset |-> 0]>>

\* Mutant: the registers are taken to be reasonable.
ReasonableAlways == TRUE
\* Neither register is within 64K of address zero, the pc on both sides.
Reasonable == eip \notin -Near .. Near - 1 /\ esp \notin 0 .. Near - 1

\* The bytes that memcmp() may look at for an entry.
Compared(info) ==
  eip + info.pc_offset .. eip + info.pc_offset + Len(info.ins) - 1
Matches(info) ==
  \A a \in Compared(info) :
    Byte(a) = info.ins[a - eip - info.pc_offset + 1]

GetPC ==
  LET hits == {i \in DOMAIN callunrollinfo : Matches(callunrollinfo[i])}
      first == CHOOSE i \in hits : \A j \in hits : i <= j
  IN  IF Reasonable /\ hits # {}
        THEN memory[esp + callunrollinfo[first].return_sp_offset]
        ELSE eip

\* GetStackTraceWithContext(), external: the return addresses next to the saved
\* frame pointers, the innermost first, as many as it is asked for.  It skips
\* the frames of the handler.
frame[i \in 0 .. KMaxStackDepth] ==
  IF i = 0 THEN ebp
  ELSE IF frame[i - 1] \in Stack THEN memory[frame[i - 1]] ELSE 0

Unwind(n) ==
  [i \in 1 .. Cardinality({j \in 0 .. n - 1 : frame[j] # 0}) |->
     memory[frame[i - 1] + Word]]

\* The places without a frame that the comments in callunrollinfo name: the
\* first and the second instruction of a function that starts with
\* "push %ebp; mov %esp,%ebp", and the ret.
Entry(a) == Byte(a) = 85 /\ Byte(a + 1) = 137 /\ Byte(a + 2) = 229
Known(a) == a \in Framed \/ Entry(a) \/ Entry(a - 1) \/ Byte(a) = 195

Sample(same) ==
  /\ WriteStackTrace(GetPC, Unwind(KMaxStackDepth - 1), same)
  /\ truth' = Append(truth, [stack |-> <<eip>> \o calls,
                             known |-> eip \in Instructions /\ Known(eip)])
  /\ UNCHANGED machineVars

SampleNext == \/ Execute
              \/ WriteHeader /\ UNCHANGED <<machineVars, truth>>
              \/ \E same \in BOOLEAN : Sample(same)

SampleSpec == SampleInit /\ [][SampleNext]_sampleVars

-----------------------------------------------------------------------------
(* Properties.                                                             *)

SampleTypeOK ==
  /\ TypeOK
  /\ eip \in Addresses
  /\ {esp, ebp} \subseteq Stack \cup {0}
  /\ calls \in Seq(Code)
  /\ GetPC \in Addresses

\* GetPC() looks only at the program and at the stack, so that it cannot fault
\* inside the handler: wherever the machine is interrupted, after a call
\* through a null pointer too.
ReadsMapped ==
  Reasonable =>
    \A i \in DOMAIN callunrollinfo :
      /\ Compared(callunrollinfo[i]) \subseteq Code
      /\ Matches(callunrollinfo[i]) =>
           esp + callunrollinfo[i].return_sp_offset \in Stack

\* "avoid false edges in the profile graph (that is, edges that appear to show
\* a call skipping over a function)", src/getpc.h:80: what pprof reads of a
\* sample is a part of the stack without gaps, from one of the innermost three
\* addresses on, and up to the last unless it is too deep.  Where GetPC() does
\* not know the place ("best effort", line 87: another prologue, a function
\* without a frame, a call through a null pointer), one caller is skipped, and
\* never more.
WithoutGaps(stack, read, k, deep) ==
  /\ k + Len(read) - 1 <= Len(stack)
  /\ read = SubSeq(stack, k, k + Len(read) - 1)
  /\ k + Len(read) - 1 = Len(stack) \/ deep

NoFalseEdge ==
  \A s \in 1 .. Len(SamplesRead) :
    LET stack == truth[s].stack
        read == SamplesRead[s]
        deep == Len(traces[s].frames) = KMaxStackDepth - 1
    IN  \/ \E k \in 1 .. 3 : WithoutGaps(stack, read, k, deep)
        \/ /\ ~truth[s].known
           /\ read # << >> /\ Head(read) = stack[1]
           /\ WithoutGaps(stack, Tail(read), 3, deep)
=============================================================================
