--------------------------- MODULE ComingleProofs ---------------------------
(***************************************************************************)
(* Theorems about Comingle, for every MaxStarts, MaxTicks and MaxDepth,    *)
(* and every Env without interrupts: the invariants of DaisyChain carry    *)
(* over, and no frame leaves anything collecting for it.                   *)
(***************************************************************************)
EXTENDS Comingle, DaisyChainProofs

Frame == [phase : {"starting", "running", "stopping"}, id : Calls \cup {None}]

\* Only the top frame starts or stops, and what a frame starts is its own.
Nested ==
  /\ frames \in Seq(Frame)
  /\ profiled \in SUBSET (1 .. starts)
  /\ pc \in StartSteps /\ starts \in profiled =>
       Depth > 0 /\ Top.phase = "starting" /\ Top.id = starts
  /\ Depth > 0 /\ Top.phase = "stopping" =>
       /\ pc \notin StartSteps
       /\ static_impl = None \/ pc \in {"rprof_off", "restore", "clear_static"}

\* No file is opened before its start.
OpenedByStart ==
  /\ \A i \in Calls : i > starts => ofs[i] = "closed"
  /\ pc \in {"rprof_on", "start"} => ofs[starts] = "closed"

\* The open file of a frame is in use, so the finalizer leaves it alone.
InUseBy(id) ==
  \/ id = static_impl
  \/ pc \in {"install", "set_static"} /\ id = starts
  \/ pc = "trailer" /\ id = prof_data
OpenInUse ==
  \A f \in 1 .. Depth :
    LET id == frames[f].id
    IN  id # None => ofs[id] # "torn" /\ (ofs[id] = "open" => InUseBy(id))

\* Between calls Rprof collects for a frame without a session to stop only if the
\* native half could not be created.
NeverOpened(id) == "ofs_open" \in Env /\ ofs[id] = "closed"
HalfStarted ==
  pc \in {"idle", "unloaded"} /\ prof_data = None /\ rfile \in profiled =>
    NeverOpened(rfile)

FramesInv ==
  /\ Nested
  /\ OpenedByStart
  /\ OpenInUse
  /\ HalfStarted
  /\ SessionEndsWithFrame

-----------------------------------------------------------------------------
(* Every step is a step of DaisyChain or leaves its variables alone.       *)

LEMMA ComNextNext == ComNext => Next \/ UNCHANGED vars
<1> USE DEF StartCall, StopCall, Next
<1>1. Enter => Next
  BY DEF Enter
<1>2. ForceExpr => UNCHANGED vars
  BY DEF ForceExpr
<1>3. Exit => Next
  BY DEF Exit
<1>4. Leave => UNCHANGED vars
  BY DEF Leave
<1>5. UserCall => Next
  BY DEF UserCall
<1>6. Progress => Next
  BY DEF Progress
<1> HIDE DEF Next
<1> QED
  BY <1>1, <1>2, <1>3, <1>4, <1>5, <1>6 DEF ComNext

LEMMA ComInvariance ==
  ASSUME "interrupt" \notin Env
  PROVE  ComSpec => [](IInv /\ Owned)
<1>1. ComInit => IInv /\ Owned
  BY InitIInv, InitOwned DEF ComInit
<1>2. IInv /\ Owned /\ [ComNext]_allVars => (IInv /\ Owned)'
  <2> SUFFICES ASSUME IInv, Owned, [ComNext]_allVars
               PROVE  (IInv /\ Owned)'
    OBVIOUS
  <2>1. Next \/ UNCHANGED vars
    BY ComNextNext DEF allVars
  <2>2. IInv'
    BY <2>1, NextIInv
  <2>3. CASE Next
    BY <2>2, <2>3, NextOwned DEF IInv, Control
  <2>4. CASE UNCHANGED vars
    BY <2>2, <2>4 DEF Owned, HandlerHasStream, vars, implVars, dataVars
  <2> QED
    BY <2>1, <2>3, <2>4
<1> QED
  BY <1>1, <1>2, PTL DEF ComSpec

-----------------------------------------------------------------------------
(* The frames.                                                             *)

LEMMA InitFrames == ComInit => FramesInv
  BY DEF ComInit, Init, FramesInv, Nested, OpenedByStart, OpenInUse,
         HalfStarted, SessionEndsWithFrame, StartSteps, Depth, None

\* A call of start_profiler() takes the next number or fails.
LEMMA StartProfilerNumbers ==
  ASSUME TypeOK, StartProfiler
  PROVE  /\ pc = "idle"
         /\ UNCHANGED <<static_impl, ofs, prof_data, rfile>>
         /\ \/ starts' = starts /\ pc' = "idle"
            \/ starts' = starts + 1 /\ starts + 1 \in Calls /\ pc' = "rprof_on"
  BY DaisyChainAssumption
     DEF DaisyChainAssumption, StartProfiler, TypeOK, Calls, Goto, Return,
         implVars

LEMMA SetTopKeepsIds ==
  ASSUME frames \in Seq(Frame), Depth > 0,
         NEW p \in {"starting", "running", "stopping"}, SetTop(p)
  PROVE  /\ frames' \in Seq(Frame)
         /\ Depth' = Depth /\ Depth \in Nat
         /\ \A f \in 1 .. Depth : frames'[f].id = frames[f].id
         /\ Top'.phase = p /\ Top'.id = Top.id
<1>1. Depth \in 1 .. Len(frames) /\ Len(frames) \in Nat
  BY DEF Depth
<1>2. \A f \in 1 .. Len(frames) : frames[f] \in Frame
  OBVIOUS
<1>3. frames' = [frames EXCEPT ![Depth] = [frames[Depth] EXCEPT !.phase = p]]
  BY DEF SetTop
<1>4. [frames[Depth] EXCEPT !.phase = p] \in Frame
  BY <1>1, <1>2 DEF Frame
<1>5. [frames[Depth] EXCEPT !.phase = p].id = frames[Depth].id
      /\ [frames[Depth] EXCEPT !.phase = p].phase = p
  BY <1>1, <1>2 DEF Frame
<1>6. frames' \in Seq(Frame) /\ Len(frames') = Len(frames)
  BY <1>1, <1>3, <1>4
<1>7. \A f \in 1 .. Len(frames) :
        frames'[f] = IF f = Depth THEN [frames[Depth] EXCEPT !.phase = p]
                     ELSE frames[f]
  BY <1>1, <1>3
<1> QED
  BY <1>1, <1>5, <1>6, <1>7 DEF Depth, Top

\* Starting from R code of the user's, in a frame's name or not: what the frames
\* so far have is not touched.
LEMMA EnterFrames ==
  ASSUME IInv, Owned, FramesInv, Enter
  PROVE  FramesInv'
<1> DEFINE id == IF starts' = starts THEN None ELSE starts'
           new == [phase |-> "starting", id |-> id]
<1>1. /\ frames' = Append(frames, new)
      /\ profiled' = profiled \cup ({id} \ {None})
      /\ pc = "idle" /\ UNCHANGED <<static_impl, ofs, prof_data, rfile>>
      /\ \/ starts' = starts /\ pc' = "idle"
         \/ starts' = starts + 1 /\ starts + 1 \in Calls /\ pc' = "rprof_on"
  BY StartProfilerNumbers DEF Enter, IInv
<1>2. /\ starts \in Nat /\ static_impl <= starts /\ static_impl \in Nat
      /\ rfile \in Int /\ rfile <= starts /\ None = 0
  BY DEF IInv, TypeOK, Control, Numbered, Calls, None, User
<1>3. /\ id \in Calls \cup {None}
      /\ \/ id = None /\ starts' = starts
         \/ id = starts + 1 /\ starts' = starts + 1
  <2>1. CASE starts' = starts
    BY <2>1
  <2>2. CASE starts' = starts + 1 /\ starts + 1 \in Calls
    <3>1. starts' # starts
      BY <1>2, <2>2
    <3> QED
      BY <2>2, <3>1
  <2> QED
    BY <1>1, <2>1, <2>2
<1>4. new \in Frame /\ new.id = id /\ new.phase = "starting"
  BY <1>3 DEF Frame
<1>5. frames \in Seq(Frame) /\ Len(frames) \in Nat
  BY DEF FramesInv, Nested
<1>6. /\ frames' \in Seq(Frame) /\ Len(frames') = Len(frames) + 1
      /\ \A f \in 1 .. Len(frames) : frames'[f] = frames[f]
      /\ frames'[Len(frames) + 1] = new
  <2> HIDE DEF new
  <2> QED
    BY <1>1, <1>4, <1>5
<1>7. Depth' = Depth + 1 /\ Depth \in Nat /\ Top' = new /\ Depth = Len(frames)
  BY <1>5, <1>6 DEF Depth, Top
<1> HIDE DEF id, new
<1>8. Nested'
  <2>1. profiled' \in SUBSET (1 .. starts')
    <3>1. profiled \in SUBSET (1 .. starts)
      BY DEF FramesInv, Nested
    <3>2. 1 .. starts \subseteq 1 .. starts'
      BY <1>2, <1>3
    <3>3. {id} \ {None} \subseteq 1 .. starts'
      BY <1>2, <1>3
    <3> QED
      BY <1>1, <3>1, <3>2, <3>3
  <2>2. pc' \in StartSteps => Top'.id = starts'
    BY <1>1, <1>2, <1>3, <1>4, <1>7 DEF StartSteps
  <2> QED
    BY <1>4, <1>6, <1>7, <2>1, <2>2 DEF Nested
<1>9. OpenedByStart'
  BY <1>1, <1>2 DEF FramesInv, OpenedByStart, Calls
<1>10. OpenInUse'
  <2>1. id # None => ofs[id] = "closed"
    BY <1>2, <1>3 DEF FramesInv, OpenedByStart, None
  <2>2. SUFFICES ASSUME NEW f \in 1 .. Depth + 1,
                        NEW i, i = frames'[f].id, i # None
                 PROVE  ofs[i] # "torn" /\ (ofs[i] = "open" => InUseBy(i)')
    BY <1>1, <1>7 DEF OpenInUse
  <2>3. CASE f = Depth + 1
    BY <1>4, <1>6, <1>7, <2>1, <2>2, <2>3
  <2>4. CASE f # Depth + 1
    <3>1. f \in 1 .. Depth /\ frames'[f] = frames[f]
      BY <1>6, <1>7, <2>4
    <3> QED
      BY <1>1, <2>2, <3>1 DEF FramesInv, OpenInUse, InUseBy
  <2> QED
    BY <2>3, <2>4
<1>11. rfile \in profiled' => rfile \in profiled
  BY <1>1, <1>2, <1>3
<1>12. HalfStarted'
  BY <1>1, <1>11 DEF FramesInv, HalfStarted, NeverOpened
<1>13. SessionEndsWithFrame'
  <2>1. static_impl \in profiled' => static_impl \in profiled
    BY <1>1, <1>2, <1>3
  <2>2. \A i : HasFrame(i) => HasFrame(i)'
    BY <1>6, <1>7 DEF HasFrame
  <2> QED
    BY <1>1, <1>11, <2>1, <2>2 DEF FramesInv, SessionEndsWithFrame
<1> QED
  BY <1>8, <1>9, <1>10, <1>12, <1>13 DEF FramesInv

\* A frame that moves on keeps its session; if it stops, the native profiler is
\* off or about to be turned off.
LEMMA SetTopFrames ==
  ASSUME FramesInv, Depth > 0,
         NEW p \in {"running", "stopping"}, SetTop(p),
         UNCHANGED <<profiled, static_impl, ofs, starts, prof_data, rfile>>,
         pc = "idle", pc' \in {"idle", "rprof_off"},
         p = "stopping" => static_impl = None \/ pc' = "rprof_off"
  PROVE  FramesInv'
<1>1. frames \in Seq(Frame)
  BY DEF FramesInv, Nested
<1>2. /\ frames' \in Seq(Frame)
      /\ Depth' = Depth /\ Depth \in Nat
      /\ \A f \in 1 .. Depth : frames'[f].id = frames[f].id
      /\ Top'.phase = p /\ Top'.id = Top.id
  BY <1>1, SetTopKeepsIds
<1>3. Nested'
  BY <1>2 DEF FramesInv, Nested, StartSteps
<1>4. OpenedByStart'
  BY DEF FramesInv, OpenedByStart
<1>5. SessionEndsWithFrame'
  BY <1>2 DEF FramesInv, SessionEndsWithFrame, HasFrame
<1>6. OpenInUse'
  BY <1>2 DEF FramesInv, OpenInUse, InUseBy
<1>7. HalfStarted'
  BY DEF FramesInv, HalfStarted, NeverOpened
<1> QED
  BY <1>3, <1>4, <1>5, <1>6, <1>7 DEF FramesInv

LEMMA ForceExprFrames ==
  ASSUME FramesInv, ForceExpr
  PROVE  FramesInv'
<1>1. /\ Depth > 0 /\ SetTop("running") /\ pc = "idle" /\ pc' = "idle"
      /\ UNCHANGED <<profiled, static_impl, ofs, starts, prof_data, rfile>>
  BY DEF ForceExpr, AtTop, vars, implVars
<1> QED
  BY <1>1, SetTopFrames

LEMMA ExitFrames ==
  ASSUME Owned, FramesInv, Exit
  PROVE  FramesInv'
<1>1. /\ Depth > 0 /\ SetTop("stopping") /\ pc = "idle" /\ StopProfiler
      /\ UNCHANGED <<profiled, static_impl, ofs, starts, prof_data, rfile>>
  BY DEF Exit, Failed, AtTop, StopProfiler, implVars
<1>2. static_impl = prof_data
  BY <1>1 DEF Owned
<1>3. \/ static_impl = None /\ pc' = "idle"
      \/ pc' = "rprof_off"
  BY <1>1, <1>2 DEF StopProfiler, Goto, Return
<1> QED
  BY <1>1, <1>3, SetTopFrames

\* A frame is left with neither a session nor anything collecting for it.
LEMMA LeaveFrames ==
  ASSUME Owned, FramesInv, Leave
  PROVE  FramesInv'
<1>1. /\ pc = "idle" /\ Depth > 0 /\ Top.phase = "stopping"
      /\ frames' = SubSeq(frames, 1, Depth - 1)
      /\ UNCHANGED <<profiled, static_impl, ofs, starts, prof_data, rfile, pc>>
  BY DEF Leave, AtTop, vars, implVars
<1>2. static_impl = None /\ prof_data = None
  BY <1>1 DEF FramesInv, Nested, Owned
<1>3. /\ frames' \in Seq(Frame) /\ Depth' = Depth - 1 /\ Depth \in Nat
      /\ \A f \in 1 .. Depth - 1 : frames'[f] = frames[f]
  <2>1. frames \in Seq(Frame) /\ Len(frames) \in Nat /\ Len(frames) > 0
    BY <1>1 DEF FramesInv, Nested, Depth
  <2> DEFINE n == Len(frames) - 1
             sub == SubSeq(frames, 1, n)
  <2>2. n \in Nat /\ n <= Len(frames)
    BY <2>1
  <2>3. sub \in Seq(Frame) /\ Len(sub) = n /\ \A f \in 1 .. n : sub[f] = frames[f]
    <3> HIDE DEF n
    <3> QED
      BY <2>1, <2>2
  <2> QED
    BY <1>1, <2>1, <2>3 DEF Depth
<1>4. pc' \notin StartSteps \cup StopSteps
  BY <1>1 DEF StartSteps, StopSteps
<1>5. Nested'
  BY <1>1, <1>2, <1>3, <1>4 DEF FramesInv, Nested
<1>6. OpenedByStart'
  BY <1>1 DEF FramesInv, OpenedByStart
<1>7. OpenInUse'
  BY <1>1, <1>3 DEF FramesInv, OpenInUse, InUseBy
<1>8. HalfStarted'
  BY <1>1 DEF FramesInv, HalfStarted, NeverOpened
<1>9. SessionEndsWithFrame'
  <2>1. static_impl \notin profiled
    BY <1>2 DEF FramesInv, Nested, None
  <2>2. rfile \in profiled => NeverOpened(rfile)
    BY <1>1, <1>2 DEF FramesInv, HalfStarted
  <2> QED
    BY <1>1, <2>1, <2>2 DEF SessionEndsWithFrame, NeverOpened
<1> QED
  BY <1>5, <1>6, <1>7, <1>8, <1>9 DEF FramesInv

\* Whatever the user calls, at the prompt or in the expression.
LEMMA UserCallFrames ==
  ASSUME IInv, Owned, FramesInv, UserCall
  PROVE  FramesInv'
<1>1. /\ UNCHANGED <<frames, profiled>> /\ Depth' = Depth /\ Top' = Top
      /\ \A i : HasFrame(i)' = HasFrame(i)
  BY DEF UserCall, comVars, Depth, Top, HasFrame
<1>2. starts \in Nat /\ Depth \in Nat
  BY DEF IInv, TypeOK, FramesInv, Nested, Depth
<1>3. CASE UserCode /\ StartProfiler
  <2>1. /\ pc = "idle" /\ UNCHANGED <<static_impl, ofs, prof_data, rfile>>
        /\ \/ starts' = starts /\ pc' = "idle"
           \/ starts' = starts + 1 /\ starts + 1 \in Calls /\ pc' = "rprof_on"
    BY <1>3, StartProfilerNumbers DEF IInv
  <2>2. Depth > 0 => Top.phase # "stopping"
    BY <1>2, <1>3 DEF UserCode, AtTop
  <2>3. starts + 1 \notin profiled /\ profiled \in SUBSET (1 .. starts')
    BY <1>2, <2>1 DEF FramesInv, Nested
  <2>4. Nested'
    BY <1>1, <2>1, <2>2, <2>3 DEF FramesInv, Nested, StartSteps
  <2>5. OpenedByStart'
    BY <1>2, <2>1 DEF FramesInv, OpenedByStart, Calls
  <2>6. OpenInUse' /\ HalfStarted' /\ SessionEndsWithFrame'
    BY <1>1, <2>1
       DEF FramesInv, OpenInUse, InUseBy, HalfStarted, NeverOpened,
           SessionEndsWithFrame
  <2> QED
    BY <2>4, <2>5, <2>6 DEF FramesInv
<1>4. CASE UserCode /\ (StopProfiler \/ UserRprof)
  <2>1. /\ pc = "idle" /\ pc' \in {"idle", "rprof_off"}
        /\ UNCHANGED <<static_impl, ofs, prof_data, starts>>
        /\ rfile' \in {rfile, User, None}
    BY <1>4 DEF StopProfiler, UserRprof, RprofOn, RprofOff, Goto, Return,
                implVars
  <2>2. User \notin profiled /\ None \notin profiled
    BY DEF FramesInv, Nested, User, None
  <2>3. Depth > 0 => Top.phase # "stopping"
    BY <1>2, <1>4 DEF UserCode, AtTop
  <2>4. Nested' /\ OpenedByStart' /\ OpenInUse'
    BY <1>1, <2>1, <2>3
       DEF FramesInv, Nested, OpenedByStart, OpenInUse, InUseBy, StartSteps
  <2>5. HalfStarted' /\ SessionEndsWithFrame'
    BY <1>1, <2>1, <2>2
       DEF FramesInv, HalfStarted, NeverOpened, SessionEndsWithFrame
  <2> QED
    BY <2>4, <2>5 DEF FramesInv
<1>5. CASE Depth = 0 /\ (Unload \/ Load)
  <2>1. /\ pc \in {"idle", "unloaded"} /\ pc' \in {"idle", "unloaded"}
        /\ UNCHANGED <<ofs, starts, rfile>>
        /\ static_impl' \in {static_impl, None}
        /\ prof_data' \in {prof_data, None}
    BY <1>5 DEF Unload, Load, Goto, implVars
  <2>2. None \notin profiled /\ \A i : ~HasFrame(i)
    BY <1>5 DEF FramesInv, Nested, None, HasFrame
  <2>3. rfile \in profiled => NeverOpened(rfile)
    BY <2>2 DEF FramesInv, SessionEndsWithFrame, NeverOpened
  <2>4. Nested' /\ OpenedByStart' /\ OpenInUse'
    BY <1>1, <1>5, <2>1
       DEF FramesInv, Nested, OpenedByStart, OpenInUse, StartSteps
  <2>5. HalfStarted' /\ SessionEndsWithFrame'
    BY <1>1, <2>1, <2>2, <2>3
       DEF FramesInv, HalfStarted, NeverOpened, SessionEndsWithFrame
  <2> QED
    BY <2>4, <2>5 DEF FramesInv
<1> QED
  BY <1>3, <1>4, <1>5 DEF UserCall

-----------------------------------------------------------------------------
(* The calls in progress.                                                  *)

\* What a statement of start() or stop(), a tick or a finalizer may do, where R
\* code is not interrupted.
Advances ==
  /\ UNCHANGED <<frames, profiled, starts>>
  /\ pc' \in StartSteps => pc \in StartSteps
  /\ pc \in {"install", "set_static"} =>
       pc' \in {"install", "set_static"} \/ static_impl' = starts
  /\ pc' \in {"rprof_on", "start"} => pc \in {"rprof_on", "start"}
  /\ pc = "trailer" => /\ prof_data' = prof_data
                       /\ pc' = "trailer" \/ ofs'[prof_data] = "complete"
  /\ \/ /\ static_impl' = static_impl
        /\ pc \in {"rprof_off", "restore", "clear_static"} =>
             pc' \in {"rprof_off", "restore", "clear_static"}
     \/ /\ static_impl' = None /\ pc = "clear_static" /\ pc' = "trailer"
        /\ prof_data' = prof_data
     \/ static_impl' = starts /\ pc = "set_static"
StreamsAdvance ==
  \A i \in Calls :
    \/ ofs'[i] = ofs[i]
    \/ /\ i = starts /\ pc = "start" /\ pc' = "install" /\ ofs'[i] = "open"
       /\ rfile' = rfile
    \/ i = prof_data /\ pc = "trailer" /\ ofs'[i] = "complete" /\ rfile' = rfile
    \/ ofs[i] = "open" /\ ofs'[i] = "torn" /\ ~Reachable(i) /\ pc # "crashed"
RprofAdvances ==
  /\ \/ rfile' = rfile
     \/ rfile' = None
     \/ rfile' = starts /\ pc = "rprof_on" /\ pc' = "start"
  /\ pc' \in {"idle", "unloaded"} /\ prof_data' = None =>
       \/ rfile' = None
       \/ pc \in {"idle", "unloaded"} /\ UNCHANGED <<rfile, prof_data>>
       \/ /\ pc = "start" /\ rfile' = starts /\ "ofs_open" \in Env
          /\ UNCHANGED ofs

LEMMA ProgressAdvances ==
  ASSUME IInv, Owned, Progress, "interrupt" \notin Env
  PROVE  Advances /\ StreamsAdvance /\ RprofAdvances
<1> USE NumbersTyped
        DEF IInv, TypeOK, Control, StartProgress, StopProgress, Owned,
            StartSteps, StopSteps, Goto, Return, implVars, dataVars, comVars,
            Advances, StreamsAdvance, RprofAdvances
<1>0. UNCHANGED <<frames, profiled>>
  BY DEF Progress
<1>1. CASE StartRprof
  BY <1>0, <1>1, SMTT(30) DEF StartRprof, RprofOn, RprofOff
<1>2. CASE ImplStart
  <2>1. /\ pc = "start" /\ rfile = starts /\ action = "rprof" /\ starts \in Calls
        /\ UNCHANGED <<static_impl, prof_data, rfile, starts>>
    BY <1>2 DEF ImplStart
  <2>2. PICK opened \in Succeeds("ofs_open") :
          \/ /\ static_impl # None \/ ~opened
             /\ pc' = "idle" /\ ofs' = ofs
          \/ pc' = "install" /\ ofs' = [ofs EXCEPT ![starts] = "open"]
    BY <1>2, <2>1 DEF ImplStart
  <2>3. CASE pc' = "idle" /\ ofs' = ofs /\ (static_impl # None \/ ~opened)
    <3>1. prof_data = None => "ofs_open" \in Env
      BY <2>1, <2>2, <2>3 DEF Succeeds
    <3> QED
      BY <1>0, <2>1, <2>3, <3>1
  <2>4. CASE pc' = "install" /\ ofs' = [ofs EXCEPT ![starts] = "open"]
    BY <1>0, <2>1, <2>4
  <2> QED
    BY <2>2, <2>3, <2>4
<1>3. CASE Install
  BY <1>0, <1>3, SMTT(30) DEF Install
<1>4. CASE SetStatic
  BY <1>0, <1>4, SMTT(30) DEF SetStatic
<1>5. CASE Publish
  BY <1>0, <1>5, SMTT(30) DEF Publish, None, Calls
<1>6. CASE StopRprof
  BY <1>0, <1>6, SMTT(30) DEF StopRprof, RprofOff
<1>7. CASE Restore
  BY <1>0, <1>7, SMTT(30) DEF Restore
<1>8. CASE ClearStatic
  BY <1>0, <1>8, SMTT(30) DEF ClearStatic
<1>9. CASE WriteTrailer
  BY <1>0, <1>9, SMTT(30) DEF WriteTrailer
<1>10. CASE Combine
  BY <1>0, <1>10, SMTT(30) DEF Combine
<1>11. CASE Tick
  <2>1. static_impl \notin freed
    BY DEF HandlerHasStream, None
  <2>2. UNCHANGED <<static_impl, ofs, rfile, prof_data, starts, pc>>
    BY <1>11, <2>1, TickFrame
  <2> QED
    BY <1>0, <2>2
<1>12. ASSUME NEW k \in 1 .. starts, Finalize(k)
       PROVE  Advances /\ StreamsAdvance /\ RprofAdvances
  <2>1. /\ UNCHANGED <<static_impl, rfile, prof_data, starts, pc>>
        /\ ofs' = [ofs EXCEPT ![k] = IF @ = "open" THEN "torn" ELSE @]
        /\ ~Reachable(k) /\ pc # "crashed"
    BY <1>12 DEF Finalize
  <2>2. \A i \in Calls : ofs'[i] = ofs[i]
                         \/ (i = k /\ ofs[i] = "open" /\ ofs'[i] = "torn")
    BY <2>1
  <2> QED
    BY <1>0, <2>1, <2>2
<1>13. ~(pc # "idle" /\ (StartProfiler \/ StopProfiler)) /\ ~Interrupt
  BY DEF StartProfiler, StopProfiler, Interrupt
<1> QED
  BY <1>0, <1>1, <1>2, <1>3, <1>4, <1>5, <1>6, <1>7, <1>8, <1>9, <1>10,
     <1>11, <1>12, <1>13, Zenon DEF Progress, StartCall, StopCall

LEMMA ProgressFrames ==
  ASSUME IInv, Owned, FramesInv, Progress, "interrupt" \notin Env
  PROVE  FramesInv'
<1>1. /\ UNCHANGED <<frames, profiled, starts>>
      /\ Depth' = Depth /\ Top' = Top
      /\ \A i : HasFrame(i)' = HasFrame(i)
  BY ProgressAdvances DEF Advances, Depth, Top, HasFrame
<1>2. /\ Depth \in Nat /\ Depth = Len(frames) /\ Top = frames[Depth]
      /\ \A f \in 1 .. Depth : frames[f].id \in Calls \cup {None}
      /\ profiled \subseteq Calls
  <2>1. frames \in Seq(Frame)
    BY DEF FramesInv, Nested
  <2>2. \A f \in 1 .. Len(frames) : frames[f] \in Frame
    BY <2>1
  <2> QED
    BY <2>1, <2>2, NumbersTyped
       DEF IInv, Control, FramesInv, Nested, Depth, Top, Frame
<1>3. pc \in StartSteps /\ starts \in profiled => HasFrame(starts)
  BY <1>2 DEF FramesInv, Nested, HasFrame
<1>4. Nested'
  BY <1>1, ProgressAdvances DEF FramesInv, Nested, Advances, StartSteps
<1>5. OpenedByStart'
  <2>1. /\ prof_data <= starts /\ starts \in Nat /\ prof_data \in Nat
        /\ pc \in StartSteps => starts \in Calls
        /\ pc \in {"rprof_on", "start"} => pc \in StartSteps
    BY NumbersTyped
       DEF IInv, TypeOK, Control, Numbered, Calls, None, StartSteps
  <2>2. ASSUME NEW i \in Calls, i > starts
        PROVE  ofs'[i] = "closed"
    <3>1. ofs[i] = "closed" /\ i # starts /\ i # prof_data
      BY <2>1, <2>2 DEF FramesInv, OpenedByStart, Calls
    <3> QED
      BY <3>1, ProgressAdvances DEF StreamsAdvance
  <2>3. ASSUME pc' \in {"rprof_on", "start"}
        PROVE  ofs'[starts] = "closed"
    <3>1. pc \in {"rprof_on", "start"}
      BY <2>3, ProgressAdvances DEF Advances
    <3>2. ofs[starts] = "closed" /\ starts \in Calls
      BY <2>1, <3>1 DEF FramesInv, OpenedByStart
    <3> QED
      BY <2>3, <3>1, <3>2, ProgressAdvances DEF StreamsAdvance
  <2> QED
    BY <1>1, <2>2, <2>3 DEF OpenedByStart
<1>6. OpenInUse'
  <2>1. SUFFICES ASSUME NEW f \in 1 .. Depth, NEW id, id = frames[f].id,
                        id # None
                 PROVE  ofs'[id] # "torn" /\ (ofs'[id] = "open" => InUseBy(id)')
    BY <1>1 DEF OpenInUse
  <2>2. id \in Calls /\ ofs[id] # "torn" /\ (ofs[id] = "open" => InUseBy(id))
    BY <1>2, <2>1 DEF FramesInv, OpenInUse
  <2>3. ~(ofs[id] = "open" /\ ~Reachable(id) /\ pc # "crashed")
    BY <2>2
       DEF InUseBy, Reachable, Owned, StartSteps, StopSteps, Calls, None, IInv,
           TypeOK
  <2>4. CASE ofs'[id] = ofs[id]
    <3>1. InUseBy(id) => InUseBy(id)' \/ ofs'[id] = "complete"
      <4>1. CASE id = static_impl
        <5>1. /\ pc = "set_static" => static_impl = None
              /\ pc = "clear_static" => static_impl = prof_data
              /\ static_impl # None
          BY <2>2, <4>1 DEF Owned, IInv, Control, StartProgress, Calls, None
        <5> QED
          BY <4>1, <5>1, ProgressAdvances DEF InUseBy, Advances
      <4>2. CASE pc \in {"install", "set_static"} /\ id = starts
        BY <1>1, <4>2, ProgressAdvances DEF InUseBy, Advances
      <4>3. CASE pc = "trailer" /\ id = prof_data
        BY <4>3, ProgressAdvances DEF InUseBy, Advances
      <4> QED
        BY <4>1, <4>2, <4>3 DEF InUseBy
    <3> QED
      BY <2>2, <2>4, <3>1
  <2>5. CASE id = starts /\ pc' = "install" /\ ofs'[id] = "open"
    BY <1>1, <2>5 DEF InUseBy
  <2>6. CASE ofs'[id] = "complete"
    BY <2>6
  <2> QED
    BY <2>2, <2>3, <2>4, <2>5, <2>6, ProgressAdvances DEF StreamsAdvance
<1>7. HalfStarted'
  <2>1. SUFFICES ASSUME pc' \in {"idle", "unloaded"}, prof_data' = None,
                        rfile' \in profiled
                 PROVE  "ofs_open" \in Env /\ ofs'[rfile'] = "closed"
    BY <1>1 DEF HalfStarted, NeverOpened
  <2>2. rfile' # None /\ rfile' \in Calls
    <3>1. None \notin Calls
      BY DEF Calls, None
    <3> QED
      BY <1>2, <2>1, <3>1
  <2>3. CASE pc \in {"idle", "unloaded"} /\ UNCHANGED <<rfile, prof_data>>
    <3>1. NeverOpened(rfile)
      BY <2>1, <2>3 DEF FramesInv, HalfStarted
    <3>2. ofs'[rfile] = ofs[rfile]
      BY <2>2, <2>3, <3>1, ProgressAdvances DEF StreamsAdvance, NeverOpened
    <3> QED
      BY <2>3, <3>1, <3>2 DEF NeverOpened
  <2>4. CASE pc = "start" /\ rfile' = starts /\ "ofs_open" \in Env /\ UNCHANGED ofs
    BY <2>4 DEF FramesInv, OpenedByStart, NeverOpened
  <2> QED
    BY <2>1, <2>2, <2>3, <2>4, ProgressAdvances DEF RprofAdvances
<1>8. SessionEndsWithFrame'
  <2>1. static_impl' \in profiled => HasFrame(static_impl')
    <3>1. CASE static_impl' = static_impl
      BY <3>1 DEF FramesInv, SessionEndsWithFrame
    <3>2. CASE static_impl' = None
      BY <3>2 DEF FramesInv, Nested, None
    <3>3. CASE static_impl' = starts /\ pc = "set_static"
      BY <1>3, <3>3 DEF StartSteps
    <3> QED
      BY <3>1, <3>2, <3>3, ProgressAdvances DEF Advances
  <2>2. ASSUME rfile' \in profiled, ~HasFrame(rfile')
        PROVE  "ofs_open" \in Env /\ ofs'[rfile'] = "closed"
    <3>1. rfile' # None /\ rfile' \in Calls
      BY <1>2, <2>2 DEF Calls, None
    <3>2. CASE rfile' = rfile
      <4>1. NeverOpened(rfile)
        BY <2>2, <3>2 DEF FramesInv, SessionEndsWithFrame, NeverOpened
      <4>2. ~(rfile = starts /\ pc = "start")
        BY <1>3, <2>2, <3>2 DEF StartSteps
      <4>3. ~(rfile = prof_data /\ pc = "trailer")
        BY <3>1, <3>2 DEF IInv, Control, StopProgress
      <4>4. ofs'[rfile] = ofs[rfile]
        BY <3>1, <3>2, <4>1, <4>2, <4>3, ProgressAdvances
           DEF StreamsAdvance, NeverOpened
      <4> QED
        BY <3>2, <4>1, <4>4 DEF NeverOpened
    <3>3. CASE rfile' = starts /\ pc = "rprof_on"
      BY <1>3, <2>2, <3>3 DEF StartSteps
    <3> QED
      BY <3>1, <3>2, <3>3, ProgressAdvances DEF RprofAdvances
  <2> QED
    BY <1>1, <2>1, <2>2 DEF SessionEndsWithFrame, NeverOpened
<1> QED
  BY <1>4, <1>5, <1>6, <1>7, <1>8 DEF FramesInv

LEMMA FramesInvariance ==
  ASSUME "interrupt" \notin Env
  PROVE  ComSpec => []FramesInv
<1>1. IInv /\ Owned /\ FramesInv /\ ComNext => FramesInv'
  BY EnterFrames, ForceExprFrames, ExitFrames, LeaveFrames, UserCallFrames,
     ProgressFrames, Zenon DEF ComNext
<1>2. FramesInv /\ UNCHANGED allVars => FramesInv'
  BY DEF FramesInv, Nested, OpenedByStart, OpenInUse, InUseBy, HalfStarted,
         NeverOpened, SessionEndsWithFrame, HasFrame, Depth, Top, allVars,
         vars, comVars, implVars
<1>3. IInv /\ Owned /\ FramesInv /\ [ComNext]_allVars => FramesInv'
  BY <1>1, <1>2
<1> QED
  BY <1>3, InitFrames, ComInvariance, PTL DEF ComSpec

\* The frames and the sessions they started keep their types.
THEOREM ComTypeCorrect ==
  ASSUME "interrupt" \notin Env
  PROVE  ComSpec => []ComTypeOK
<1>1. IInv /\ FramesInv => ComTypeOK
  BY NumbersTyped
     DEF IInv, Control, FramesInv, Nested, Frame, ComTypeOK
<1> QED
  BY <1>1, FramesInvariance, ComInvariance, PTL

\* However calls of comingle_rprof() are nested, whatever their expressions call
\* and whatever fails, none leaves the native profiler or Rprof collecting for
\* it, except Rprof where the native profile could not be created.
THEOREM SessionAlwaysEndsWithFrame ==
  ASSUME "interrupt" \notin Env
  PROVE  ComSpec => []SessionEndsWithFrame
<1>1. FramesInv => SessionEndsWithFrame
  BY DEF FramesInv
<1> QED
  BY <1>1, FramesInvariance, PTL

\* A call of comingle_rprof() is not left before the native profile that it has
\* begun has its trailer, whoever has stopped the session.
THEOREM FrameAlwaysCompletes ==
  ASSUME "interrupt" \notin Env
  PROVE  ComSpec => []FrameCompletesItsOwn
<1>1. IInv /\ Owned /\ FramesInv => FrameCompletesItsOwn
  <2> SUFFICES ASSUME IInv, Owned, FramesInv,
                      Depth > 0, Top.phase = "stopping", Top.id # None
               PROVE  \/ ofs[Top.id] \in {"closed", "complete"}
                      \/ pc \in StopSteps /\ prof_data = Top.id
    BY DEF FrameCompletesItsOwn
  <2>1. frames \in Seq(Frame) /\ Depth \in 1 .. Depth /\ Top = frames[Depth]
        /\ Depth = Len(frames)
    BY DEF FramesInv, Nested, Depth, Top
  <2>2. frames[Depth] \in Frame
    BY <2>1
  <2>3. Top.id \in Calls
    BY <2>1, <2>2 DEF Frame
  <2>4. ofs[Top.id] # "torn" /\ (ofs[Top.id] = "open" => InUseBy(Top.id))
    BY <2>1 DEF FramesInv, OpenInUse
  <2>5. ofs[Top.id] \in {"closed", "open", "complete", "torn"}
    BY <2>3 DEF IInv, TypeOK
  <2>6. /\ pc \notin StartSteps
        /\ static_impl = None \/ pc \in {"rprof_off", "restore", "clear_static"}
    BY DEF FramesInv, Nested
  <2>7. InUseBy(Top.id) => pc \in StopSteps /\ prof_data = Top.id
    BY <2>3, <2>6 DEF InUseBy, Owned, StartSteps, StopSteps
  <2> QED
    BY <2>4, <2>5, <2>7
<1> QED
  BY <1>1, FramesInvariance, ComInvariance, PTL
=============================================================================
