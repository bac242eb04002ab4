------------------------------ MODULE Comingle ------------------------------
(***************************************************************************)
(* comingle_rprof() of R/record.R, the body of joint_pprof(): it registers *)
(* on.exit(stop_profiler()), calls start_profiler() and then evaluates the *)
(* user's expression, which may call the package's functions itself, this  *)
(* one included.  Every frame of it on R's call stack drives the session   *)
(* of DaisyChain.                                                          *)
(***************************************************************************)
EXTENDS DaisyChain

CONSTANT MaxDepth    \* bound on the nesting of comingle_rprof()

ASSUME ComingleAssumption == MaxDepth \in Nat \ {0}

VARIABLES frames,    \* the calls of comingle_rprof() on the stack
          profiled   \* the sessions that such calls have started

comVars == <<frames, profiled>>
allVars == <<vars, comVars>>

Depth == Len(frames)
Top == frames[Depth]
AtTop(phase) == pc = "idle" /\ Depth > 0 /\ Top.phase = phase
SetTop(phase) == frames' = [frames EXCEPT ![Depth].phase = phase]

\* R code of the user's is running: at the prompt or in a frame's expression.
UserCode == pc = "idle" /\ (Depth = 0 \/ AtTop("running"))

ComInit == Init /\ frames = << >> /\ profiled = {}

\* Mutant: a start that failed is counted as a session.
EnterCountsFailure ==
  /\ UserCode
  /\ Depth < MaxDepth
  /\ StartProfiler
  /\ LET id == IF starts' = starts THEN None ELSE starts'
     IN  /\ frames' = Append(frames, [phase |-> "starting", id |-> id])
         /\ profiled' = profiled \cup {id}

\* on.exit() comes first, so that the frame stops a session on every way out.
Enter ==
  /\ UserCode
  /\ Depth < MaxDepth
  /\ StartProfiler
  /\ LET id == IF starts' = starts THEN None ELSE starts'
     IN  /\ frames' = Append(frames, [phase |-> "starting", id |-> id])
         /\ profiled' = profiled \cup ({id} \ {None})

\* start_profiler() has returned: the promise expr is forced.
ForceExpr ==
  /\ AtTop("starting")
  /\ ret = "ok"
  /\ SetTop("running")
  /\ UNCHANGED <<vars, profiled>>

\* The expression ended, normally or not, or start_profiler() failed.
Failed == AtTop("starting") /\ ret = "error"

\* Mutant: with a plain call at the end instead of on.exit(), an expression that
\* fails leaves the session on.
ExitWithoutStop ==
  /\ AtTop("running") \/ Failed
  /\ SetTop("stopping")
  /\ UNCHANGED <<vars, profiled>>

Exit ==
  /\ AtTop("running") \/ Failed
  /\ StopProfiler
  /\ SetTop("stopping")
  /\ UNCHANGED profiled

Leave ==
  /\ AtTop("stopping")
  /\ frames' = SubSeq(frames, 1, Depth - 1)
  /\ UNCHANGED <<vars, profiled>>

\* The exported functions and Rprof(), called by the user at the prompt or in
\* the expression.  Only at the prompt is the package unloaded: a frame on the
\* stack would go on in the code of a namespace that is gone.
UserCall ==
  /\ \/ UserCode /\ (StartProfiler \/ StopProfiler \/ UserRprof)
     \/ Depth = 0 /\ (Unload \/ Load)
  /\ UNCHANGED comVars

\* The calls in progress, the timer and the garbage collector.
Progress ==
  /\ \/ pc # "idle" /\ (StartCall \/ StopCall \/ Interrupt)
     \/ Tick
     \/ \E i \in 1 .. starts : Finalize(i)
  /\ UNCHANGED comVars

ComNext == Enter \/ ForceExpr \/ Exit \/ Leave \/ UserCall \/ Progress

ComSpec == ComInit /\ [][ComNext]_allVars

-----------------------------------------------------------------------------
(* Properties.                                                             *)

ComTypeOK ==
  /\ TypeOK
  /\ frames \in Seq([phase : {"starting", "running", "stopping"},
                     id : Calls \cup {None}])
  /\ profiled \in SUBSET Calls

HasFrame(id) == \E f \in 1 .. Depth : frames[f].id = id

\* A session that comingle_rprof() started does not outlive the call: whatever
\* fails on the way and whatever the expression calls, neither the native
\* profiler nor Rprof collects for a frame that is gone.  The one exception is
\* Rprof's half of a session whose native profile could not be created, for
\* which stop_profiler() refuses to do anything.
SessionEndsWithFrame ==
  /\ static_impl \in profiled => HasFrame(static_impl)
  /\ rfile \in profiled =>
       HasFrame(rfile) \/ ("ofs_open" \in Env /\ ofs[rfile] = "closed")

\* "This function uses start_profiler() and stop_profiler() to initiate and
\* stop the data collection", R/record.R:24: the native profile that a frame has
\* begun gets its trailer before the frame is gone, from the frame or from what
\* was called in its expression; on.exit() stops something else only if the
\* frame's own session has been refused, has failed or is over.
FrameCompletesItsOwn ==
  Depth > 0 /\ Top.phase = "stopping" /\ Top.id # None =>
    \/ ofs[Top.id] \in {"closed", "complete"}
    \/ pc \in StopSteps /\ prof_data = Top.id
=============================================================================
