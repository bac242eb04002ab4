---------------------------- MODULE ChainThreads ----------------------------
(***************************************************************************)
(* The daisy chain in a process with several threads.  SIGPROF is sent to  *)
(* the process, so a thread that a package has started may have to run the *)
(* handler, and then R goes on with start_profiler() or stop_profiler()    *)
(* between the steps of static_handler() and handler() of                  *)
(* src/profiler.cpp.  A thread runs one handler at a time; on R's thread   *)
(* it stops R.  The statements of R are the actions of DaisyChain; the     *)
(* package is not unloaded.                                                *)
(***************************************************************************)
EXTENDS DaisyChain, FiniteSets

CONSTANT Workers   \* the threads besides R's

VARIABLES handlers,  \* the handler of each thread: its next step, the Impl, the
                     \* disposition it has saved, and its tick
          serial     \* history: no handler has been disturbed so far

threadVars == <<handlers, serial>>
allVars == <<vars, threadVars>>

RThread == "R"
Threads == Workers \cup {RThread}
HandlerSteps == {"test", "enter", "write", "save", "call", "restore", "doprof"}
Idle == [at |-> "none", impl |-> None, saved |-> "dfl", tick |-> 0]

At(t, step) == handlers[t].at = step
InFlight == {t \in Threads : handlers[t].at \in HandlerSteps}
Alive == \A t \in Threads : ~At(t, "crashed")

SetHandler(t, h) == handlers' = [handlers EXCEPT ![t] = h]
StepTo(t, step) == handlers' = [handlers EXCEPT ![t].at = step]
Finish(t) == SetHandler(t, Idle)
\* What a handler reads or writes, or needs to stay as it is.
sharedVars == <<action, static_impl, implVars, rfile, freed>>
restVars == <<prof_data, starts, pc, ret>>

ThreadsInit == Init /\ handlers = [t \in Threads |-> Idle] /\ serial = TRUE

RStatement ==
  /\ Alive
  /\ At(RThread, "none")
  /\ \/ StartCall \/ StopCall \/ Interrupt \/ UserRprof
     \/ \E i \in 1 .. starts : Finalize(i)
  /\ serial' = (serial /\ (InFlight = {} \/ UNCHANGED sharedVars))
  /\ UNCHANGED handlers

\* The kernel picks a thread that is not in a handler, and the disposition of
\* that moment.
Deliver(t) ==
  /\ Alive
  /\ At(t, "none")
  /\ rfile # None
  /\ ticks < MaxTicks
  /\ ticks' = ticks + 1
  /\ LET step == CASE action = "chain" -> "test"
                   [] action = "rprof" -> "doprof"
                   [] action = "dfl" -> "crashed"
                   [] OTHER -> "none"
     IN  SetHandler(t, IF step = "none" THEN Idle
                       ELSE [Idle EXCEPT !.at = step, !.tick = ticks'])
  /\ serial' = (serial /\ InFlight = {})
  /\ UNCHANGED <<sharedVars, restVars, native, rprof>>

-----------------------------------------------------------------------------
(* static_handler() and handler(), one access to shared state at a time.   *)

\* Mutant: static_handler() does not test static_impl.
TestForgotten(t) ==
  /\ At(t, "test")
  /\ SetHandler(t, [handlers[t] EXCEPT !.at = "enter", !.impl = static_impl])
  /\ UNCHANGED <<vars, serial>>

Test(t) ==
  /\ At(t, "test")
  /\ IF static_impl = None
       THEN Finish(t)
       ELSE SetHandler(t, [handlers[t] EXCEPT !.at = "enter", !.impl = static_impl])
  /\ UNCHANGED <<vars, serial>>

\* The call reads static_impl again, unless the compiler kept what was tested.
Enter(t) ==
  /\ At(t, "enter")
  /\ \E i \in {handlers[t].impl, static_impl} :
       SetHandler(t, [handlers[t] EXCEPT !.impl = i,
                        !.at = IF i = None THEN "crashed" ELSE "write"])
  /\ UNCHANGED <<vars, serial>>

\* A stream that is not open drops the record; one that is deleted may do so.
WriteNative(t) ==
  LET i == handlers[t].impl
  IN  /\ At(t, "write")
      /\ \/ StepTo(t, "save")
         \/ i \in freed /\ StepTo(t, "crashed")
      /\ native' = IF ofs[i] = "open" /\ i \notin freed
                     THEN [native EXCEPT ![i] = Append(@, handlers[t].tick)]
                     ELSE native
      /\ UNCHANGED <<sharedVars, restVars, rprof, ticks, serial>>

\* Mutant: the disposition is not saved.
SaveForgotten(t) ==
  /\ At(t, "save")
  /\ SetHandler(t, [handlers[t] EXCEPT !.at = "call", !.saved = "none"])
  /\ UNCHANGED <<vars, serial>>

Save(t) ==
  /\ At(t, "save")
  /\ SetHandler(t, [handlers[t] EXCEPT !.at = "call", !.saved = action])
  /\ UNCHANGED <<vars, serial>>

\* The old handler installs itself again.  Whether Rprof's handler samples on
\* whatever thread it is called or leaves that to R's, the package does not say.
CallOld(t) ==
  LET i == handlers[t].impl
  IN  /\ At(t, "call")
      /\ \/ /\ StepTo(t, "restore")
            /\ \E old \in OldHandlers(i) :
                 \/ /\ CallOldHandler(old, handlers[t].tick)
                    /\ action' = IF Handled(old) THEN old ELSE action
                    /\ UNCHANGED serial
                 \/ /\ t # RThread
                    /\ old = "rprof"
                    /\ serial' = FALSE
                    /\ UNCHANGED <<action, rprof>>
         \/ /\ i \in freed
            /\ StepTo(t, "crashed")
            /\ UNCHANGED <<action, rprof, serial>>
      /\ UNCHANGED <<static_impl, implVars, rfile, freed, restVars, native, ticks>>

\* Mutant: the disposition is not restored.
RestoreActionForgotten(t) ==
  /\ At(t, "restore")
  /\ Finish(t)
  /\ UNCHANGED <<vars, serial>>

RestoreAction(t) ==
  /\ At(t, "restore")
  /\ Finish(t)
  /\ action' = handlers[t].saved
  /\ UNCHANGED <<static_impl, implVars, rfile, freed, restVars, dataVars, serial>>

\* Rprof's handler where no chain is in front of it.
Doprof(t) ==
  /\ At(t, "doprof")
  /\ Finish(t)
  /\ RprofSample(handlers[t].tick)
  /\ action' = "rprof"
  /\ UNCHANGED <<static_impl, implVars, rfile, freed, restVars, native, ticks, serial>>

HandlerStep(t) ==
  /\ Alive
  /\ \/ Test(t) \/ Enter(t) \/ WriteNative(t) \/ Save(t) \/ CallOld(t)
     \/ RestoreAction(t) \/ Doprof(t)

ThreadsNext == RStatement \/ \E t \in Threads : Deliver(t) \/ HandlerStep(t)

ThreadsSpec == ThreadsInit /\ [][ThreadsNext]_allVars

-----------------------------------------------------------------------------
(* Properties.                                                             *)

ThreadsTypeOK ==
  /\ TypeOK
  /\ handlers \in [Threads -> [at : HandlerSteps \cup {"none", "crashed"},
                               impl : Calls \cup {None},
                               saved : Dispositions,
                               tick : 0 .. MaxTicks]]
  /\ serial \in BOOLEAN

\* Impl::start() writes the header before it lets a handler in: whatever stops
\* and starts come between the steps of a handler on another thread, the Impl
\* it ends up with has a file with a header, be it finished or deleted.
HeaderFirst ==
  \A t \in Threads :
    At(t, "write") => ofs[handlers[t].impl] # "closed"

\* A handler that nobody disturbs neither crashes nor writes into a file that is
\* not open: the test of static_impl is enough for the tick that comes between
\* any two statements of start() and stop().
\* (Without interrupts, which may leave a running Impl to the finalizer.)
SafeWhileSerial ==
  serial => /\ Alive
            /\ \A t \in Threads :
                 At(t, "write") => /\ ofs[handlers[t].impl] = "open"
                                   /\ handlers[t].impl \notin freed

\* "Before closing file, to avoid race condition", src/profiler.cpp:88: no
\* handler comes to the file after it has been closed.
NoHandlerAfterClose ==
  \A t \in Threads :
    At(t, "write") => ofs[handlers[t].impl] = "open"

-----------------------------------------------------------------------------
(* The handler is atomic as long as it is not disturbed: DaisyChain with    *)
(* its effects hidden until its last step.                                  *)

PendingTicks == {handlers[t].tick : t \in InFlight}
\* Every log without the record of the handler in flight, which is the last.
Settled(log) ==
  [i \in Calls |->
     LET n == Len(log[i])
     IN  IF n # 0 /\ log[i][n] \in PendingTicks THEN SubSeq(log[i], 1, n - 1)
         ELSE log[i]]
SettledAction ==
  IF \E t \in Threads : At(t, "restore")
    THEN handlers[CHOOSE t \in Threads : At(t, "restore")].saved
    ELSE action

Atomic == INSTANCE DaisyChain
            WITH action <- SettledAction,
                 native <- Settled(native), rprof <- Settled(rprof),
                 ticks <- ticks - Cardinality(PendingTicks)

\* A handler in flight and the R statements that leave the shared state alone
\* commute: start_profiler() may publish its session, and calls may begin and
\* be refused, while a handler runs on another thread, and the outcome is one
\* of DaisyChain, whose handler is a single step.  So every race is one of a
\* handler with another handler or with a change of what it uses.  (Without
\* interrupts, which may leave a running Impl to the finalizer.)
AtomicWhileSerial ==
  Atomic!Init /\ [][serial' => Atomic!Next]_<<Atomic!vars>>
=============================================================================
