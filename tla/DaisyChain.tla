----------------------------- MODULE DaisyChain -----------------------------
(***************************************************************************)
(* The SIGPROF daisy chain of src/profiler.cpp, driven by start_profiler() *)
(* and stop_profiler() of R/profiler.R.                                    *)
(*                                                                         *)
(* One R thread executes the calls statement by statement (pc).  Rprof's   *)
(* interval timer interrupts it between any two of them; SIGPROF is masked *)
(* while its handler runs on that thread, so a whole handler is one step.  *)
(* Every call of start_profiler() creates an Impl and two temporary files, *)
(* so the number of the call names all three.  Rprof, the kernel's signal  *)
(* table, the garbage collector and the pprof tool are external: they are  *)
(* modelled from how the package uses them.                                *)
(***************************************************************************)
EXTENDS Integers, Sequences

CONSTANTS MaxStarts,   \* bound on the calls of start_profiler()
          MaxTicks,    \* bound on the expirations of the profiling timer
          Env          \* what the environment does besides an orderly
                       \* start / stop: see EnvEvents

EnvEvents == {"no_pprof",     \* find_pprof() does not find the tool
              "rprof_open",   \* Rprof() cannot create its file
              "ofs_open",     \* the native profile cannot be created
              "combine",      \* reading, converting or writing fails
              "restart",      \* start_profiler() while a session runs
              "user_rprof",   \* the user calls Rprof() too
              "interrupt",    \* Ctrl-C between two R statements
              "reload"}       \* the package is unloaded and loaded again

ASSUME DaisyChainAssumption ==
  /\ MaxStarts \in Nat \ {0}
  /\ MaxTicks \in Nat
  /\ Env \subseteq EnvEvents

VARIABLES action,      \* the disposition of SIGPROF in the kernel
          static_impl, \* Impl::static_impl
          initact,     \* initact of each Impl
          oldact,      \* oldact of each Impl
          ofs,         \* state of each Impl's output stream
          native,      \* ticks recorded in each Impl's file
          rfile,       \* where Rprof writes now; None when it is off
          rprof,       \* ticks recorded in each session's Rprof file
          prof_data,   \* .my_env$prof_data
          starts,      \* calls of start_profiler() so far; the last one is
                       \* also the local prof_data of the call in progress
          pc,          \* the statement the R thread executes next
          ret,         \* how the last call returned
          freed,       \* Impls deleted by the finalizer of their XPtr
          ticks        \* expirations of the timer so far

implVars == <<initact, oldact, ofs>>
dataVars == <<native, rprof, ticks>>
vars == <<action, static_impl, implVars, rfile, prof_data, starts, pc, ret,
          freed, dataVars>>

None == 0
User == -1          \* a profile the user collects with Rprof() directly
Calls == 1 .. MaxStarts
Ticks == 1 .. MaxTicks

\* "null": whatever inert handler Rprof(NULL) leaves behind.
Dispositions == {"dfl", "ign", "null", "rprof", "chain"}

StartSteps == {"rprof_on", "start", "install", "set_static", "publish"}
StopSteps == {"rprof_off", "restore", "clear_static", "trailer", "combine"}

Init ==
  /\ action \in {"dfl", "ign"}
  /\ static_impl = None
  /\ initact = [i \in Calls |-> "dfl"]
  /\ oldact = [i \in Calls |-> "dfl"]
  /\ ofs = [i \in Calls |-> "closed"]
  /\ native = [i \in Calls |-> << >>]
  /\ rfile = None
  /\ rprof = [i \in Calls |-> << >>]
  /\ prof_data = None
  /\ starts = 0
  /\ pc = "idle"
  /\ ret = "ok"
  /\ freed = {}
  /\ ticks = 0

Goto(from, to) == pc = from /\ pc' = to /\ UNCHANGED ret
Return(r) == pc' = "idle" /\ ret' = r
\* Outcomes of an operation that fails only if the environment says so.
Succeeds(event) == IF event \in Env THEN BOOLEAN ELSE {TRUE}

-----------------------------------------------------------------------------
(* Rprof(), external.                                                      *)

RprofOn(file) == rfile' = file /\ action' = "rprof"

\* Rprof(NULL) stops the timer and closes the file; nothing in the package
\* tells whether it also replaces the handler.
RprofOff == rfile' = None /\ action' \in {action, "null"}

-----------------------------------------------------------------------------
(* start_profiler()                                                        *)

\* find_pprof(), the temporary files and the constructor of the Impl, which
\* saves the disposition it finds.
StartProfiler ==
  /\ pc = "idle"
  /\ starts < MaxStarts
  /\ prof_data # None => "restart" \in Env
  /\ \E found \in Succeeds("no_pprof") :
       IF found
         THEN /\ starts' = starts + 1
              /\ initact' = [initact EXCEPT ![starts + 1] = action]
              /\ Goto("idle", "rprof_on")
         ELSE /\ Return("error")
              /\ UNCHANGED <<starts, initact>>
  /\ UNCHANGED <<action, static_impl, oldact, ofs, rfile, prof_data, freed,
                 dataVars>>

StartRprof ==
  /\ pc = "rprof_on"
  /\ \E opened \in Succeeds("rprof_open") :
       IF opened
         THEN RprofOn(starts) /\ Goto("rprof_on", "start")
         ELSE RprofOff /\ Return("error")
  /\ UNCHANGED <<static_impl, implVars, prof_data, starts, freed, dataVars>>

\* Mutants: without the test of static_impl, and saving the disposition that the
\* constructor found instead of the one that Rprof() has just installed.
ImplStartUnchecked ==
  /\ Goto("start", "install")
  /\ oldact' = [oldact EXCEPT ![starts] = action]
  /\ ofs' = [ofs EXCEPT ![starts] = "open"]
  /\ UNCHANGED <<action, static_impl, initact, rfile, prof_data, starts,
                 freed, dataVars>>
ImplStartStaleOldact ==
  /\ static_impl = None
  /\ Goto("start", "install")
  /\ oldact' = [oldact EXCEPT ![starts] = initact[starts]]
  /\ ofs' = [ofs EXCEPT ![starts] = "open"]
  /\ UNCHANGED <<action, static_impl, initact, rfile, prof_data, starts,
                 freed, dataVars>>

\* Mutant: static_impl is set before the file is opened.
ImplStartEager ==
  /\ pc = "start"
  /\ \E opened \in Succeeds("ofs_open") :
       IF static_impl # None \/ action = "chain" \/ ~opened
         THEN Return("error") /\ UNCHANGED ofs
         ELSE /\ Goto("start", "install")
              /\ ofs' = [ofs EXCEPT ![starts] = "open"]
  /\ oldact' = [oldact EXCEPT ![starts] = action]
  /\ static_impl' = IF static_impl = None THEN starts ELSE static_impl
  /\ UNCHANGED <<action, initact, rfile, prof_data, starts, freed, dataVars>>

\* Impl::start() up to write_header(): the three ways it can throw.  Only the
\* chain itself is installed with SA_SIGINFO.
ImplStart ==
  /\ pc = "start"
  /\ \E opened \in Succeeds("ofs_open") :
       LET refused == static_impl # None
           siginfo == ~refused /\ action = "chain"
       IN  /\ oldact' = IF refused THEN oldact
                        ELSE [oldact EXCEPT ![starts] = action]
           /\ IF refused \/ siginfo \/ ~opened
                THEN Return("error") /\ UNCHANGED ofs
                ELSE /\ Goto("start", "install")
                     /\ ofs' = [ofs EXCEPT ![starts] = "open"]
  /\ UNCHANGED <<action, static_impl, initact, rfile, prof_data, starts,
                 freed, dataVars>>

Install ==
  /\ Goto("install", "set_static")
  /\ action' = "chain"
  /\ UNCHANGED <<static_impl, implVars, rfile, prof_data, starts, freed,
                 dataVars>>

\* Mutant: the handler is published through a stale pointer.
SetStaticOffByOne ==
  /\ Goto("set_static", "publish")
  /\ static_impl' = starts + 1
  /\ UNCHANGED <<action, implVars, rfile, prof_data, starts, freed, dataVars>>

SetStatic ==
  /\ Goto("set_static", "publish")
  /\ static_impl' = starts
  /\ UNCHANGED <<action, implVars, rfile, prof_data, starts, freed, dataVars>>

Publish ==
  /\ pc = "publish"
  /\ prof_data' = starts
  /\ Return("ok")
  /\ UNCHANGED <<action, static_impl, implVars, rfile, starts, freed,
                 dataVars>>

-----------------------------------------------------------------------------
(* stop_profiler()                                                         *)

StopProfiler ==
  /\ IF prof_data = None
       THEN pc = "idle" /\ Return("error")
       ELSE Goto("idle", "rprof_off")
  /\ UNCHANGED <<action, static_impl, implVars, rfile, prof_data, starts,
                 freed, dataVars>>

\* Mutant: stop_profiler() leaves Rprof to the user.
StopRprofForgotten ==
  /\ Goto("rprof_off", "restore")
  /\ UNCHANGED <<action, static_impl, implVars, rfile, prof_data, starts,
                 freed, dataVars>>

StopRprof ==
  /\ Goto("rprof_off", "restore")
  /\ RprofOff
  /\ UNCHANGED <<static_impl, implVars, prof_data, starts, freed, dataVars>>

\* Mutant: Impl::stop() leaves the handler installed.
RestoreForgotten ==
  /\ Goto("restore", "clear_static")
  /\ UNCHANGED <<action, static_impl, implVars, rfile, prof_data, starts,
                 freed, dataVars>>

\* Impl::stop(), one statement at a time.
Restore ==
  /\ Goto("restore", "clear_static")
  /\ action' = initact[prof_data]
  /\ UNCHANGED <<static_impl, implVars, rfile, prof_data, starts, freed,
                 dataVars>>

\* Mutant: Impl::stop() leaves static_impl set.
ClearStaticForgotten ==
  /\ Goto("clear_static", "trailer")
  /\ UNCHANGED <<action, static_impl, implVars, rfile, prof_data, starts,
                 freed, dataVars>>

ClearStatic ==
  /\ Goto("clear_static", "trailer")
  /\ static_impl' = None
  /\ UNCHANGED <<action, implVars, rfile, prof_data, starts, freed, dataVars>>

WriteTrailer ==
  /\ Goto("trailer", "combine")
  /\ ofs' = [ofs EXCEPT ![prof_data] = "complete"]
  /\ UNCHANGED <<action, static_impl, initact, oldact, rfile, prof_data,
                 starts, freed, dataVars>>

\* combine_profiles() and write_rprof(); on.exit() empties .my_env whether
\* they succeed or not.
SameTotals(i) == Len(native[i]) = Len(rprof[i])

\* Mutant: .my_env is emptied by the last statement instead of by on.exit().
CombineKeepsOnError ==
  /\ pc = "combine"
  /\ \E done \in Succeeds("combine") :
       IF SameTotals(prof_data) /\ done
         THEN Return("ok") /\ prof_data' = None
         ELSE Return("error") /\ UNCHANGED prof_data
  /\ UNCHANGED <<action, static_impl, implVars, rfile, starts, freed,
                 dataVars>>

Combine ==
  /\ pc = "combine"
  /\ \E done \in Succeeds("combine") :
       Return(IF SameTotals(prof_data) /\ done THEN "ok" ELSE "error")
  /\ prof_data' = None
  /\ UNCHANGED <<action, static_impl, implVars, rfile, starts, freed,
                 dataVars>>

\* Ctrl-C is taken between R statements, never inside the native calls.
\* on.exit() runs once stop_profiler() has registered it.
Interrupt ==
  /\ "interrupt" \in Env
  /\ \/ /\ pc \in {"rprof_on", "start", "publish"}
        /\ UNCHANGED prof_data
     \/ /\ pc \in {"rprof_off", "restore", "combine"}
        /\ prof_data' = None
  /\ Return("error")
  /\ UNCHANGED <<action, static_impl, implVars, rfile, starts, freed,
                 dataVars>>

-----------------------------------------------------------------------------
(* The signal.                                                             *)

\* Handlers installed with signal() install themselves again when they run,
\* which is why Impl::handler() saves and restores the disposition around the
\* handler it calls.
Handled(old) == old \notin {"dfl", "ign"}
\* Mutant: the handler called last has installed itself.
ActionNotRestored(saved, old) == IF Handled(old) THEN old ELSE action
ActionAfterHandler(saved, old) == IF Handled(old) THEN saved ELSE action

RprofSample(k) ==
  rprof' = IF rfile \in Calls THEN [rprof EXCEPT ![rfile] = Append(@, k)]
           ELSE rprof
CallOldHandler(old, k) ==
  IF old = "rprof" THEN RprofSample(k) ELSE UNCHANGED rprof

\* The memory of an Impl that the finalizer has deleted may say anything.
OldHandlers(i) == IF i \in freed THEN {oldact[i], "dfl"} ELSE {oldact[i]}

\* Impl::static_handler() and Impl::handler().  Through a deleted Impl, whose
\* stream is destroyed, the record is lost or the process ends.
Handler(k) ==
  \/ /\ static_impl = None
     /\ UNCHANGED <<action, native, rprof, pc>>
  \/ /\ static_impl # None
     /\ native' = IF static_impl \in freed THEN native
                  ELSE [native EXCEPT ![static_impl] = Append(@, k)]
     /\ \E old \in OldHandlers(static_impl) :
          /\ CallOldHandler(old, k)
          /\ action' = ActionAfterHandler(action, old)
     /\ UNCHANGED pc
  \/ /\ static_impl \in freed
     /\ pc' = "crashed"
     /\ UNCHANGED <<action, native, rprof>>

\* An armed timer with the default disposition would kill R: see NeverKilled.
Tick ==
  /\ pc # "crashed"
  /\ rfile # None
  /\ ticks < MaxTicks
  /\ ticks' = ticks + 1
  /\ \/ action = "rprof" /\ RprofSample(ticks') /\ UNCHANGED <<action, native, pc>>
     \/ action = "chain" /\ Handler(ticks')
     \/ action \in {"ign", "null"} /\ UNCHANGED <<action, native, rprof, pc>>
  /\ UNCHANGED <<static_impl, implVars, rfile, prof_data, starts, ret, freed>>

-----------------------------------------------------------------------------
(* The environment.                                                        *)

UserRprof ==
  /\ "user_rprof" \in Env
  /\ pc = "idle"
  /\ RprofOn(User) \/ RprofOff
  /\ UNCHANGED <<static_impl, implVars, prof_data, starts, pc, ret, freed,
                 dataVars>>

RemoveHandler == action' = "ign"

\* R_unload_jointprof(); the shared object and the namespace disappear with
\* their variables.
Unload ==
  /\ "reload" \in Env
  /\ Goto("idle", "unloaded")
  /\ RemoveHandler
  /\ static_impl' = None
  /\ prof_data' = None
  /\ UNCHANGED <<implVars, rfile, starts, freed, dataVars>>

Load ==
  /\ Goto("unloaded", "idle")
  /\ UNCHANGED <<action, static_impl, implVars, rfile, prof_data, starts,
                 freed, dataVars>>

\* An Impl is reachable from .my_env or from the running start_profiler().
\* Its destructor closes the stream and nothing else.
Reachable(i) == i = prof_data \/ (i = starts /\ pc \in StartSteps)

Finalize(i) ==
  /\ pc # "crashed"
  /\ i \notin freed
  /\ ~Reachable(i)
  /\ freed' = freed \cup {i}
  /\ ofs' = [ofs EXCEPT ![i] = IF @ = "open" THEN "torn" ELSE @]
  /\ UNCHANGED <<action, static_impl, initact, oldact, rfile, prof_data,
                 starts, pc, ret, dataVars>>

StartCall == StartProfiler \/ StartRprof \/ ImplStart \/ Install \/ SetStatic
             \/ Publish
StopCall == StopProfiler \/ StopRprof \/ Restore \/ ClearStatic
            \/ WriteTrailer \/ Combine

Next == \/ StartCall
        \/ StopCall
        \/ Interrupt
        \/ Tick
        \/ UserRprof
        \/ Unload
        \/ Load
        \/ \E i \in 1 .. starts : Finalize(i)

Spec == Init /\ [][Next]_vars

-----------------------------------------------------------------------------
(* Properties.                                                             *)

TypeOK ==
  /\ action \in Dispositions
  /\ static_impl \in Calls \cup {None}
  /\ initact \in [Calls -> Dispositions]
  /\ oldact \in [Calls -> Dispositions]
  /\ ofs \in [Calls -> {"closed", "open", "complete", "torn"}]
  /\ native \in [Calls -> Seq(Ticks)]
  /\ rfile \in Calls \cup {None, User}
  /\ rprof \in [Calls -> Seq(Ticks)]
  /\ prof_data \in Calls \cup {None}
  /\ starts \in 0 .. MaxStarts
  /\ pc \in {"idle", "unloaded", "crashed"} \cup StartSteps \cup StopSteps
  /\ ret \in {"ok", "error"}
  /\ freed \in SUBSET Calls
  /\ ticks \in 0 .. MaxTicks

\* The native samples of a session are the last samples of its R profile,
\* tick for tick: the native side is never ahead, and a tick that was missed
\* is missed at the beginning.  So whenever combine_profiles() finds equal
\* totals, sample j of one file and sample j of the other are the same tick,
\* which is what combine_ds() relies on when it binds the two columns.  Only an
\* Impl that the finalizer has deleted while it was running, which no session
\* in .my_env is, loses samples at the end.
IsSuffix(s, t) ==
  /\ Len(s) <= Len(t)
  /\ \A j \in 1 .. Len(s) : s[j] = t[Len(t) - Len(s) + j]

PairedSamples == \A i \in Calls \ freed : IsSuffix(native[i], rprof[i])

\* The chain handler is installed only while there is an Impl behind it,
\* except for the instant in Impl::start() between the two assignments: what
\* stop_profiler() restores, whatever disposition the constructor happened to
\* find, and what unloading the package leaves is never a chain to nowhere.
\* That Impl is a live one unless an interrupt has separated it from .my_env, and
\* the one that the finalizer then deletes is not that of a session which
\* stop_profiler() can still end.
ChainHasImpl ==
  action = "chain" /\ pc # "set_static" =>
    /\ static_impl # None
    /\ static_impl \in freed => "interrupt" \in Env /\ prof_data = None

\* SIGPROF never has its default disposition, which terminates R, while
\* Rprof's timer runs.
NeverKilled == rfile # None => action # "dfl"

\* Between calls the native profiler and .my_env agree on whether a session
\* runs: start_profiler() and stop_profiler() are never both refused.
SessionOwned == pc = "idle" => static_impl = prof_data

\* The Impl that the handler writes through has not been finalized and its
\* file has a header and no trailer yet.
HandlerHasStream ==
  static_impl # None => static_impl \notin freed /\ ofs[static_impl] = "open"

\* As long as Rprof writes the file of the session in .my_env, every tick goes
\* into both of the files that stop_profiler() will combine: the chain is
\* complete, whatever was tried, refused or interrupted in the meantime.
SessionCollects ==
  prof_data # None /\ rfile = prof_data =>
    action = "chain" /\ static_impl = prof_data /\ oldact[prof_data] = "rprof"

\* When the profiles are combined nothing samples any more: the timer is off
\* and no handler of the package is left, whatever the disposition was that
\* the constructor of the Impl had found.
NothingLeft ==
  pc = "combine" => rfile = None /\ static_impl = None /\ action # "chain"

-----------------------------------------------------------------------------
(* What the repository's own words claim and the code does not keep; each is *)
(* the property of a run that TLC refutes.                                   *)

\* stopifnot() at R/combine.R:11: when the profiles are combined, both have
\* the same number of samples.
TotalsAgree == pc = "combine" => SameTotals(prof_data)

\* "Can't stop profiling because it hasn't started yet", R/profiler.R:74: when
\* stop_profiler() would say so, R profiling is indeed not running.
RefusedStopMeansRprofOff ==
  pc = "idle" /\ prof_data = None => rfile \notin Calls

-----------------------------------------------------------------------------
(* Refinement of JointSession.                                             *)

Phase(i) ==
  IF rfile = i /\ action = "chain" /\ static_impl = i
    THEN IF i \in freed THEN "orphan" ELSE "joint"
  ELSE IF rfile = i /\ action \in {"rprof", "chain"} THEN "ronly"
  ELSE IF i > starts \/ (i = starts /\ pc = "rprof_on") THEN "new"
  ELSE "over"

Session == INSTANCE JointSession
             WITH Sessions <- Calls, phase <- [i \in Calls |-> Phase(i)],
                  held <- {prof_data} \ {None},
                  rsamples <- rprof, nsamples <- native

\* Every behaviour of the chain is one the abstract session allows: a session
\* that collects jointly and that stop_profiler() can end never collects half a
\* sample, one that ended never grows, and two never collect at once.
ImplementsSession == Session!Spec
=============================================================================
