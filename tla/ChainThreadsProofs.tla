------------------------- MODULE ChainThreadsProofs -------------------------
(***************************************************************************)
(* Theorems about ChainThreads, for every set of threads and every         *)
(* MaxStarts, MaxTicks and Env: however handlers on other threads race     *)
(* with start() and stop(), the header comes first; and handlers that do   *)
(* not race are safe.                                                      *)
(***************************************************************************)
EXTENDS ChainThreads, DaisyChainProofs, FiniteSetTheorems, SequenceTheorems

HandlerStates == [at : HandlerSteps \cup {"none", "crashed"},
                  impl : Calls \cup {None},
                  saved : Dispositions,
                  tick : 0 .. MaxTicks]

\* A handler in flight has a tick and, beyond Enter, an Impl.
Equipped(h) ==
  /\ h.at \in HandlerSteps => h.tick \in Ticks
  /\ h.at \in {"write", "save", "call"} => h.impl \in Calls

HandlersTyped ==
  /\ handlers \in [Threads -> HandlerStates]
  /\ \A t \in Threads : Equipped(handlers[t])
  /\ serial \in BOOLEAN

\* Whatever a handler may get hold of has a file.
Opened ==
  /\ static_impl # None => ofs[static_impl] # "closed"
  /\ pc \in {"install", "set_static"} => ofs[starts] # "closed"
  /\ \A t \in Threads :
       handlers[t].impl # None => ofs[handlers[t].impl] # "closed"

\* The handlers crash on their own, not by the atomic one of DaisyChain.
ThreadsInv ==
  TypeOK /\ Numbered /\ HandlersTyped /\ Opened /\ pc # "crashed"

-----------------------------------------------------------------------------
(* R's thread.                                                             *)

LEMMA RNumbered ==
  ASSUME TypeOK, Numbered,
         \/ StartCall \/ StopCall \/ Interrupt \/ UserRprof
         \/ \E i \in 1 .. starts : Finalize(i)
  PROVE  Numbered'
<1> USE NumbersTyped
        DEF TypeOK, Numbered, StartSteps, StopSteps, Goto, Return, implVars,
            dataVars, None, User, Calls
<1>1. CASE StartProfiler
  BY <1>1, SMTT(30) DEF StartProfiler
<1>2. CASE StartRprof
  BY <1>2, SMTT(30) DEF StartRprof, RprofOn, RprofOff
<1>3. CASE ImplStart
  BY <1>3, SMTT(30) DEF ImplStart
<1>4. CASE Install
  BY <1>4, SMTT(30) DEF Install
<1>5. CASE SetStatic
  BY <1>5, SMTT(30) DEF SetStatic
<1>6. CASE Publish
  BY <1>6, SMTT(30) DEF Publish
<1>7. CASE StopProfiler
  BY <1>7, SMTT(30) DEF StopProfiler
<1>8. CASE StopRprof
  BY <1>8, SMTT(30) DEF StopRprof, RprofOff
<1>9. CASE Restore
  BY <1>9, SMTT(30) DEF Restore
<1>10. CASE ClearStatic
  BY <1>10, SMTT(30) DEF ClearStatic
<1>11. CASE WriteTrailer
  BY <1>11, SMTT(30) DEF WriteTrailer
<1>12. CASE Combine
  BY <1>12, SMTT(30) DEF Combine
<1>13. CASE Interrupt
  BY <1>13, SMTT(30) DEF Interrupt
<1>14. CASE UserRprof
  BY <1>14, SMTT(30) DEF UserRprof, RprofOn, RprofOff
<1>15. ASSUME NEW i \in 1 .. starts, Finalize(i)
       PROVE  Numbered'
  BY <1>15 DEF Finalize
<1> QED
  BY <1>1, <1>2, <1>3, <1>4, <1>5, <1>6, <1>7, <1>8, <1>9, <1>10, <1>11,
     <1>12, <1>13, <1>14, <1>15, Zenon DEF StartCall, StopCall

\* A stream is never as it was before it was opened, and only an opened one is
\* published.
LEMMA ROpens ==
  ASSUME TypeOK, Numbered,
         \/ StartCall \/ StopCall \/ Interrupt \/ UserRprof
         \/ \E i \in 1 .. starts : Finalize(i)
  PROVE  /\ \A i \in Calls : ofs'[i] = "closed" => ofs[i] = "closed"
         /\ \/ static_impl' = static_impl
            \/ static_impl' = None
            \/ static_impl' = starts /\ pc = "set_static"
         /\ pc' \in {"install", "set_static"} =>
              /\ starts' = starts /\ starts \in Calls
              /\ pc \in {"install", "set_static"} \/ ofs'[starts] # "closed"
         /\ pc # "crashed" => pc' # "crashed"
<1> USE NumbersTyped
        DEF TypeOK, StartSteps, StopSteps, Goto, Return, implVars, dataVars
<1>1. CASE StartProfiler
  BY <1>1, SMTT(30) DEF StartProfiler
<1>2. CASE StartRprof
  BY <1>2, SMTT(30) DEF StartRprof
<1>3. CASE ImplStart
  BY <1>3, SMTT(30) DEF ImplStart
<1>4. CASE Install
  BY <1>4, SMTT(30) DEF Install
<1>5. CASE SetStatic
  BY <1>5, SMTT(30) DEF SetStatic
<1>6. CASE Publish
  BY <1>6, SMTT(30) DEF Publish
<1>7. CASE StopProfiler
  BY <1>7, SMTT(30) DEF StopProfiler
<1>8. CASE StopRprof
  BY <1>8, SMTT(30) DEF StopRprof
<1>9. CASE Restore
  BY <1>9, SMTT(30) DEF Restore
<1>10. CASE ClearStatic
  BY <1>10, SMTT(30) DEF ClearStatic
<1>11. CASE WriteTrailer
  BY <1>11, SMTT(30) DEF WriteTrailer
<1>12. CASE Combine
  BY <1>12, SMTT(30) DEF Combine
<1>13. CASE Interrupt
  BY <1>13, SMTT(30) DEF Interrupt
<1>14. CASE UserRprof
  BY <1>14, SMTT(30) DEF UserRprof
<1>15. ASSUME NEW k \in 1 .. starts, Finalize(k)
       PROVE  /\ UNCHANGED <<static_impl, starts, pc>>
              /\ pc \in {"install", "set_static"} => starts \in Calls
              /\ \A i \in Calls : ofs'[i] = "closed" <=> ofs[i] = "closed"
  BY <1>15, SMTT(30) DEF Finalize
<1> QED
  BY <1>1, <1>2, <1>3, <1>4, <1>5, <1>6, <1>7, <1>8, <1>9, <1>10, <1>11,
     <1>12, <1>13, <1>14, <1>15, Zenon DEF StartCall, StopCall

LEMMA RStatementInv ==
  ASSUME ThreadsInv, RStatement
  PROVE  ThreadsInv'
<1>1. \/ StartCall \/ StopCall \/ Interrupt \/ UserRprof
      \/ \E i \in 1 .. starts : Finalize(i)
  BY DEF RStatement
<1>2. TypeOK'
  BY <1>1, CallTypeOK, EnvironmentTypeOK, Zenon DEF ThreadsInv
<1>3. Numbered'
  BY <1>1, RNumbered DEF ThreadsInv
<1>4. HandlersTyped'
  <2>1. serial' \in BOOLEAN
    BY DEF RStatement, ThreadsInv, HandlersTyped
  <2> QED
    BY <2>1 DEF RStatement, ThreadsInv, HandlersTyped
<1>5. Opened'
  <2>1. static_impl \in Calls \cup {None} /\ static_impl' \in Calls \cup {None}
    BY <1>2 DEF ThreadsInv, TypeOK
  <2>2. /\ \A i \in Calls : ofs'[i] = "closed" => ofs[i] = "closed"
        /\ \/ static_impl' = static_impl
           \/ static_impl' = None
           \/ static_impl' = starts /\ pc = "set_static"
        /\ pc' \in {"install", "set_static"} =>
             /\ starts' = starts /\ starts \in Calls
             /\ pc \in {"install", "set_static"} \/ ofs'[starts] # "closed"
    BY <1>1, ROpens DEF ThreadsInv
  <2>3. \A t \in Threads :
          handlers'[t] = handlers[t] /\ handlers[t].impl \in Calls \cup {None}
    BY DEF RStatement, ThreadsInv, HandlersTyped, HandlerStates
  <2>4. pc = "set_static" => starts \in Calls
    BY NumbersTyped DEF ThreadsInv, StartSteps
  <2> QED
    BY <2>1, <2>2, <2>3, <2>4 DEF ThreadsInv, Opened
<1>6. pc' # "crashed"
  BY <1>1, ROpens DEF ThreadsInv
<1> QED
  BY <1>2, <1>3, <1>4, <1>5, <1>6 DEF ThreadsInv

-----------------------------------------------------------------------------
(* The handlers.                                                           *)

\* What a step of a handler may do: it moves one thread, appends a tick and
\* changes the disposition.
LEMMA HandlerMoves ==
  ASSUME ThreadsInv, NEW t \in Threads, NEW h \in HandlerStates, SetHandler(t, h),
         Equipped(h),
         h.impl # None => ofs[h.impl] # "closed",
         UNCHANGED <<static_impl, implVars, rfile, freed, restVars>>,
         serial' \in BOOLEAN,
         action' \in Dispositions,
         ticks' \in 0 .. MaxTicks,
         native' \in [Calls -> Seq(Ticks)],
         rprof' \in [Calls -> Seq(Ticks)]
  PROVE  ThreadsInv'
<1>1. /\ handlers' \in [Threads -> HandlerStates]
      /\ \A u \in Threads : handlers'[u] = IF u = t THEN h ELSE handlers[u]
  BY DEF SetHandler, ThreadsInv, HandlersTyped
<1>2. TypeOK'
  BY DEF ThreadsInv, TypeOK, implVars, restVars
<1>3. Numbered'
  BY DEF ThreadsInv, Numbered, restVars
<1>4. HandlersTyped'
  BY <1>1 DEF ThreadsInv, HandlersTyped
<1>5. Opened'
  BY <1>1 DEF ThreadsInv, Opened, implVars, restVars
<1> QED
  BY <1>2, <1>3, <1>4, <1>5 DEF ThreadsInv, restVars

\* The record of a handler, field by field.
LEMMA HandlerFields ==
  ASSUME HandlersTyped, NEW t \in Threads
  PROVE  /\ handlers[t] \in HandlerStates
         /\ handlers[t].impl \in Calls \cup {None}
         /\ handlers[t].saved \in Dispositions
         /\ handlers[t].tick \in 0 .. MaxTicks
         /\ Idle \in HandlerStates /\ Idle.impl = None /\ Idle.at = "none"
  BY DaisyChainAssumption
     DEF HandlersTyped, HandlerStates, Idle, Dispositions, DaisyChainAssumption

LEMMA DeliverInv ==
  ASSUME ThreadsInv, NEW t \in Threads, Deliver(t)
  PROVE  ThreadsInv'
<1>1. PICK h \in {Idle} \cup {[Idle EXCEPT !.at = step, !.tick = ticks'] :
                              step \in {"test", "doprof", "crashed"}} :
        SetHandler(t, h)
  BY DEF Deliver
<1>2. ticks' \in 0 .. MaxTicks /\ ticks' \in Ticks
  BY DaisyChainAssumption
     DEF DaisyChainAssumption, Deliver, ThreadsInv, TypeOK, Ticks
<1>3. h \in HandlerStates /\ Equipped(h) /\ h.impl = None
  BY <1>1, <1>2, HandlerFields
     DEF ThreadsInv, HandlerStates, HandlerSteps, Idle, Equipped
<1>4. /\ UNCHANGED <<static_impl, implVars, rfile, freed, restVars>>
      /\ UNCHANGED <<action, native, rprof>>
      /\ serial' \in BOOLEAN
  BY DEF Deliver, sharedVars
<1> QED
  BY <1>1, <1>2, <1>3, <1>4, HandlerMoves DEF ThreadsInv, TypeOK

LEMMA HandlerStepInv ==
  ASSUME ThreadsInv, NEW t \in Threads, HandlerStep(t)
  PROVE  ThreadsInv'
<1> DEFINE Moved(h) == SetHandler(t, h) /\ h \in HandlerStates /\ Equipped(h)
                       /\ (h.impl # None => ofs[h.impl] # "closed")
<1>1. /\ handlers[t] \in HandlerStates
      /\ handlers[t].impl \in Calls \cup {None}
      /\ handlers[t].saved \in Dispositions
      /\ handlers[t].tick \in 0 .. MaxTicks
      /\ Idle \in HandlerStates /\ Idle.impl = None /\ Idle.at = "none"
      /\ Equipped(handlers[t])
      /\ handlers[t].impl # None => ofs[handlers[t].impl] # "closed"
      /\ static_impl # None => ofs[static_impl] # "closed"
      /\ static_impl \in Calls \cup {None}
      /\ serial \in BOOLEAN
  BY HandlerFields DEF ThreadsInv, HandlersTyped, Opened, TypeOK
<1>2. /\ ticks \in 0 .. MaxTicks /\ action \in Dispositions
      /\ native \in [Calls -> Seq(Ticks)] /\ rprof \in [Calls -> Seq(Ticks)]
      /\ oldact \in [Calls -> Dispositions]
  BY DEF ThreadsInv, TypeOK
<1>3. Finish(t) => Moved(Idle)
  BY <1>1 DEF Finish, Equipped, HandlerSteps
<1>4. ASSUME NEW step \in HandlerSteps \cup {"crashed"}, StepTo(t, step),
             handlers[t].tick \in Ticks,
             step \in {"write", "save", "call"} => handlers[t].impl \in Calls
      PROVE  Moved([handlers[t] EXCEPT !.at = step])
  BY <1>1, <1>4 DEF StepTo, SetHandler, HandlerStates, Equipped
<1>5. ASSUME NEW f \in [Calls -> Seq(Ticks)], NEW i \in Calls,
             handlers[t].tick \in Ticks
      PROVE  [f EXCEPT ![i] = Append(@, handlers[t].tick)]
               \in [Calls -> Seq(Ticks)]
  BY <1>5, AppendTyped
<1>6. ASSUME NEW h, Moved(h), UNCHANGED <<vars, serial>>
      PROVE  ThreadsInv'
  BY <1>1, <1>2, <1>6, HandlerMoves DEF vars, implVars, dataVars, restVars
<1>7. CASE Test(t)
  <2>1. CASE static_impl = None
    BY <1>3, <1>6, <1>7, <2>1 DEF Test
  <2>2. CASE static_impl # None
    <3>1. Moved([handlers[t] EXCEPT !.at = "enter", !.impl = static_impl])
      BY <1>1, <1>7, <2>2
         DEF Test, At, HandlerStates, HandlerSteps, Equipped
    <3> QED
      BY <1>6, <1>7, <3>1 DEF Test
  <2> QED
    BY <2>1, <2>2
<1>8. CASE Enter(t)
  <2>1. PICK i \in {handlers[t].impl, static_impl} :
          SetHandler(t, [handlers[t] EXCEPT !.impl = i,
                           !.at = IF i = None THEN "crashed" ELSE "write"])
    BY <1>8 DEF Enter
  <2>2. Moved([handlers[t] EXCEPT !.impl = i,
                 !.at = IF i = None THEN "crashed" ELSE "write"])
    BY <1>1, <1>8, <2>1 DEF Enter, At, HandlerStates, HandlerSteps, Equipped
  <2> QED
    BY <1>6, <1>8, <2>2 DEF Enter
<1>9. CASE Save(t)
  <2>1. Moved([handlers[t] EXCEPT !.at = "call", !.saved = action])
    BY <1>1, <1>2, <1>9 DEF Save, At, HandlerStates, HandlerSteps, Equipped
  <2> QED
    BY <1>6, <1>9, <2>1 DEF Save
<1>10. CASE WriteNative(t)
  <2>1. handlers[t].tick \in Ticks /\ handlers[t].impl \in Calls
    BY <1>1, <1>10 DEF WriteNative, At, Equipped, HandlerSteps
  <2>2. PICK step \in {"save", "crashed"} : StepTo(t, step)
    BY <1>10 DEF WriteNative
  <2>3. Moved([handlers[t] EXCEPT !.at = step])
    BY <1>4, <2>1, <2>2 DEF HandlerSteps
  <2>4. native' \in [Calls -> Seq(Ticks)]
    BY <1>2, <1>5, <1>10, <2>1, Zenon DEF WriteNative
  <2>5. /\ UNCHANGED <<sharedVars, restVars, rprof, ticks, serial>>
    BY <1>10 DEF WriteNative
  <2> QED
    BY <1>1, <1>2, <2>3, <2>4, <2>5, HandlerMoves DEF sharedVars
<1>11. CASE CallOld(t)
  <2>1. handlers[t].tick \in Ticks /\ handlers[t].impl \in Calls
    BY <1>1, <1>11 DEF CallOld, At, Equipped, HandlerSteps
  <2> DEFINE h == handlers[t]
  <2>2. PICK step \in {"restore", "crashed"} : StepTo(t, step)
    BY <1>11 DEF CallOld
  <2>3. Moved([handlers[t] EXCEPT !.at = step])
    BY <1>4, <2>1, <2>2 DEF HandlerSteps
  <2>4. action' \in Dispositions /\ serial' \in BOOLEAN
    <3>1. OldHandlers(h.impl) \subseteq Dispositions
      BY <1>2, <2>1 DEF OldHandlers, Dispositions
    <3> QED
      BY <1>1, <1>2, <1>11, <3>1 DEF CallOld
  <2>5. \/ rprof' = rprof
        \/ rfile \in Calls
           /\ rprof' = [rprof EXCEPT ![rfile] = Append(@, handlers[t].tick)]
    BY <1>11 DEF CallOld, CallOldHandler, RprofSample
  <2>6. rprof' \in [Calls -> Seq(Ticks)]
    <3>1. rprof \in [Calls -> Seq(Ticks)]
      BY <1>2
    <3>2. rfile \in Calls =>
            [rprof EXCEPT ![rfile] = Append(@, handlers[t].tick)]
              \in [Calls -> Seq(Ticks)]
      BY <1>5, <2>1, <3>1
    <3> QED
      BY <3>1, <3>2, <2>5
  <2>7. UNCHANGED <<static_impl, implVars, rfile, freed, restVars, native, ticks>>
    BY <1>11 DEF CallOld
  <2> QED
    BY <1>1, <1>2, <2>3, <2>4, <2>6, <2>7, HandlerMoves
<1>12. CASE RestoreAction(t)
  BY <1>1, <1>2, <1>3, <1>12, HandlerMoves DEF RestoreAction, dataVars
<1>13. CASE Doprof(t)
  <2>1. handlers[t].tick \in Ticks
    BY <1>1, <1>13 DEF Doprof, At, Equipped, HandlerSteps
  <2>2. \/ rprof' = rprof
        \/ rfile \in Calls
           /\ rprof' = [rprof EXCEPT ![rfile] = Append(@, handlers[t].tick)]
    BY <1>13 DEF Doprof, RprofSample
  <2>3. rprof' \in [Calls -> Seq(Ticks)]
    <3>1. rprof \in [Calls -> Seq(Ticks)]
      BY <1>2
    <3>2. rfile \in Calls =>
            [rprof EXCEPT ![rfile] = Append(@, handlers[t].tick)]
              \in [Calls -> Seq(Ticks)]
      BY <1>5, <2>1, <3>1
    <3> QED
      BY <3>1, <3>2, <2>2
  <2>4. action' \in Dispositions
    BY <1>13 DEF Doprof, Dispositions
  <2> QED
    BY <1>1, <1>2, <1>3, <1>13, <2>3, <2>4, HandlerMoves DEF Doprof
<1> QED
  BY <1>7, <1>8, <1>9, <1>10, <1>11, <1>12, <1>13 DEF HandlerStep

-----------------------------------------------------------------------------
(* The theorems.                                                           *)

LEMMA ThreadsInitInv == ThreadsInit => ThreadsInv
<1> SUFFICES ASSUME ThreadsInit
             PROVE  ThreadsInv
  OBVIOUS
<1>1. TypeOK /\ Numbered /\ static_impl = None /\ pc = "idle"
  BY InitTypeOK, InitControl DEF ThreadsInit, Control, Init
<1>2. /\ Idle \in HandlerStates /\ Equipped(Idle) /\ Idle.impl = None
      /\ handlers = [t \in Threads |-> Idle] /\ serial = TRUE
  BY DaisyChainAssumption
     DEF DaisyChainAssumption, ThreadsInit, HandlerStates, HandlerSteps,
         Equipped, Idle, Dispositions
<1> QED
  BY <1>1, <1>2 DEF ThreadsInv, HandlersTyped, Opened

LEMMA ThreadsInvariance == ThreadsSpec => []ThreadsInv
<1>1. ThreadsInit => ThreadsInv
  BY ThreadsInitInv
<1>2. ThreadsInv /\ ThreadsNext => ThreadsInv'
  BY RStatementInv, DeliverInv, HandlerStepInv DEF ThreadsNext
<1>3. ThreadsInv /\ UNCHANGED allVars => ThreadsInv'
  BY DEF ThreadsInv, TypeOK, Numbered, HandlersTyped, Opened, allVars, vars,
         implVars, dataVars, threadVars
<1> QED
  BY <1>1, <1>2, <1>3, PTL DEF ThreadsSpec

\* Signal table, streams and handlers keep their types in every interleaving of
\* any number of threads.
THEOREM ThreadsTypeCorrect == ThreadsSpec => []ThreadsTypeOK
<1>1. ThreadsInv => ThreadsTypeOK
  BY DEF ThreadsInv, HandlersTyped, HandlerStates, ThreadsTypeOK
<1> QED
  BY <1>1, ThreadsInvariance, PTL

\* No handler on any thread ever gets hold of a file without a header.
THEOREM HeaderAlwaysFirst == ThreadsSpec => []HeaderFirst
<1>1. ThreadsInv => HeaderFirst
  <2> SUFFICES ASSUME ThreadsInv, NEW t \in Threads, At(t, "write")
               PROVE  ofs[handlers[t].impl] # "closed"
    BY DEF HeaderFirst
  <2>1. handlers[t].impl \in Calls
    BY DEF ThreadsInv, HandlersTyped, Equipped, At
  <2>2. handlers[t].impl # None
    BY <2>1 DEF Calls, None
  <2> QED
    BY <2>2 DEF ThreadsInv, Opened
<1> QED
  BY <1>1, ThreadsInvariance, PTL

-----------------------------------------------------------------------------
(* Handlers that nobody disturbs.                                          *)

TimerOff == pc \in {"restore", "clear_static", "trailer", "combine"} => rfile = None

\* There is one handler, and what it has read is still so.
Undisturbed ==
  /\ NeverKilled
  /\ Alive
  /\ \A t, u \in InFlight : t = u
  /\ \A t \in Threads :
       LET h == handlers[t]
       IN  /\ h.at \in {"enter", "write", "save", "call"} =>
                h.impl = static_impl /\ static_impl # None
           /\ h.at \in {"test", "enter", "write", "save"} => action = "chain"
           /\ h.at \in {"call", "restore"} => h.saved = "chain"

SerialInv == Owned /\ TimerOff /\ (serial => Undisturbed)

LEMMA RTimer ==
  ASSUME TypeOK, TimerOff,
         \/ StartCall \/ StopCall \/ Interrupt \/ UserRprof
         \/ \E i \in 1 .. starts : Finalize(i)
  PROVE  /\ TimerOff'
         /\ NeverKilled => NeverKilled'
<1> USE DEF TypeOK, TimerOff, NeverKilled, Goto, Return, implVars, dataVars
<1>1. CASE StartProfiler
  BY <1>1, SMTT(30) DEF StartProfiler
<1>2. CASE StartRprof
  BY <1>2, SMTT(30) DEF StartRprof, RprofOn, RprofOff
<1>3. CASE ImplStart
  BY <1>3, SMTT(30) DEF ImplStart
<1>4. CASE Install
  BY <1>4, SMTT(30) DEF Install
<1>5. CASE SetStatic
  BY <1>5, SMTT(30) DEF SetStatic
<1>6. CASE Publish
  BY <1>6, SMTT(30) DEF Publish
<1>7. CASE StopProfiler
  BY <1>7, SMTT(30) DEF StopProfiler
<1>8. CASE StopRprof
  BY <1>8, SMTT(30) DEF StopRprof, RprofOff
<1>9. CASE Restore
  BY <1>9, SMTT(30) DEF Restore
<1>10. CASE ClearStatic
  BY <1>10, SMTT(30) DEF ClearStatic
<1>11. CASE WriteTrailer
  BY <1>11, SMTT(30) DEF WriteTrailer
<1>12. CASE Combine
  BY <1>12, SMTT(30) DEF Combine
<1>13. CASE Interrupt
  BY <1>13, SMTT(30) DEF Interrupt
<1>14. CASE UserRprof
  BY <1>14, SMTT(30) DEF UserRprof, RprofOn, RprofOff
<1>15. ASSUME NEW k \in 1 .. starts, Finalize(k)
       PROVE  UNCHANGED <<pc, rfile, action>>
  BY <1>15 DEF Finalize
<1> QED
  BY <1>1, <1>2, <1>3, <1>4, <1>5, <1>6, <1>7, <1>8, <1>9, <1>10, <1>11,
     <1>12, <1>13, <1>14, <1>15, Zenon DEF StartCall, StopCall

LEMMA RStatementSerial ==
  ASSUME ThreadsInv, SerialInv, RStatement, "interrupt" \notin Env
  PROVE  SerialInv'
<1>1. \/ StartCall \/ StopCall \/ Interrupt \/ UserRprof
      \/ \E i \in 1 .. starts : Finalize(i)
  BY DEF RStatement
<1>2. Owned'
  BY <1>1, NextOwned, Zenon DEF ThreadsInv, SerialInv, Next
<1>3. TimerOff' /\ (NeverKilled => NeverKilled')
  BY <1>1, RTimer, Zenon DEF ThreadsInv, SerialInv
<1>4. ASSUME serial'
      PROVE  Undisturbed'
  <2>1. Undisturbed /\ (InFlight = {} \/ UNCHANGED sharedVars)
    BY <1>4 DEF RStatement, SerialInv
  <2>2. handlers' = handlers
    BY DEF RStatement
  <2>3. CASE InFlight = {}
    <3>1. \A t \in Threads : handlers[t].at \notin HandlerSteps
      BY <2>3 DEF InFlight
    <3> QED
      BY <1>3, <2>1, <2>2, <3>1
         DEF Undisturbed, Alive, At, InFlight, HandlerSteps
  <2>4. CASE UNCHANGED sharedVars
    BY <1>3, <2>1, <2>2, <2>4
       DEF Undisturbed, Alive, At, InFlight, sharedVars
  <2> QED
    BY <2>1, <2>3, <2>4
<1> QED
  BY <1>2, <1>3, <1>4 DEF SerialInv

LEMMA DeliverSerial ==
  ASSUME ThreadsInv, SerialInv, NEW t \in Threads, Deliver(t)
  PROVE  SerialInv'
<1>1. UNCHANGED <<sharedVars, restVars>>
  BY DEF Deliver
<1>2. Owned' /\ TimerOff'
  BY <1>1 DEF SerialInv, Owned, TimerOff, HandlerHasStream, sharedVars,
              implVars, restVars
<1>3. ASSUME serial'
      PROVE  Undisturbed'
  <2>1. Undisturbed /\ InFlight = {} /\ action # "dfl"
    BY <1>3 DEF Deliver, SerialInv, Undisturbed, NeverKilled
  <2>2. \E h : /\ SetHandler(t, h)
               /\ h.at \in {"none", "test", "doprof"}
               /\ h.at = "test" => action = "chain"
    <3>1. CASE action = "chain"
      <4>1. SetHandler(t, [Idle EXCEPT !.at = "test", !.tick = ticks'])
        BY <3>1 DEF Deliver
      <4> QED
        BY <3>1, <4>1 DEF Idle
    <3>2. CASE action = "rprof"
      <4>1. SetHandler(t, [Idle EXCEPT !.at = "doprof", !.tick = ticks'])
        BY <3>2 DEF Deliver
      <4>2. [Idle EXCEPT !.at = "doprof", !.tick = ticks'].at = "doprof"
        BY DEF Idle
      <4> QED
        BY <4>1, <4>2
    <3>3. CASE action \notin {"chain", "rprof"}
      <4>1. SetHandler(t, Idle)
        BY <2>1, <3>3 DEF Deliver
      <4>2. Idle.at = "none"
        BY DEF Idle
      <4> QED
        BY <4>1, <4>2
    <3> QED
      BY <3>1, <3>2, <3>3
  <2>3. PICK h : /\ SetHandler(t, h)
                 /\ h.at \in {"none", "test", "doprof"}
                 /\ h.at = "test" => action = "chain"
    BY <2>2
  <2>4. \A u \in Threads : /\ handlers'[u] = IF u = t THEN h ELSE handlers[u]
                           /\ handlers[u].at \notin HandlerSteps
    BY <2>1, <2>3 DEF SetHandler, ThreadsInv, HandlersTyped, InFlight
  <2> QED
    BY <1>1, <2>1, <2>3, <2>4
       DEF Undisturbed, NeverKilled, Alive, At, InFlight, HandlerSteps, sharedVars
<1> QED
  BY <1>2, <1>3 DEF SerialInv

LEMMA SoloStep ==
  ASSUME ThreadsInv, Undisturbed,
         NEW t \in Threads, handlers[t].at \in HandlerSteps,
         NEW h, SetHandler(t, h), UNCHANGED <<static_impl, rfile>>,
         h.at # "crashed",
         h.at \in {"enter", "write", "save", "call"} =>
           h.impl = static_impl /\ static_impl # None,
         h.at \in {"test", "enter", "write", "save"} => action' = "chain",
         h.at \in {"call", "restore"} => h.saved = "chain",
         rfile # None => action' # "dfl"
  PROVE  Undisturbed'
<1>1. \A u \in Threads : handlers'[u] = IF u = t THEN h ELSE handlers[u]
  BY DEF SetHandler, ThreadsInv, HandlersTyped
<1>2. \A u \in Threads \ {t} : handlers[u].at \notin HandlerSteps
  BY DEF Undisturbed, InFlight
<1> QED
  BY <1>1, <1>2
     DEF Undisturbed, NeverKilled, Alive, At, InFlight, HandlerSteps

\* Through an Impl that still exists, the old handler is the one it has saved.
LEMMA CallLiveImpl ==
  ASSUME NEW t \in Threads, CallOld(t), handlers[t].impl \notin freed
  PROVE  LET old == oldact[handlers[t].impl]
         IN  /\ StepTo(t, "restore")
             /\ \/ /\ CallOldHandler(old, handlers[t].tick)
                   /\ action' = IF Handled(old) THEN old ELSE action
                   /\ UNCHANGED serial
                \/ ~serial'
  BY DEF CallOld, OldHandlers

LEMMA HandlerStepSerial ==
  ASSUME ThreadsInv, SerialInv, NEW t \in Threads, HandlerStep(t)
  PROVE  SerialInv'
<1>1. UNCHANGED <<static_impl, implVars, rfile, freed, restVars>>
  BY DEF HandlerStep, Test, Enter, WriteNative, Save, CallOld, RestoreAction,
         Doprof, vars, sharedVars, restVars
<1>2. Owned' /\ TimerOff'
  BY <1>1 DEF SerialInv, Owned, TimerOff, HandlerHasStream, implVars, restVars
<1>3. ASSUME serial'
      PROVE  Undisturbed'
  <2>1. Undisturbed
    BY <1>3 DEF HandlerStep, Test, Enter, WriteNative, Save, CallOld,
                RestoreAction, Doprof, SerialInv
  <2>2. /\ handlers[t] \in HandlerStates
        /\ Equipped(handlers[t])
        /\ Idle.at = "none"
    BY HandlerFields DEF ThreadsInv, HandlersTyped
  <2>3. /\ LET h == handlers[t]
           IN  /\ h.at \in {"enter", "write", "save", "call"} =>
                    h.impl = static_impl /\ static_impl # None
               /\ h.at \in {"test", "enter", "write", "save"} => action = "chain"
               /\ h.at \in {"call", "restore"} => h.saved = "chain"
        /\ rfile # None => action # "dfl"
    BY <2>1 DEF Undisturbed, NeverKilled
  <2>4. CASE Test(t)
    <3>1. CASE static_impl = None
      BY <1>1, <2>1, <2>2, <2>3, <2>4, <3>1, SoloStep
         DEF Test, At, Finish, HandlerSteps, vars
    <3>2. CASE static_impl # None
      <4> DEFINE h == [handlers[t] EXCEPT !.at = "enter", !.impl = static_impl]
      <4>1. h.at = "enter" /\ h.impl = static_impl
        BY <2>2 DEF HandlerStates
      <4>2. SetHandler(t, h) /\ handlers[t].at \in HandlerSteps
            /\ action' = "chain"
        BY <2>3, <2>4, <3>2 DEF Test, At, HandlerSteps, vars
      <4> HIDE DEF h
      <4> QED
        BY <1>1, <2>1, <3>2, <4>1, <4>2, SoloStep
    <3> QED
      BY <3>1, <3>2
  <2>5. CASE Enter(t)
    <3> DEFINE h == [handlers[t] EXCEPT !.impl = static_impl, !.at = "write"]
    <3>1. h.at = "write" /\ h.impl = static_impl
      BY <2>2 DEF HandlerStates
    <3>2. SetHandler(t, h) /\ handlers[t].at \in HandlerSteps
          /\ action' = "chain" /\ static_impl # None
      BY <2>3, <2>5 DEF Enter, At, HandlerSteps, vars
    <3> HIDE DEF h
    <3> QED
      BY <1>1, <2>1, <3>1, <3>2, SoloStep
  <2>6. CASE WriteNative(t)
    <3> DEFINE h == [handlers[t] EXCEPT !.at = "save"]
    <3>1. h.at = "save" /\ h.impl = handlers[t].impl
      BY <2>2 DEF HandlerStates
    <3>2. handlers[t].impl \notin freed /\ handlers[t].impl = static_impl
          /\ static_impl # None
      BY <2>3, <2>6 DEF WriteNative, At, SerialInv, Owned, HandlerHasStream
    <3>3. SetHandler(t, h) /\ handlers[t].at \in HandlerSteps
          /\ action' = "chain"
      BY <2>3, <2>6, <3>2
         DEF WriteNative, At, HandlerSteps, StepTo, SetHandler, sharedVars
    <3> HIDE DEF h
    <3> QED
      BY <1>1, <2>1, <3>1, <3>2, <3>3, SoloStep
  <2>7. CASE Save(t)
    <3> DEFINE h == [handlers[t] EXCEPT !.at = "call", !.saved = action]
    <3>1. h.at = "call" /\ h.saved = action /\ h.impl = handlers[t].impl
      BY <2>2 DEF HandlerStates
    <3>2. SetHandler(t, h) /\ handlers[t].at \in HandlerSteps
          /\ action = "chain" /\ action' = action
          /\ handlers[t].impl = static_impl /\ static_impl # None
      BY <2>3, <2>7 DEF Save, At, HandlerSteps, vars
    <3> HIDE DEF h
    <3> QED
      BY <1>1, <2>1, <3>1, <3>2, SoloStep
  <2>8. CASE CallOld(t)
    <3> DEFINE h == [handlers[t] EXCEPT !.at = "restore"]
    <3>1. h.at = "restore" /\ h.saved = handlers[t].saved
      BY <2>2 DEF HandlerStates
    <3>2. /\ handlers[t].at \in HandlerSteps /\ handlers[t].saved = "chain"
          /\ handlers[t].impl \notin freed
      BY <2>3, <2>8
         DEF CallOld, At, HandlerSteps, SerialInv, Owned, HandlerHasStream
    <3>3. SetHandler(t, h)
      BY <2>2, <2>8, <3>2, CallLiveImpl DEF StepTo, SetHandler, HandlerStates
    <3>4. rfile # None => action' # "dfl"
      BY <1>3, <2>3, <2>8, <3>2, CallLiveImpl DEF Handled
    <3> HIDE DEF h
    <3> QED
      BY <1>1, <2>1, <3>1, <3>2, <3>3, <3>4, SoloStep
  <2>9. CASE RestoreAction(t)
    <3>1. SetHandler(t, Idle) /\ handlers[t].at \in HandlerSteps
          /\ action' = "chain"
      BY <2>3, <2>9 DEF RestoreAction, At, HandlerSteps, Finish
    <3> QED
      BY <1>1, <2>1, <2>2, <3>1, SoloStep
  <2>10. CASE Doprof(t)
    <3>1. SetHandler(t, Idle) /\ handlers[t].at \in HandlerSteps
          /\ action' = "rprof"
      BY <2>10 DEF Doprof, At, HandlerSteps, Finish
    <3> QED
      BY <1>1, <2>1, <2>2, <3>1, SoloStep
  <2> QED
    BY <2>4, <2>5, <2>6, <2>7, <2>8, <2>9, <2>10 DEF HandlerStep
<1> QED
  BY <1>2, <1>3 DEF SerialInv

\* Where R code is not interrupted, a handler that no other handler and no
\* change of what it uses disturbs neither crashes nor misses its file, on
\* whatever thread it runs.
THEOREM SerialHandlersSafe ==
  ASSUME "interrupt" \notin Env
  PROVE  ThreadsSpec => []SafeWhileSerial
<1>1. ThreadsInit => SerialInv
  BY InitOwned
     DEF ThreadsInit, SerialInv, TimerOff, Undisturbed, NeverKilled, Alive,
         At, InFlight, HandlerSteps, Idle, Init
<1>2. ThreadsInv /\ SerialInv /\ ThreadsNext => SerialInv'
  BY RStatementSerial, DeliverSerial, HandlerStepSerial DEF ThreadsNext
<1>3. SerialInv /\ UNCHANGED allVars => SerialInv'
  BY DEF SerialInv, Owned, TimerOff, Undisturbed, NeverKilled, Alive, At,
         InFlight, HandlerHasStream, allVars, vars, implVars, threadVars
<1>4. SerialInv => SafeWhileSerial
  BY DEF SerialInv, Undisturbed, Owned, HandlerHasStream, SafeWhileSerial, At
<1> QED
  BY <1>1, <1>2, <1>3, <1>4, ThreadsInvariance, PTL DEF ThreadsSpec

-----------------------------------------------------------------------------
(* Logs without the record of the handler in flight.                       *)

Logs == [Calls -> Seq(Ticks)]
Cut(log, S) ==
  [i \in Calls |->
     LET n == Len(log[i])
     IN  IF n # 0 /\ log[i][n] \in S THEN SubSeq(log[i], 1, n - 1) ELSE log[i]]

\* All records are of ticks before this one.
Before(log, k) == \A i \in Calls : \A j \in 1 .. Len(log[i]) : log[i][j] < k
Record(log, i, k) == [log EXCEPT ![i] = Append(@, k)]

LEMMA CutNothing ==
  ASSUME NEW log \in Logs, NEW S \in SUBSET Ticks, \A k \in S : Before(log, k)
  PROVE  Cut(log, S) = log
<1>1. ASSUME NEW i \in Calls, Len(log[i]) # 0
      PROVE  log[i][Len(log[i])] \notin S
  <2>1. log[i] \in Seq(Ticks)
    BY DEF Logs
  <2>2. Len(log[i]) \in 1 .. Len(log[i])
    BY <1>1, <2>1
  <2>3. log[i][Len(log[i])] \in Ticks
    BY <2>1, <2>2, ElementOfSeq
  <2>4. \A k \in S : log[i][Len(log[i])] < k
    BY <2>2 DEF Before
  <2> QED
    BY <2>3, <2>4 DEF Ticks
<1>2. Cut(log, S) = [i \in Calls |-> log[i]]
  BY <1>1 DEF Cut
<1> QED
  BY <1>2 DEF Logs

LEMMA CutRecord ==
  ASSUME NEW log \in Logs, NEW i \in Calls, NEW k \in Ticks, Before(log, k)
  PROVE  /\ Record(log, i, k) \in Logs
         /\ Cut(Record(log, i, k), {k}) = log
         /\ Before(Record(log, i, k), k + 1)
<1> DEFINE new == Record(log, i, k)
<1>1. /\ new \in Logs /\ new[i] = Append(log[i], k)
      /\ \A c \in Calls \ {i} : new[c] = log[c]
  BY DEF Logs, Record
<1>2. /\ log[i] \in Seq(Ticks) /\ Len(new[i]) = Len(log[i]) + 1
      /\ new[i][Len(log[i]) + 1] = k
      /\ \A j \in 1 .. Len(log[i]) : new[i][j] = log[i][j]
  BY <1>1 DEF Logs
<1> HIDE DEF new
<1>3. SubSeq(new[i], 1, Len(new[i]) - 1) = log[i]
  BY <1>1, <1>2
<1>4. ASSUME NEW c \in Calls \ {i}
      PROVE  Len(new[c]) # 0 => new[c][Len(new[c])] \notin {k}
  <2>1. log[c] \in Seq(Ticks) /\ new[c] = log[c]
    BY <1>1 DEF Logs
  <2>2. ASSUME Len(log[c]) # 0
        PROVE  log[c][Len(log[c])] # k
    <3>1. Len(log[c]) \in 1 .. Len(log[c])
      BY <2>1, <2>2
    <3>2. log[c][Len(log[c])] < k
      BY <3>1 DEF Before
    <3> QED
      BY <3>2 DEF Ticks
  <2> QED
    BY <2>1, <2>2
<1>5. Cut(new, {k}) = [c \in Calls |-> log[c]]
  <2>1. Len(new[i]) # 0 /\ new[i][Len(new[i])] \in {k}
    BY <1>2
  <2> QED
    BY <1>1, <1>3, <1>4, <2>1 DEF Cut
<1>6. Before(new, k + 1)
  <2>1. ASSUME NEW c \in Calls, NEW j \in 1 .. Len(new[c])
        PROVE  new[c][j] < k + 1
    <3>1. CASE c = i /\ j = Len(log[i]) + 1
      BY <1>2, <3>1 DEF Ticks
    <3>2. CASE ~(c = i /\ j = Len(log[i]) + 1)
      <4>1. log[c] \in Seq(Ticks) /\ j \in 1 .. Len(log[c]) /\ new[c][j] = log[c][j]
        <5>1. CASE c = i
          <6>1. j \in 1 .. Len(log[i])
            BY <1>2, <3>2, <5>1
          <6> QED
            BY <1>2, <5>1, <6>1
        <5>2. CASE c # i
          BY <1>1, <5>2 DEF Logs
        <5> QED
          BY <5>1, <5>2
      <4>2. log[c][j] < k /\ log[c][j] \in Ticks
        BY <4>1, ElementOfSeq DEF Before
      <4> QED
        BY <4>1, <4>2 DEF Ticks
    <3> QED
      BY <3>1, <3>2
  <2> QED
    BY <2>1 DEF Before
<1> QED
  BY <1>1, <1>5, <1>6 DEF new, Logs

LEMMA BeforeNext ==
  ASSUME NEW log \in Logs, NEW k \in Nat, Before(log, k)
  PROVE  Before(log, k + 1)
<1>1. ASSUME NEW c \in Calls, NEW j \in 1 .. Len(log[c])
      PROVE  log[c][j] < k + 1
  <2>1. log[c] \in Seq(Ticks)
    BY DEF Logs
  <2>2. log[c][j] \in Ticks
    BY <2>1, ElementOfSeq
  <2> QED
    BY <2>2 DEF Before, Ticks
<1> QED
  BY <1>1 DEF Before

-----------------------------------------------------------------------------
(* What a handler that nobody disturbs has done so far.                    *)

\* What start() will save has not been saved yet.
Fresh ==
  /\ \A i \in Calls : i > starts => initact[i] = "dfl" /\ oldact[i] = "dfl"
  /\ pc \in {"rprof_on", "start"} => oldact[starts] = "dfl"
  /\ pc = "rprof_on" => rfile < starts

\* Its record is the last one of this log.
Recorded(log, i) == \E log0 \in Logs : /\ Before(log0, ticks)
                                       /\ log = Record(log0, i, ticks)

InMidHandler(h) ==
  /\ rfile # None /\ h.tick = ticks
  /\ h.at = "doprof" => action = "rprof"
  /\ h.at = "call" => action = "chain"
  /\ h.at \in {"write", "save", "call", "restore"} =>
       h.impl = static_impl /\ static_impl \in Calls
  /\ IF h.at \in {"save", "call", "restore"} THEN Recorded(native, static_impl)
     ELSE Before(native, ticks)
  /\ IF h.at = "restore" /\ oldact[static_impl] = "rprof" /\ rfile \in Calls
       THEN Recorded(rprof, rfile)
       ELSE Before(rprof, ticks)

InOrder ==
  serial => /\ Before(native, ticks + 1) /\ Before(rprof, ticks + 1)
            /\ \A t \in InFlight : InMidHandler(handlers[t])

AtomicInv == ThreadsInv /\ SerialInv /\ Fresh /\ InOrder

LEMMA RFresh ==
  ASSUME TypeOK, Numbered, Fresh,
         \/ StartCall \/ StopCall \/ Interrupt \/ UserRprof
         \/ \E i \in 1 .. starts : Finalize(i)
  PROVE  Fresh' /\ UNCHANGED <<native, rprof, ticks>>
<1> USE NumbersTyped
        DEF TypeOK, Numbered, Fresh, StartSteps, StopSteps, Goto, Return, implVars,
            dataVars, None, User, Calls
<1>1. CASE StartProfiler
  <2>1. UNCHANGED <<oldact, rfile, native, rprof, ticks>>
    BY <1>1 DEF StartProfiler
  <2>2. CASE UNCHANGED <<starts, initact>> /\ pc' = "idle"
    BY <2>1, <2>2
  <2>3. CASE /\ starts < MaxStarts /\ starts' = starts + 1 /\ pc' = "rprof_on"
             /\ initact' = [initact EXCEPT ![starts + 1] = action]
    <3>1. starts + 1 \in Calls /\ starts \in Int /\ rfile \in Int
      BY <2>3
    <3>2. \A i \in Calls : i > starts + 1 => initact'[i] = initact[i]
      BY <2>3, <3>1, NewImpl
    <3> QED
      BY <2>1, <2>3, <3>1, <3>2
  <2> QED
    BY <1>1, <2>2, <2>3 DEF StartProfiler
<1>2. CASE StartRprof
  BY <1>2, SMTT(30) DEF StartRprof, RprofOn, RprofOff
<1>3. CASE ImplStart
  BY <1>3, SMTT(30) DEF ImplStart
<1>4. CASE Install
  BY <1>4, SMTT(30) DEF Install
<1>5. CASE SetStatic
  BY <1>5, SMTT(30) DEF SetStatic
<1>6. CASE Publish
  BY <1>6, SMTT(30) DEF Publish
<1>7. CASE StopProfiler
  BY <1>7, SMTT(30) DEF StopProfiler
<1>8. CASE StopRprof
  BY <1>8, SMTT(30) DEF StopRprof, RprofOff
<1>9. CASE Restore
  BY <1>9, SMTT(30) DEF Restore
<1>10. CASE ClearStatic
  BY <1>10, SMTT(30) DEF ClearStatic
<1>11. CASE WriteTrailer
  BY <1>11, SMTT(30) DEF WriteTrailer
<1>12. CASE Combine
  BY <1>12, SMTT(30) DEF Combine
<1>13. CASE Interrupt
  BY <1>13, SMTT(30) DEF Interrupt
<1>14. CASE UserRprof
  BY <1>14, SMTT(30) DEF UserRprof, RprofOn, RprofOff
<1>15. ASSUME NEW i \in 1 .. starts, Finalize(i)
       PROVE  Fresh' /\ UNCHANGED <<native, rprof, ticks>>
  BY <1>15 DEF Finalize
<1> QED
  BY <1>1, <1>2, <1>3, <1>4, <1>5, <1>6, <1>7, <1>8, <1>9, <1>10, <1>11,
     <1>12, <1>13, <1>14, <1>15, Zenon DEF StartCall, StopCall

LEMMA RStatementInOrder ==
  ASSUME AtomicInv, RStatement
  PROVE  Fresh' /\ InOrder' /\ UNCHANGED <<native, rprof, ticks>>
<1>1. \/ StartCall \/ StopCall \/ Interrupt \/ UserRprof
      \/ \E i \in 1 .. starts : Finalize(i)
  BY DEF RStatement
<1>2. Fresh' /\ native' = native /\ rprof' = rprof /\ ticks' = ticks
  BY <1>1, RFresh, Zenon DEF AtomicInv, ThreadsInv
<1>3. ASSUME serial'
      PROVE  /\ Before(native', ticks' + 1) /\ Before(rprof', ticks' + 1)
             /\ \A t \in InFlight' : InMidHandler(handlers[t])'
  <2>1. serial /\ (InFlight = {} \/ UNCHANGED sharedVars) /\ handlers' = handlers
        /\ InFlight' = InFlight
    BY <1>3 DEF RStatement, InFlight
  <2>2. Before(native', ticks' + 1) /\ Before(rprof', ticks' + 1)
    BY <1>2, <2>1 DEF AtomicInv, InOrder
  <2>3. ASSUME NEW t \in InFlight
        PROVE  InMidHandler(handlers[t])'
    <3>1. InMidHandler(handlers[t])
      BY <2>1 DEF AtomicInv, InOrder
    <3>2. UNCHANGED <<action, static_impl, oldact, rfile>>
      BY <2>1 DEF sharedVars, implVars
    <3> QED
      BY <1>2, <2>1, <3>1, <3>2 DEF InMidHandler, Recorded
  <2> QED
    BY <2>1, <2>2, <2>3
<1> QED
  BY <1>2, <1>3 DEF InOrder

LEMMA SoloInOrder ==
  ASSUME ThreadsInv, NEW t \in Threads, InFlight \subseteq {t},
         NEW h, SetHandler(t, h), h.at \in HandlerSteps => InMidHandler(h)',
         Before(native', ticks' + 1), Before(rprof', ticks' + 1)
  PROVE  InOrder'
<1>1. \A u \in Threads : handlers'[u] = IF u = t THEN h ELSE handlers[u]
  BY DEF SetHandler, ThreadsInv, HandlersTyped
<1>2. \A u \in InFlight' : u = t /\ handlers'[u] = h /\ h.at \in HandlerSteps
  BY <1>1 DEF InFlight
<1>3. \A u \in InFlight' : InMidHandler(handlers[u])'
  BY <1>2 DEF InMidHandler
<1> QED
  BY <1>3 DEF InOrder

LEMMA DeliverInOrder ==
  ASSUME AtomicInv, NEW t \in Threads, Deliver(t)
  PROVE  Fresh' /\ InOrder'
<1>1. UNCHANGED <<sharedVars, restVars, native, rprof>> /\ rfile # None
      /\ ticks' = ticks + 1
  BY DEF Deliver
<1>2. Fresh'
  BY <1>1 DEF AtomicInv, Fresh, sharedVars, restVars, implVars
<1>3. ASSUME serial'
      PROVE  InOrder'
  <2>1. serial /\ InFlight = {}
    BY <1>3 DEF Deliver
  <2>2. Before(native, ticks') /\ Before(rprof, ticks')
    BY <1>1, <2>1 DEF AtomicInv, InOrder
  <2>3. native \in Logs /\ rprof \in Logs /\ ticks' \in Nat
    BY <1>1, DaisyChainAssumption
       DEF AtomicInv, ThreadsInv, TypeOK, Logs, DaisyChainAssumption
  <2>4. Before(native', ticks' + 1) /\ Before(rprof', ticks' + 1)
    BY <1>1, <2>2, <2>3, BeforeNext
  <2>5. \E h : /\ SetHandler(t, h)
               /\ h.at \in HandlerSteps =>
                    /\ h.tick = ticks' /\ h.at \in {"test", "doprof"}
                    /\ h.at = "doprof" => action = "rprof"
    <3>1. CASE action = "chain"
      <4> DEFINE h == [Idle EXCEPT !.at = "test", !.tick = ticks']
      <4>1. SetHandler(t, h) /\ h.at = "test" /\ h.tick = ticks'
        BY <3>1 DEF Deliver, Idle
      <4> HIDE DEF h
      <4> QED
        BY <4>1
    <3>2. CASE action = "rprof"
      <4> DEFINE h == [Idle EXCEPT !.at = "doprof", !.tick = ticks']
      <4>1. SetHandler(t, h) /\ h.at = "doprof" /\ h.tick = ticks'
        BY <3>2 DEF Deliver, Idle
      <4> HIDE DEF h
      <4> QED
        BY <3>2, <4>1
    <3>3. CASE action = "dfl"
      <4> DEFINE h == [Idle EXCEPT !.at = "crashed", !.tick = ticks']
      <4>1. SetHandler(t, h) /\ h.at = "crashed"
        BY <3>3 DEF Deliver, Idle
      <4> HIDE DEF h
      <4> QED
        BY <4>1 DEF HandlerSteps
    <3>4. CASE action \notin {"chain", "rprof", "dfl"}
      <4>1. SetHandler(t, Idle) /\ Idle.at = "none"
        BY <3>4 DEF Deliver, Idle
      <4> QED
        BY <4>1 DEF HandlerSteps
    <3> QED
      BY <3>1, <3>2, <3>3, <3>4
  <2>6. PICK h : /\ SetHandler(t, h)
                 /\ h.at \in HandlerSteps =>
                      /\ h.tick = ticks' /\ h.at \in {"test", "doprof"}
                      /\ h.at = "doprof" => action = "rprof"
    BY <2>5
  <2>7. h.at \in HandlerSteps => InMidHandler(h)'
    BY <1>1, <2>2, <2>6 DEF InMidHandler, sharedVars, implVars
  <2> QED
    BY <2>1, <2>4, <2>6, <2>7, SoloInOrder DEF AtomicInv
<1> QED
  BY <1>2, <1>3 DEF InOrder

LEMMA HandlerStepInOrder ==
  ASSUME AtomicInv, NEW t \in Threads, HandlerStep(t)
  PROVE  Fresh' /\ InOrder'
<1>1. UNCHANGED <<static_impl, implVars, rfile, freed, restVars, ticks>>
  BY DEF HandlerStep, Test, Enter, WriteNative, Save, CallOld, RestoreAction,
         Doprof, vars, sharedVars, restVars, dataVars
<1>2. Fresh'
  BY <1>1 DEF AtomicInv, Fresh, implVars, restVars
<1>3. ASSUME serial'
      PROVE  InOrder'
  <2> DEFINE h == handlers[t]
  <2>1. serial /\ Undisturbed
    BY <1>3 DEF HandlerStep, Test, Enter, WriteNative, Save, CallOld,
                RestoreAction, Doprof, AtomicInv, SerialInv
  <2>2. t \in InFlight /\ h.at \in HandlerSteps
    BY DEF HandlerStep, Test, Enter, WriteNative, Save, CallOld,
           RestoreAction, Doprof, At, InFlight, HandlerSteps
  <2>3. InFlight \subseteq {t}
    BY <2>1, <2>2 DEF Undisturbed
  <2>4. /\ InMidHandler(h)
        /\ Before(native, ticks + 1) /\ Before(rprof, ticks + 1)
    BY <2>1, <2>2 DEF AtomicInv, InOrder
  <2>5. /\ h \in HandlerStates /\ Equipped(h)
        /\ Idle.at = "none" /\ ThreadsInv
    BY HandlerFields DEF AtomicInv, ThreadsInv, HandlersTyped
  <2>6. /\ ticks \in Ticks /\ h.tick = ticks
        /\ native \in Logs /\ rprof \in Logs
    BY <2>2, <2>4, <2>5 DEF InMidHandler, Equipped, ThreadsInv, TypeOK, Logs
  <2>7. /\ h.at \in {"enter", "write"} => h.impl = static_impl /\ static_impl # None
        /\ h.at \in {"test", "enter", "write", "save"} => action = "chain"
    BY <2>1 DEF Undisturbed
  <2>8. static_impl # None => static_impl \in Calls
    BY <2>5 DEF ThreadsInv, TypeOK
  <2> HIDE DEF h
  <2>9. ASSUME NEW g, SetHandler(t, g), g.at \notin HandlerSteps,
               UNCHANGED native, rprof' = rprof
        PROVE  InOrder'
    BY <1>1, <2>3, <2>4, <2>5, <2>9, SoloInOrder
  <2>10. CASE Test(t)
    <3>1. UNCHANGED <<action, native, rprof>> /\ h.at = "test"
      BY <2>10 DEF Test, At, vars, dataVars, h
    <3>2. CASE static_impl = None
      BY <2>5, <2>9, <2>10, <3>1, <3>2 DEF Test, Finish, HandlerSteps
    <3>3. CASE static_impl # None
      <4>1. PICK g : SetHandler(t, g) /\ g.at = "enter" /\ g.tick = h.tick
        <5> DEFINE e == [h EXCEPT !.at = "enter", !.impl = static_impl]
        <5>1. SetHandler(t, e) /\ e.at = "enter" /\ e.tick = h.tick
          BY <2>5, <2>10, <3>3 DEF Test, HandlerStates, h
        <5> HIDE DEF e
        <5> QED
          BY <5>1
      <4>2. InMidHandler(g)'
        BY <1>1, <2>4, <3>1, <4>1 DEF InMidHandler, implVars
      <4> QED
        BY <1>1, <2>3, <2>4, <2>5, <3>1, <4>1, <4>2, SoloInOrder
    <3> QED
      BY <3>2, <3>3
  <2>11. CASE Enter(t)
    <3>1. UNCHANGED <<action, native, rprof>> /\ h.at = "enter"
      BY <2>11 DEF Enter, At, vars, dataVars, h
    <3>2. PICK g : /\ SetHandler(t, g) /\ g.at = "write" /\ g.tick = h.tick
                   /\ g.impl = static_impl
      <4> DEFINE e == [h EXCEPT !.impl = static_impl, !.at = "write"]
      <4>1. /\ SetHandler(t, e) /\ e.at = "write" /\ e.tick = h.tick
            /\ e.impl = static_impl
        BY <2>5, <2>7, <2>11, <3>1 DEF Enter, HandlerStates, h
      <4> HIDE DEF e
      <4> QED
        BY <4>1
    <3>3. InMidHandler(g)'
      BY <1>1, <2>4, <2>7, <2>8, <3>1, <3>2 DEF InMidHandler, implVars
    <3> QED
      BY <1>1, <2>3, <2>4, <2>5, <3>1, <3>2, <3>3, SoloInOrder
  <2>12. CASE WriteNative(t)
    <3>1. UNCHANGED <<action, rprof>> /\ h.at = "write"
      BY <2>12 DEF WriteNative, At, sharedVars, h
    <3>2. static_impl \in Calls /\ h.impl = static_impl
      BY <2>7, <2>8, <3>1
    <3>3. ofs[static_impl] = "open" /\ static_impl \notin freed
      BY <3>2 DEF AtomicInv, SerialInv, Owned, HandlerHasStream, Calls, None
    <3>4. PICK g : SetHandler(t, g) /\ g.at = "save" /\ g.tick = h.tick /\ g.impl = h.impl
      <4> DEFINE e == [h EXCEPT !.at = "save"]
      <4>1. SetHandler(t, e) /\ e.at = "save" /\ e.tick = h.tick /\ e.impl = h.impl
        BY <2>5, <2>12, <3>2, <3>3
           DEF WriteNative, StepTo, SetHandler, HandlerStates, h
      <4> HIDE DEF e
      <4> QED
        BY <4>1
    <3>5. native' = Record(native, static_impl, ticks)
      BY <2>6, <2>12, <3>2, <3>3 DEF WriteNative, Record, h
    <3>6. Before(native, ticks) /\ Before(rprof, ticks)
      BY <2>4, <3>1 DEF InMidHandler
    <3>7. Before(native', ticks + 1)
      BY <2>6, <3>2, <3>5, <3>6, CutRecord
    <3>8. Recorded(native, static_impl)'
      BY <1>1, <2>6, <3>5, <3>6 DEF Recorded
    <3>9. InMidHandler(g)'
      BY <1>1, <2>4, <3>1, <3>2, <3>4, <3>6, <3>8 DEF InMidHandler, implVars
    <3> QED
      BY <1>1, <2>3, <2>4, <2>5, <3>1, <3>4, <3>7, <3>9, SoloInOrder
  <2>13. CASE Save(t)
    <3>1. UNCHANGED <<action, native, rprof>> /\ h.at = "save"
      BY <2>13 DEF Save, At, vars, dataVars, h
    <3>2. PICK g : SetHandler(t, g) /\ g.at = "call" /\ g.tick = h.tick /\ g.impl = h.impl
      <4> DEFINE e == [h EXCEPT !.at = "call", !.saved = action]
      <4>1. SetHandler(t, e) /\ e.at = "call" /\ e.tick = h.tick /\ e.impl = h.impl
        BY <2>5, <2>13 DEF Save, HandlerStates, h
      <4> HIDE DEF e
      <4> QED
        BY <4>1
    <3>3. InMidHandler(g)'
      BY <1>1, <2>4, <2>7, <3>1, <3>2 DEF InMidHandler, Recorded, implVars
    <3> QED
      BY <1>1, <2>3, <2>4, <2>5, <3>1, <3>2, <3>3, SoloInOrder
  <2>14. CASE CallOld(t)
    <3>1. UNCHANGED native /\ h.at = "call"
      BY <2>14 DEF CallOld, At, h
    <3>2. h.impl = static_impl /\ static_impl \in Calls /\ h.impl \notin freed
      BY <2>4, <3>1
         DEF InMidHandler, AtomicInv, SerialInv, Owned, HandlerHasStream, Calls, None
    <3>3. PICK g : SetHandler(t, g) /\ g.at = "restore" /\ g.tick = h.tick /\ g.impl = h.impl
      <4> DEFINE e == [h EXCEPT !.at = "restore"]
      <4>1. SetHandler(t, e) /\ e.at = "restore" /\ e.tick = h.tick /\ e.impl = h.impl
        BY <2>5, <2>14, <3>2, CallLiveImpl
           DEF StepTo, SetHandler, HandlerStates, h
      <4> HIDE DEF e
      <4> QED
        BY <4>1
    <3>4. rprof' = IF oldact[static_impl] = "rprof" /\ rfile \in Calls
                     THEN Record(rprof, rfile, ticks) ELSE rprof
      BY <1>3, <2>6, <2>14, <3>2, CallLiveImpl
         DEF CallOldHandler, RprofSample, Record, h
    <3>5. Before(rprof, ticks) /\ Recorded(native, static_impl)
      BY <2>4, <3>1 DEF InMidHandler
    <3>6. Before(rprof', ticks + 1)
      BY <2>4, <2>6, <3>4, <3>5, CutRecord
    <3>7. Recorded(native, static_impl)'
      BY <1>1, <3>1, <3>5 DEF Recorded
    <3>8. IF oldact[static_impl] = "rprof" /\ rfile \in Calls
            THEN Recorded(rprof, rfile)' ELSE Before(rprof', ticks)
      BY <1>1, <2>6, <3>4, <3>5 DEF Recorded
    <3>9. InMidHandler(g)'
      BY <1>1, <2>4, <3>2, <3>3, <3>7, <3>8 DEF InMidHandler, implVars
    <3> QED
      BY <1>1, <2>3, <2>4, <2>5, <3>1, <3>3, <3>6, <3>9, SoloInOrder
  <2>15. CASE RestoreAction(t)
    BY <2>5, <2>9, <2>15 DEF RestoreAction, Finish, HandlerSteps, dataVars
  <2>16. CASE Doprof(t)
    <3>1. UNCHANGED native /\ SetHandler(t, Idle) /\ h.at = "doprof"
      BY <2>16 DEF Doprof, Finish, At, h
    <3>2. rprof' = IF rfile \in Calls THEN Record(rprof, rfile, ticks) ELSE rprof
      BY <2>6, <2>16 DEF Doprof, RprofSample, Record, h
    <3>3. Before(rprof, ticks)
      BY <2>4, <3>1 DEF InMidHandler
    <3>4. Before(rprof', ticks + 1)
      BY <2>4, <2>6, <3>2, <3>3, CutRecord
    <3>5. Idle.at \notin HandlerSteps
      BY <2>5 DEF HandlerSteps
    <3> QED
      BY <1>1, <2>3, <2>4, <2>5, <3>1, <3>4, <3>5, SoloInOrder
  <2> QED
    BY <2>10, <2>11, <2>12, <2>13, <2>14, <2>15, <2>16 DEF HandlerStep
<1> QED
  BY <1>2, <1>3 DEF InOrder

-----------------------------------------------------------------------------
(* The refinement mapping.                                                 *)

MapsToItself ==
  /\ PendingTicks = {} /\ ticks - Cardinality(PendingTicks) = ticks
  /\ SettledAction = action
  /\ Settled(native) = native /\ Settled(rprof) = rprof

\* Between handlers the mapping is the identity.
LEMMA NothingPending == ThreadsInv /\ InFlight = {} => MapsToItself
<1> SUFFICES ASSUME ThreadsInv, InFlight = {}
             PROVE  MapsToItself
  OBVIOUS
<1>1. PendingTicks = {}
  BY DEF PendingTicks
<1>2. ticks - Cardinality(PendingTicks) = ticks
  <2>1. ticks \in Int
    BY DaisyChainAssumption DEF ThreadsInv, TypeOK, DaisyChainAssumption
  <2> QED
    BY <1>1, <2>1, FS_EmptySet
<1>3. SettledAction = action
  BY DEF SettledAction, InFlight, At, HandlerSteps
<1>4. native \in Logs /\ rprof \in Logs
  BY DEF ThreadsInv, TypeOK, Logs
<1>5. Settled(native) = native /\ Settled(rprof) = rprof
  <2>1. Cut(native, {}) = native /\ Cut(rprof, {}) = rprof
    BY <1>4, CutNothing
  <2> QED
    BY <1>1, <2>1 DEF Settled, Cut
<1> QED
  BY <1>1, <1>2, <1>3, <1>5 DEF MapsToItself

LEMMA NothingPendingNext == ThreadsInv' /\ (InFlight = {})' => MapsToItself'
  BY NothingPending, PTL

HidesOne(t) ==
  /\ PendingTicks = {ticks} /\ Cardinality(PendingTicks) = 1
  /\ ticks \in Ticks /\ rfile # None
  /\ SettledAction = IF At(t, "restore") THEN handlers[t].saved ELSE action
  /\ At(t, "restore") => handlers[t].saved = "chain"
  /\ native \in Logs /\ rprof \in Logs
  /\ Settled(native) = Cut(native, {ticks})
  /\ Settled(rprof) = Cut(rprof, {ticks})

\* While a handler runs, its tick and its records are hidden.
LEMMA OnePending == AtomicInv /\ serial => \A t \in InFlight : HidesOne(t)
<1> SUFFICES ASSUME AtomicInv, serial, NEW t \in InFlight
             PROVE  HidesOne(t)
  OBVIOUS
<1>1. /\ Undisturbed /\ t \in Threads /\ InMidHandler(handlers[t])
      /\ handlers[t].at \in HandlerSteps
  BY DEF AtomicInv, SerialInv, InOrder, InFlight
<1>2. InFlight = {t}
  BY <1>1 DEF Undisturbed
<1>3. handlers[t].tick = ticks /\ rfile # None
  BY <1>1 DEF InMidHandler
<1>4. PendingTicks = {ticks}
  BY <1>2, <1>3 DEF PendingTicks
<1>5. Cardinality(PendingTicks) = 1
  BY <1>4, FS_Singleton
<1>6. ticks \in Ticks
  BY <1>1, <1>3 DEF AtomicInv, ThreadsInv, HandlersTyped, Equipped
<1>7. \A u \in Threads : At(u, "restore") => u = t
  BY <1>2 DEF At, InFlight, HandlerSteps
<1>8. SettledAction = IF At(t, "restore") THEN handlers[t].saved ELSE action
  <2>1. CASE At(t, "restore")
    <3>1. (CHOOSE u \in Threads : At(u, "restore")) = t
      BY <1>1, <1>7, <2>1
    <3> QED
      BY <1>1, <2>1, <3>1 DEF SettledAction
  <2>2. CASE ~At(t, "restore")
    BY <1>7, <2>2 DEF SettledAction
  <2> QED
    BY <2>1, <2>2
<1>9. At(t, "restore") => handlers[t].saved = "chain"
  BY <1>1 DEF Undisturbed, At
<1>10. native \in Logs /\ rprof \in Logs
  BY DEF AtomicInv, ThreadsInv, TypeOK, Logs
<1>11. Settled(native) = Cut(native, {ticks}) /\ Settled(rprof) = Cut(rprof, {ticks})
  BY <1>4 DEF Settled, Cut
<1> QED
  BY <1>3, <1>4, <1>5, <1>6, <1>8, <1>9, <1>10, <1>11 DEF HidesOne

LEMMA OnePendingNext ==
  AtomicInv' /\ serial' => (\A t \in InFlight : HidesOne(t))'
  BY OnePending, PTL

\* R's statements, between handlers.
LEMMA RStatementAlone ==
  ASSUME ThreadsInv, RStatement, InFlight = {}
  PROVE  Atomic!Next
<1>1. /\ PendingTicks = {} /\ ticks - Cardinality(PendingTicks) = ticks
      /\ SettledAction = action
      /\ Settled(native) = native /\ Settled(rprof) = rprof
  BY NothingPending DEF MapsToItself
<1>2. InFlight' = {} /\ ThreadsInv'
  BY RStatementInv DEF RStatement, InFlight
<1>3. /\ PendingTicks' = {} /\ (ticks - Cardinality(PendingTicks))' = ticks'
      /\ SettledAction' = action'
      /\ Settled(native)' = native' /\ Settled(rprof)' = rprof'
  BY <1>2, NothingPendingNext DEF MapsToItself
<1> USE <1>1, <1>3
        DEF Goto, Return, implVars, dataVars, Succeeds, RprofOn, RprofOff,
            Atomic!Goto, Atomic!Return, Atomic!implVars, Atomic!dataVars,
            Atomic!Succeeds, Atomic!RprofOn, Atomic!RprofOff
<1>4. ASSUME StartCall PROVE Atomic!StartCall
  <2>1. ASSUME StartProfiler PROVE Atomic!StartProfiler
    BY <2>1 DEF StartProfiler, Atomic!StartProfiler, None, Atomic!None
  <2>2. ASSUME StartRprof PROVE Atomic!StartRprof
    BY <2>2 DEF StartRprof, Atomic!StartRprof, None, Atomic!None
  <2>3. ASSUME ImplStart PROVE Atomic!ImplStart
    BY <2>3 DEF ImplStart, Atomic!ImplStart, None, Atomic!None
  <2>4. ASSUME Install PROVE Atomic!Install
    BY <2>4 DEF Install, Atomic!Install
  <2>5. ASSUME SetStatic PROVE Atomic!SetStatic
    BY <2>5 DEF SetStatic, Atomic!SetStatic
  <2>6. ASSUME Publish PROVE Atomic!Publish
    BY <2>6 DEF Publish, Atomic!Publish
  <2> QED
    BY <1>4, <2>1, <2>2, <2>3, <2>4, <2>5, <2>6 DEF StartCall, Atomic!StartCall
<1>5. ASSUME StopCall PROVE Atomic!StopCall
  <2>1. ASSUME StopProfiler PROVE Atomic!StopProfiler
    BY <2>1 DEF StopProfiler, Atomic!StopProfiler, None, Atomic!None
  <2>2. ASSUME StopRprof PROVE Atomic!StopRprof
    BY <2>2 DEF StopRprof, Atomic!StopRprof, None, Atomic!None
  <2>3. ASSUME Restore PROVE Atomic!Restore
    BY <2>3 DEF Restore, Atomic!Restore
  <2>4. ASSUME ClearStatic PROVE Atomic!ClearStatic
    BY <2>4 DEF ClearStatic, Atomic!ClearStatic, None, Atomic!None
  <2>5. ASSUME WriteTrailer PROVE Atomic!WriteTrailer
    BY <2>5 DEF WriteTrailer, Atomic!WriteTrailer
  <2>6. ASSUME Combine PROVE Atomic!Combine
    BY <2>6 DEF Combine, Atomic!Combine, SameTotals, Atomic!SameTotals,
                None, Atomic!None
  <2> QED
    BY <1>5, <2>1, <2>2, <2>3, <2>4, <2>5, <2>6 DEF StopCall, Atomic!StopCall
<1>6. ASSUME Interrupt PROVE Atomic!Interrupt
  BY <1>6 DEF Interrupt, Atomic!Interrupt, None, Atomic!None
<1>7. ASSUME UserRprof PROVE Atomic!UserRprof
  BY <1>7 DEF UserRprof, Atomic!UserRprof, User, Atomic!User, None, Atomic!None
<1>8. ASSUME NEW i \in 1 .. starts, Finalize(i) PROVE Atomic!Finalize(i)
  BY <1>8 DEF Finalize, Atomic!Finalize, Reachable, Atomic!Reachable,
              StartSteps, Atomic!StartSteps
<1> QED
  BY <1>4, <1>5, <1>6, <1>7, <1>8 DEF RStatement, Atomic!Next

\* R's statements, beside a handler on another thread: those that leave what it
\* uses alone are the same with the handler's effects hidden.
LEMMA RStatementBeside ==
  ASSUME AtomicInv, RStatement, serial', NEW t \in InFlight, "interrupt" \notin Env
  PROVE  Atomic!Next \/ UNCHANGED Atomic!vars
<1>1. serial /\ UNCHANGED sharedVars /\ UNCHANGED handlers
  BY DEF RStatement
<1>2. UNCHANGED <<native, rprof, ticks>>
  BY RStatementInOrder
<1>3. /\ action' = action /\ static_impl' = static_impl /\ initact' = initact
      /\ oldact' = oldact /\ ofs' = ofs /\ rfile' = rfile /\ freed' = freed
  BY <1>1 DEF sharedVars, implVars
<1>4. InFlight' = InFlight /\ PendingTicks' = PendingTicks
  BY <1>1 DEF InFlight, PendingTicks
<1>5. /\ (ticks - Cardinality(PendingTicks))' = ticks - Cardinality(PendingTicks)
      /\ Settled(native)' = Settled(native) /\ Settled(rprof)' = Settled(rprof)
  BY <1>2, <1>4 DEF Settled
<1>6. SettledAction' = SettledAction
  BY <1>1, <1>3 DEF SettledAction, At
<1>7. rfile # None /\ action # "dfl"
  BY <1>1, OnePending DEF HidesOne, AtomicInv, SerialInv, Undisturbed, NeverKilled
<1>8. pc \notin {"restore", "clear_static", "trailer", "combine"}
  BY <1>7 DEF AtomicInv, SerialInv, TimerOff
<1>9. SettledAction \in {action, "chain"}
  BY <1>1, OnePending DEF HidesOne
<1>10. TypeOK /\ Numbered /\ Fresh
  BY DEF AtomicInv, ThreadsInv
<1> USE <1>3, <1>5, <1>6
        DEF Goto, Return, implVars, dataVars, Succeeds,
            Atomic!Goto, Atomic!Return, Atomic!implVars, Atomic!dataVars,
            Atomic!Succeeds
<1>11. ASSUME StartProfiler PROVE Atomic!StartProfiler
  <2>1. ~(starts < MaxStarts /\ initact' = [initact EXCEPT ![starts + 1] = action])
    <3>1. SUFFICES ASSUME starts < MaxStarts,
                          initact' = [initact EXCEPT ![starts + 1] = action]
                   PROVE  FALSE
      OBVIOUS
    <3>2. starts + 1 \in Calls /\ starts + 1 > starts
      BY <1>10, <3>1, NumbersTyped DEF TypeOK
    <3>3. initact[starts + 1] = action
      BY <1>10, <3>1, <3>2, NewImpl
    <3> QED
      BY <1>7, <1>10, <3>2, <3>3 DEF Fresh
  <2> QED
    BY <1>11, <2>1 DEF StartProfiler, Atomic!StartProfiler, None, Atomic!None
<1>12. ~StartRprof
  <2>1. SUFFICES ASSUME StartRprof PROVE FALSE
    OBVIOUS
  <2>2. pc = "rprof_on" /\ rfile' \in {starts, None}
    BY <2>1 DEF StartRprof, RprofOn, RprofOff
  <2>3. rfile < starts /\ starts \in Int
    BY <1>10, <2>2 DEF Fresh, TypeOK
  <2> QED
    BY <1>7, <2>2, <2>3
<1>13. ASSUME ImplStart PROVE Atomic!ImplStart
  <2>1. pc = "start" /\ starts \in Calls
    BY <1>10, <1>13, NumbersTyped DEF ImplStart, StartSteps
  <2>2. static_impl # None
    <3>1. SUFFICES ASSUME static_impl = None PROVE FALSE
      OBVIOUS
    <3>2. oldact' = [oldact EXCEPT ![starts] = action]
      BY <1>13, <3>1 DEF ImplStart
    <3>3. oldact[starts] = action
      BY <1>10, <2>1, <3>2 DEF TypeOK
    <3> QED
      BY <1>7, <1>10, <2>1, <3>3 DEF Fresh
  <2> QED
    BY <1>13, <2>2 DEF ImplStart, Atomic!ImplStart, None, Atomic!None
<1>14. ASSUME Install PROVE Atomic!Install
  BY <1>9, <1>14 DEF Install, Atomic!Install
<1>15. ASSUME SetStatic PROVE Atomic!SetStatic
  BY <1>15 DEF SetStatic, Atomic!SetStatic
<1>16. ASSUME Publish PROVE Atomic!Publish
  BY <1>16 DEF Publish, Atomic!Publish
<1>17. ASSUME StopProfiler PROVE Atomic!StopProfiler
  BY <1>17 DEF StopProfiler, Atomic!StopProfiler, None, Atomic!None
<1>18. ~StopRprof /\ ~Interrupt
  BY <1>7 DEF StopRprof, RprofOff, Interrupt
<1>19. ~Restore /\ ~ClearStatic /\ ~WriteTrailer /\ ~Combine
  BY <1>8 DEF Restore, ClearStatic, WriteTrailer, Combine
<1>20. ASSUME UserRprof PROVE UNCHANGED Atomic!vars
  BY <1>20 DEF UserRprof, Atomic!vars
<1>21. ~ \E i \in 1 .. starts : Finalize(i)
  BY DEF Finalize
<1> QED
  <2>1. \/ StartProfiler \/ ImplStart \/ Install \/ SetStatic \/ Publish
        \/ StopProfiler \/ UserRprof
    BY <1>12, <1>18, <1>19, <1>21, Zenon DEF RStatement, StartCall, StopCall
  <2> QED
    BY <1>11, <1>13, <1>14, <1>15, <1>16, <1>17, <1>20, <2>1, Zenon
    DEF Atomic!Next, Atomic!StartCall, Atomic!StopCall

\* A delivery begins a handler, whose effects are hidden, or is the ignored tick.
LEMMA DeliverAtomic ==
  ASSUME AtomicInv, AtomicInv', NEW t \in Threads, Deliver(t), serial'
  PROVE  Atomic!Next \/ UNCHANGED Atomic!vars
<1>1. /\ UNCHANGED <<sharedVars, restVars, native, rprof>> /\ rfile # None
      /\ ticks' = ticks + 1 /\ ticks < MaxTicks /\ serial /\ InFlight = {}
  BY DEF Deliver
<1>2. action # "dfl"
  BY <1>1 DEF AtomicInv, SerialInv, Undisturbed, NeverKilled
<1>3. MapsToItself
  BY <1>1, NothingPending DEF AtomicInv
<1>4. \A h : SetHandler(t, h) =>
        \A u \in Threads : handlers'[u] = IF u = t THEN h ELSE handlers[u]
  BY DEF SetHandler, AtomicInv, ThreadsInv, HandlersTyped
<1>5. CASE action \in {"chain", "rprof"}
  <2>1. handlers'[t].at \in {"test", "doprof"}
    <3>1. PICK h : SetHandler(t, h) /\ h.at \in {"test", "doprof"}
      <4>1. CASE action = "chain"
        <5> DEFINE e == [Idle EXCEPT !.at = "test", !.tick = ticks']
        <5>1. SetHandler(t, e) /\ e.at = "test"
          BY <4>1 DEF Deliver, Idle
        <5> HIDE DEF e
        <5> QED
          BY <5>1
      <4>2. CASE action = "rprof"
        <5> DEFINE e == [Idle EXCEPT !.at = "doprof", !.tick = ticks']
        <5>1. SetHandler(t, e) /\ e.at = "doprof"
          BY <4>2 DEF Deliver, Idle
        <5> HIDE DEF e
        <5> QED
          BY <5>1
      <4> QED
        BY <1>5, <4>1, <4>2
    <3> QED
      BY <1>4, <3>1
  <2>2. t \in InFlight' /\ ~At(t, "restore")'
    BY <2>1 DEF InFlight, HandlerSteps, At
  <2>3. HidesOne(t)'
    BY <2>2, OnePendingNext
  <2>4. (ticks - Cardinality(PendingTicks))' = ticks /\ SettledAction' = action
    <3>1. ticks \in Int
      BY DaisyChainAssumption
         DEF AtomicInv, ThreadsInv, TypeOK, DaisyChainAssumption
    <3> QED
      BY <1>1, <2>2, <2>3, <3>1 DEF HidesOne, sharedVars
  <2>5. Settled(native)' = native /\ Settled(rprof)' = rprof
    <3>1. Before(native, ticks') /\ Before(rprof, ticks')
      BY <1>1 DEF AtomicInv, InOrder
    <3>2. native \in Logs /\ rprof \in Logs /\ {ticks'} \in SUBSET Ticks
      BY <1>1, <2>3 DEF HidesOne
    <3>3. Cut(native, {ticks'}) = native /\ Cut(rprof, {ticks'}) = rprof
      BY <3>1, <3>2, CutNothing
    <3> QED
      BY <1>1, <2>3, <3>3 DEF HidesOne
  <2>6. UNCHANGED Atomic!vars
    BY <1>1, <1>3, <2>4, <2>5
       DEF MapsToItself, Atomic!vars, Atomic!implVars, Atomic!dataVars,
           sharedVars, restVars, implVars
  <2> QED
    BY <2>6
<1>6. CASE action \notin {"chain", "rprof"}
  <2>1. SetHandler(t, Idle)
    BY <1>2, <1>6 DEF Deliver
  <2>2. InFlight' = {}
    BY <1>1, <1>4, <2>1 DEF InFlight, HandlerSteps, Idle
  <2>3. MapsToItself'
    BY <2>2, NothingPendingNext DEF AtomicInv
  <2>4. action \in {"ign", "null"}
    BY <1>2, <1>6 DEF AtomicInv, ThreadsInv, TypeOK, Dispositions
  <2>5. Atomic!Tick
    BY <1>1, <1>3, <2>3, <2>4
       DEF MapsToItself, Atomic!Tick, Atomic!implVars, Atomic!None, None,
           sharedVars, restVars, implVars, AtomicInv, ThreadsInv
  <2> QED
    BY <2>5 DEF Atomic!Next
<1> QED
  BY <1>5, <1>6

\* A step in the middle of a handler changes only what is hidden.
LEMMA HiddenStep ==
  ASSUME AtomicInv, AtomicInv', serial, serial',
         NEW t, t \in InFlight, t \in InFlight',
         UNCHANGED <<static_impl, implVars, rfile, freed, restVars, ticks>>,
         Cut(native', {ticks}) = Cut(native, {ticks}),
         Cut(rprof', {ticks}) = Cut(rprof, {ticks}),
         At(t, "restore")' \/ action' = action,
         ~At(t, "restore"),
         At(t, "restore")' => action = "chain"
  PROVE  UNCHANGED Atomic!vars
<1>1. HidesOne(t) /\ HidesOne(t)'
  BY OnePending, OnePendingNext
<1>2. SettledAction' = SettledAction
  BY <1>1 DEF HidesOne, At
<1>3. /\ Settled(native)' = Settled(native) /\ Settled(rprof)' = Settled(rprof)
      /\ (ticks - Cardinality(PendingTicks))' = ticks - Cardinality(PendingTicks)
  BY <1>1 DEF HidesOne
<1> QED
  BY <1>2, <1>3 DEF Atomic!vars, Atomic!implVars, Atomic!dataVars, implVars, restVars

\* The last step of a handler is the tick.
LEMMA LastStep ==
  ASSUME AtomicInv, AtomicInv', serial, NEW t \in Threads, t \in InFlight,
         InFlight' = {},
         UNCHANGED <<static_impl, implVars, rfile, freed, restVars, ticks>>,
         \/ /\ SettledAction = "rprof" /\ action' = "rprof"
            /\ native' = Settled(native)
            /\ rprof' = IF rfile \in Calls THEN Record(Settled(rprof), rfile, ticks)
                        ELSE Settled(rprof)
         \/ /\ SettledAction = "chain" /\ action' = "chain"
            /\ static_impl = None
            /\ native' = Settled(native) /\ rprof' = Settled(rprof)
         \/ /\ SettledAction = "chain" /\ action' = "chain"
            /\ static_impl # None
            /\ native' = Record(Settled(native), static_impl, ticks)
            /\ rprof' = IF oldact[static_impl] = "rprof" /\ rfile \in Calls
                          THEN Record(Settled(rprof), rfile, ticks)
                          ELSE Settled(rprof)
  PROVE  Atomic!Tick
<1>1. HidesOne(t) /\ MapsToItself'
  BY OnePending, NothingPendingNext DEF AtomicInv
<1>2. /\ (ticks - Cardinality(PendingTicks))' = ticks
      /\ ticks - Cardinality(PendingTicks) = ticks - 1
      /\ SettledAction' = action' /\ rfile # None
      /\ Settled(native)' = native' /\ Settled(rprof)' = rprof'
  BY <1>1 DEF HidesOne, MapsToItself
<1>3. /\ ticks - Cardinality(PendingTicks) < MaxTicks
      /\ (ticks - Cardinality(PendingTicks))'
           = (ticks - Cardinality(PendingTicks)) + 1
  BY <1>1, <1>2, DaisyChainAssumption DEF HidesOne, Ticks, DaisyChainAssumption
<1>4. \/ /\ SettledAction = "rprof"
         /\ Atomic!RprofSample((ticks - Cardinality(PendingTicks))')
         /\ SettledAction' = SettledAction /\ Settled(native)' = Settled(native)
      \/ /\ SettledAction = "chain"
         /\ Atomic!Handler((ticks - Cardinality(PendingTicks))')
  <2>1. static_impl # None =>
          static_impl \notin freed /\ Atomic!OldHandlers(static_impl) = {oldact[static_impl]}
    BY DEF AtomicInv, SerialInv, Owned, HandlerHasStream, Atomic!OldHandlers
  <2> QED
    BY <1>2, <2>1
       DEF Atomic!RprofSample, Atomic!Handler, Atomic!CallOldHandler,
           Atomic!ActionAfterHandler, Atomic!None, None, Atomic!Calls, Calls,
           Record, restVars
<1> QED
  BY <1>2, <1>3, <1>4
     DEF Atomic!Tick, Atomic!None, None, Atomic!implVars, implVars, restVars,
         AtomicInv, ThreadsInv

LEMMA HandlerStepAtomic ==
  ASSUME AtomicInv, AtomicInv', NEW t \in Threads, HandlerStep(t), serial'
  PROVE  Atomic!Next \/ UNCHANGED Atomic!vars
<1> DEFINE h == handlers[t]
<1>1. /\ UNCHANGED <<static_impl, implVars, rfile, freed, restVars, ticks>>
      /\ serial
  BY DEF HandlerStep, Test, Enter, WriteNative, Save, CallOld, RestoreAction,
         Doprof, vars, sharedVars, restVars, dataVars
<1>2. t \in InFlight /\ h.at \in HandlerSteps
  BY DEF HandlerStep, Test, Enter, WriteNative, Save, CallOld,
         RestoreAction, Doprof, At, InFlight, HandlerSteps
<1>3. /\ Undisturbed /\ InMidHandler(h) /\ InFlight = {t}
  BY <1>1, <1>2 DEF AtomicInv, SerialInv, InOrder, Undisturbed
<1>4. /\ HidesOne(t) /\ ticks \in Ticks /\ native \in Logs /\ rprof \in Logs
  BY <1>1, <1>2, OnePending DEF HidesOne
<1>5. /\ h \in HandlerStates /\ Idle.at = "none" /\ h.tick = ticks
      /\ static_impl \in Calls \cup {None}
      /\ handlers \in [Threads -> HandlerStates]
  BY <1>3, HandlerFields
     DEF AtomicInv, ThreadsInv, TypeOK, HandlersTyped, InMidHandler
<1>6. /\ h.at \in {"enter", "write"} => h.impl = static_impl /\ static_impl # None
      /\ h.at \in {"test", "enter", "write", "save", "call"} => action = "chain"
      /\ h.at = "doprof" => action = "rprof"
      /\ h.at = "restore" => h.saved = "chain"
  BY <1>3 DEF Undisturbed, InMidHandler
<1>7. SettledAction = IF h.at = "restore" THEN "chain" ELSE action
  BY <1>4, <1>6 DEF HidesOne, At
<1>8. /\ Settled(native) = Cut(native, {ticks}) /\ Settled(rprof) = Cut(rprof, {ticks})
  BY <1>4 DEF HidesOne
<1>9. \A log \in Logs : Before(log, ticks) => Cut(log, {ticks}) = log
  <2>1. ASSUME NEW log \in Logs, Before(log, ticks)
        PROVE  Cut(log, {ticks}) = log
    BY <1>4, <2>1, CutNothing
  <2> QED
    BY <2>1
<1>10. \A log \in Logs, i \in Calls :
         Before(log, ticks) => Cut(Record(log, i, ticks), {ticks}) = log
  BY <1>4, CutRecord
<1> HIDE DEF h
<1>11. ASSUME NEW g, SetHandler(t, g)
       PROVE  /\ handlers'[t] = g
              /\ g.at \in HandlerSteps => t \in InFlight'
              /\ g.at \notin HandlerSteps => InFlight' = {}
  <2>1. \A u \in Threads : handlers'[u] = IF u = t THEN g ELSE handlers[u]
    BY <1>5, <1>11 DEF SetHandler
  <2> QED
    BY <1>3, <2>1 DEF InFlight
<1>12. ASSUME h.at \in {"test", "enter", "write", "save", "call"},
              handlers'[t].at \in {"enter", "write", "save", "call", "restore"},
              t \in InFlight',
              handlers'[t].at = "restore" \/ action' = action,
              Cut(native', {ticks}) = Cut(native, {ticks}),
              Cut(rprof', {ticks}) = Cut(rprof, {ticks})
       PROVE  UNCHANGED Atomic!vars
  <2>1. ~At(t, "restore") /\ (At(t, "restore")' <=> handlers'[t].at = "restore")
    BY <1>12 DEF At, h
  <2> QED
    BY <1>1, <1>2, <1>6, <1>12, <2>1, HiddenStep
<1>13. CASE Test(t)
  <2>1. UNCHANGED <<action, native, rprof>> /\ h.at = "test"
    BY <1>13 DEF Test, At, vars, dataVars, h
  <2>2. CASE static_impl = None
    <3>1. SetHandler(t, Idle) /\ Idle.at \notin HandlerSteps
      BY <1>5, <1>13, <2>2 DEF Test, Finish, HandlerSteps
    <3>2. InFlight' = {}
      BY <1>11, <3>1
    <3>3. Before(native, ticks) /\ Before(rprof, ticks)
      BY <1>3, <2>1 DEF InMidHandler
    <3>4. native' = Settled(native) /\ rprof' = Settled(rprof)
      BY <1>4, <1>8, <1>9, <2>1, <3>3
    <3>5. Atomic!Tick
      BY <1>1, <1>2, <1>6, <1>7, <2>1, <2>2, <3>2, <3>4, LastStep
    <3> QED
      BY <3>5 DEF Atomic!Next
  <2>3. CASE static_impl # None
    <3>1. PICK g : SetHandler(t, g) /\ g.at = "enter"
      <4> DEFINE e == [h EXCEPT !.at = "enter", !.impl = static_impl]
      <4>1. SetHandler(t, e) /\ e.at = "enter"
        BY <1>5, <1>13, <2>3 DEF Test, HandlerStates, h
      <4> HIDE DEF e
      <4> QED
        BY <4>1
    <3> QED
      BY <1>11, <1>12, <2>1, <3>1 DEF HandlerSteps
  <2> QED
    BY <2>2, <2>3
<1>14. CASE Enter(t)
  <2>1. UNCHANGED <<action, native, rprof>> /\ h.at = "enter"
    BY <1>14 DEF Enter, At, vars, dataVars, h
  <2>2. PICK g : SetHandler(t, g) /\ g.at = "write"
    <3> DEFINE e == [h EXCEPT !.impl = static_impl, !.at = "write"]
    <3>1. SetHandler(t, e) /\ e.at = "write"
      BY <1>5, <1>6, <1>14, <2>1 DEF Enter, HandlerStates, h
    <3> HIDE DEF e
    <3> QED
      BY <3>1
  <2> QED
    BY <1>11, <1>12, <2>1, <2>2 DEF HandlerSteps
<1>15. CASE WriteNative(t)
  <2>1. UNCHANGED <<action, rprof>> /\ h.at = "write"
    BY <1>15 DEF WriteNative, At, sharedVars, h
  <2>2. static_impl \in Calls /\ h.impl = static_impl
    BY <1>5, <1>6, <2>1
  <2>3. ofs[static_impl] = "open" /\ static_impl \notin freed
    BY <2>2 DEF AtomicInv, SerialInv, Owned, HandlerHasStream, Calls, None
  <2>4. PICK g : SetHandler(t, g) /\ g.at = "save"
    <3> DEFINE e == [h EXCEPT !.at = "save"]
    <3>1. SetHandler(t, e) /\ e.at = "save"
      BY <1>5, <1>15, <2>2, <2>3
         DEF WriteNative, StepTo, SetHandler, HandlerStates, h
    <3> HIDE DEF e
    <3> QED
      BY <3>1
  <2>5. native' = Record(native, static_impl, ticks)
    BY <1>5, <1>15, <2>2, <2>3 DEF WriteNative, Record, h
  <2>6. Before(native, ticks)
    BY <1>3, <2>1 DEF InMidHandler
  <2>7. Cut(native', {ticks}) = Cut(native, {ticks})
    BY <1>4, <1>9, <1>10, <2>2, <2>5, <2>6
  <2> QED
    BY <1>11, <1>12, <2>1, <2>4, <2>7 DEF HandlerSteps
<1>16. CASE Save(t)
  <2>1. UNCHANGED <<action, native, rprof>> /\ h.at = "save"
    BY <1>16 DEF Save, At, vars, dataVars, h
  <2>2. PICK g : SetHandler(t, g) /\ g.at = "call"
    <3> DEFINE e == [h EXCEPT !.at = "call", !.saved = action]
    <3>1. SetHandler(t, e) /\ e.at = "call"
      BY <1>5, <1>16 DEF Save, HandlerStates, h
    <3> HIDE DEF e
    <3> QED
      BY <3>1
  <2> QED
    BY <1>11, <1>12, <2>1, <2>2 DEF HandlerSteps
<1>17. CASE CallOld(t)
  <2>1. UNCHANGED native /\ h.at = "call"
    BY <1>17 DEF CallOld, At, h
  <2>2. h.impl = static_impl /\ Before(rprof, ticks) /\ h.impl \notin freed
    BY <1>3, <2>1
       DEF InMidHandler, AtomicInv, SerialInv, Owned, HandlerHasStream, Calls, None
  <2>3. PICK g : SetHandler(t, g) /\ g.at = "restore"
    <3> DEFINE e == [h EXCEPT !.at = "restore"]
    <3>1. SetHandler(t, e) /\ e.at = "restore"
      BY <1>5, <1>17, <2>2, CallLiveImpl
         DEF StepTo, SetHandler, HandlerStates, h
    <3> HIDE DEF e
    <3> QED
      BY <3>1
  <2>4. \/ rprof' = rprof
        \/ rfile \in Calls /\ rprof' = Record(rprof, rfile, ticks)
    BY <1>5, <1>17 DEF CallOld, CallOldHandler, RprofSample, Record, h
  <2>5. Cut(rprof', {ticks}) = Cut(rprof, {ticks})
    BY <1>4, <1>9, <1>10, <2>2, <2>4
  <2> QED
    BY <1>11, <1>12, <2>1, <2>3, <2>5 DEF HandlerSteps
<1>18. CASE RestoreAction(t)
  <2>1. /\ UNCHANGED <<native, rprof>> /\ h.at = "restore" /\ action' = "chain"
        /\ SetHandler(t, Idle) /\ Idle.at \notin HandlerSteps
    BY <1>5, <1>6, <1>18 DEF RestoreAction, At, Finish, HandlerSteps, dataVars, h
  <2>2. InFlight' = {}
    BY <1>11, <2>1
  <2>3. static_impl \in Calls /\ static_impl # None
    BY <1>3, <2>1 DEF InMidHandler, Calls, None
  <2>4. native' = Record(Settled(native), static_impl, ticks)
    <3>1. PICK log \in Logs : Before(log, ticks) /\ native = Record(log, static_impl, ticks)
      BY <1>3, <2>1 DEF InMidHandler, Recorded
    <3>2. Settled(native) = log
      BY <1>8, <1>10, <2>3, <3>1
    <3> QED
      BY <2>1, <3>1, <3>2
  <2>5. rprof' = IF oldact[static_impl] = "rprof" /\ rfile \in Calls
                   THEN Record(Settled(rprof), rfile, ticks) ELSE Settled(rprof)
    <3>1. CASE oldact[static_impl] = "rprof" /\ rfile \in Calls
      <4>1. PICK log \in Logs : Before(log, ticks) /\ rprof = Record(log, rfile, ticks)
        BY <1>3, <2>1, <3>1 DEF InMidHandler, Recorded
      <4>2. Settled(rprof) = log
        BY <1>8, <1>10, <3>1, <4>1
      <4> QED
        BY <2>1, <3>1, <4>1, <4>2
    <3>2. CASE ~(oldact[static_impl] = "rprof" /\ rfile \in Calls)
      <4>1. Before(rprof, ticks)
        BY <1>3, <2>1, <3>2 DEF InMidHandler
      <4> QED
        BY <1>4, <1>8, <1>9, <2>1, <3>2, <4>1
    <3> QED
      BY <3>1, <3>2
  <2>6. Atomic!Tick
    BY <1>1, <1>2, <1>7, <2>1, <2>2, <2>3, <2>4, <2>5, LastStep
  <2> QED
    BY <2>6 DEF Atomic!Next
<1>19. CASE Doprof(t)
  <2>1. /\ UNCHANGED native /\ h.at = "doprof" /\ action' = "rprof"
        /\ SetHandler(t, Idle) /\ Idle.at \notin HandlerSteps
    BY <1>5, <1>19 DEF Doprof, At, Finish, HandlerSteps, h
  <2>2. InFlight' = {}
    BY <1>11, <2>1
  <2>3. rprof' = IF rfile \in Calls THEN Record(rprof, rfile, ticks) ELSE rprof
    BY <1>5, <1>19 DEF Doprof, RprofSample, Record, h
  <2>4. Before(native, ticks) /\ Before(rprof, ticks)
    BY <1>3, <2>1 DEF InMidHandler
  <2>5. Settled(native) = native /\ Settled(rprof) = rprof
    BY <1>4, <1>8, <1>9, <2>4
  <2>6. Atomic!Tick
    BY <1>1, <1>2, <1>6, <1>7, <2>1, <2>2, <2>3, <2>5, LastStep
  <2> QED
    BY <2>6 DEF Atomic!Next
<1> QED
  BY <1>13, <1>14, <1>15, <1>16, <1>17, <1>18, <1>19 DEF HandlerStep

\* Where R code is not interrupted, the handler in steps implements the atomic
\* handler of DaisyChain until another handler, or a change of what it uses,
\* comes between its steps: what is proved of DaisyChain holds on threads too.
THEOREM HandlerAtomic ==
  ASSUME "interrupt" \notin Env
  PROVE  ThreadsSpec => AtomicWhileSerial
<1>1. ThreadsInit => Fresh /\ InOrder /\ SerialInv
  <2> SUFFICES ASSUME ThreadsInit
               PROVE  Fresh /\ InOrder /\ SerialInv
    OBVIOUS
  <2>1. SerialInv /\ InFlight = {}
    BY InitOwned
       DEF ThreadsInit, SerialInv, TimerOff, Undisturbed, NeverKilled, Alive,
           At, InFlight, HandlerSteps, Idle, Init
  <2>2. Fresh
    BY DEF ThreadsInit, Init, Fresh
  <2>3. InOrder
    BY <2>1 DEF ThreadsInit, Init, InOrder, Before
  <2> QED
    BY <2>1, <2>2, <2>3
<1>2. AtomicInv /\ ThreadsNext => SerialInv' /\ Fresh' /\ InOrder'
  BY RStatementSerial, DeliverSerial, HandlerStepSerial,
     RStatementInOrder, DeliverInOrder, HandlerStepInOrder
     DEF AtomicInv, ThreadsNext
<1>3. AtomicInv /\ UNCHANGED allVars => SerialInv' /\ Fresh' /\ InOrder'
  <2> SUFFICES ASSUME AtomicInv, UNCHANGED allVars
               PROVE  SerialInv' /\ Fresh' /\ InOrder'
    OBVIOUS
  <2>1. SerialInv'
    BY DEF AtomicInv, SerialInv, Owned, TimerOff, Undisturbed, NeverKilled, Alive,
           At, InFlight, HandlerHasStream, allVars, vars, implVars, threadVars
  <2>2. Fresh'
    BY DEF AtomicInv, Fresh, allVars, vars, implVars
  <2>3. InOrder'
    BY DEF AtomicInv, InOrder, InMidHandler, Recorded, Before, InFlight,
           allVars, vars, implVars, dataVars, threadVars
  <2> QED
    BY <2>1, <2>2, <2>3
<1>4. ThreadsSpec => []AtomicInv
  BY <1>1, <1>2, <1>3, ThreadsInvariance, PTL DEF ThreadsSpec, AtomicInv
<1>5. ThreadsInit => Atomic!Init
  <2> SUFFICES ASSUME ThreadsInit
               PROVE  Atomic!Init
    OBVIOUS
  <2>1. TypeOK /\ InFlight = {} /\ Init
    BY InitTypeOK DEF ThreadsInit, Init, InFlight, HandlerSteps, Idle
  <2>2. /\ SettledAction = action /\ Settled(native) = native
        /\ Settled(rprof) = rprof /\ ticks - Cardinality(PendingTicks) = ticks
    <3>1. Numbered /\ HandlersTyped /\ Opened
      BY ThreadsInitInv DEF ThreadsInv
    <3> QED
      BY <2>1, <3>1, NothingPending DEF ThreadsInv, MapsToItself, Init
  <2> QED
    BY <2>1, <2>2 DEF Init, Atomic!Init, Atomic!None, None, Atomic!Calls, Calls
<1>6. AtomicInv /\ AtomicInv' /\ [ThreadsNext]_allVars =>
        [serial' => Atomic!Next]_<<Atomic!vars>>
  <2> SUFFICES ASSUME AtomicInv, AtomicInv', [ThreadsNext]_allVars, serial',
                      ~UNCHANGED Atomic!vars
               PROVE  Atomic!Next
    OBVIOUS
  <2>1. CASE RStatement
    BY <2>1, RStatementAlone, RStatementBeside DEF AtomicInv
  <2>2. CASE \E t \in Threads : Deliver(t)
    BY <2>2, DeliverAtomic
  <2>3. CASE \E t \in Threads : HandlerStep(t)
    BY <2>3, HandlerStepAtomic
  <2>4. CASE UNCHANGED allVars
    <3>1. UNCHANGED Atomic!vars
      BY <2>4 DEF Atomic!vars, Atomic!implVars, Atomic!dataVars, SettledAction,
                  Settled, PendingTicks, InFlight, At, allVars, vars, implVars,
                  dataVars, threadVars
    <3> QED
      BY <3>1
  <2> QED
    BY <2>1, <2>2, <2>3, <2>4 DEF ThreadsNext
<1> QED
  BY <1>4, <1>5, <1>6, PTL DEF ThreadsSpec, AtomicWhileSerial
=============================================================================
