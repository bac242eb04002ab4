-------------------------- MODULE DaisyChainProofs --------------------------
(***************************************************************************)
(* Theorems about DaisyChain, for every MaxStarts, MaxTicks and Env.       *)
(***************************************************************************)
EXTENDS DaisyChain, TLAPS

(* The inductive invariant, in named parts.                                *)

\* The numbers in use were handed out, and stop_profiler() has a session.
Numbered ==
  /\ static_impl <= starts
  /\ prof_data <= starts
  /\ rfile <= starts
  /\ pc \in StartSteps => starts # 0
  /\ pc \in StopSteps => prof_data # None

\* What start_profiler() has established before each of its statements.
StartProgress ==
  /\ pc = "rprof_on" => rfile < starts
  /\ pc \in {"start", "install"} => rfile = starts /\ action = "rprof"
  /\ pc \in {"set_static", "publish"} => rfile = starts /\ action = "chain"
  /\ pc \in {"install", "set_static"} => static_impl = None
  /\ pc = "publish" => static_impl = starts
  /\ pc \in {"install", "set_static", "publish"} => oldact[starts] = "rprof"

\* What stop_profiler() has established before each of its statements.
StopProgress ==
  /\ pc \in {"restore", "clear_static", "trailer", "combine"} => rfile = None
  /\ pc = "clear_static" => action # "chain"

\* The chain leads through an Impl to Rprof's handler and to its own file.
Chained ==
  action = "chain" =>
    \/ pc = "set_static"
    \/ /\ static_impl # None
       /\ oldact[static_impl] = "rprof"
       /\ rfile # None => rfile = static_impl

\* An Impl that was constructed while the chain was installed can never be
\* started, so Impl::stop() does not restore the chain.
InitactNotChain ==
  /\ prof_data # None => initact[prof_data] # "chain"
  /\ static_impl # None => initact[static_impl] # "chain"
  /\ pc \in {"install", "set_static", "publish"} => initact[starts] # "chain"
  /\ pc \in {"rprof_on", "start"} /\ initact[starts] = "chain" =>
       static_impl # None

\* Nothing native is recorded before the chain is complete, and none of the
\* sessions that have native samples is sampled by Rprof alone.
NativeFresh ==
  /\ \A i \in Calls : i > starts => native[i] = << >>
  /\ pc \in {"rprof_on", "start", "install", "set_static"} =>
       native[starts] = << >> /\ static_impl # starts
  /\ rfile \in Calls /\ action = "rprof" => native[rfile] = << >>

\* What the signal table, the R thread and .my_env owe each other.
Control ==
  /\ Numbered
  /\ StartProgress
  /\ StopProgress
  /\ Chained
  /\ InitactNotChain
  /\ NeverKilled

IInv == TypeOK /\ Control /\ NativeFresh /\ PairedSamples

\* What is alive and in use: the session of .my_env is the Impl behind the chain
\* until stop() has cleared static_impl.
InUse ==
  /\ freed \subseteq 1 .. starts
  /\ prof_data \notin freed
  /\ pc \in StartSteps => starts \notin freed
  /\ prof_data # None /\ pc \notin {"trailer", "combine"} =>
       static_impl = prof_data

\* The invariant of the sessions that no interrupt cuts in two.
Owned ==
  /\ pc \in {"idle", "rprof_on", "start", "install", "set_static",
             "rprof_off", "restore", "clear_static"} => static_impl = prof_data
  /\ pc = "publish" => static_impl = starts
  /\ pc \in {"trailer", "combine"} => static_impl = None
  /\ pc = "unloaded" => static_impl = None /\ prof_data = None
  /\ freed \subseteq 1 .. starts
  /\ prof_data \notin freed
  /\ pc \in StartSteps => starts \notin freed
  /\ pc \in {"install", "set_static"} => ofs[starts] = "open"
  /\ HandlerHasStream
-----------------------------------------------------------------------------
(* Type correctness.                                                       *)

LEMMA InitTypeOK == Init => TypeOK
  BY DaisyChainAssumption, SMT
     DEF DaisyChainAssumption, Init, TypeOK, Calls, Ticks, None, User,
         Dispositions, StartSteps, StopSteps

\* The number of the call in progress names an Impl.
LEMMA NumbersTyped ==
  ASSUME TypeOK, Numbered
  PROVE  /\ starts # 0 => starts \in Calls
         /\ pc \in StartSteps => starts \in Calls
         /\ pc \in StopSteps => prof_data \in Calls
         /\ starts < MaxStarts => starts + 1 \in 0 .. MaxStarts
         /\ starts < MaxStarts => starts + 1 \in Calls
         /\ 1 .. starts \subseteq Calls
  BY DaisyChainAssumption
     DEF DaisyChainAssumption, TypeOK, Numbered, Calls, None

\* A call moves the R thread, the signal table, the streams and .my_env within
\* their types.
LEMMA CallTypeOK ==
  ASSUME TypeOK, Numbered, StartCall \/ StopCall \/ Interrupt
  PROVE  TypeOK'
<1> USE NumbersTyped
        DEF TypeOK, Goto, Return, StartSteps, StopSteps, implVars, dataVars
<1>1. CASE StartProfiler
  <2>1. PICK found \in BOOLEAN :
          IF found
            THEN /\ starts' = starts + 1
                 /\ initact' = [initact EXCEPT ![starts + 1] = action]
                 /\ pc' = "rprof_on" /\ ret' = ret
            ELSE pc' = "idle" /\ ret' = "error" /\ UNCHANGED <<starts, initact>>
    BY <1>1, Zenon DEF StartProfiler, Succeeds
  <2>2. starts' \in 0 .. MaxStarts /\ initact' \in [Calls -> Dispositions]
    BY <1>1, <2>1 DEF StartProfiler
  <2>3. pc' \in {"idle", "rprof_on"} /\ ret' \in {"ok", "error"}
    BY <2>1
  <2> QED
    BY <1>1, <2>2, <2>3 DEF StartProfiler
<1>2. CASE StartRprof
  BY <1>2 DEF StartRprof, RprofOn, RprofOff, Dispositions
<1>3. CASE ImplStart
  BY <1>3 DEF ImplStart
<1>4. CASE Install
  BY <1>4 DEF Install, Dispositions
<1>5. CASE SetStatic
  BY <1>5 DEF SetStatic
<1>6. CASE Publish
  BY <1>6 DEF Publish
<1>7. CASE StopProfiler
  BY <1>7 DEF StopProfiler
<1>8. CASE StopRprof
  BY <1>8 DEF StopRprof, RprofOff, Dispositions
<1>9. CASE Restore
  BY <1>9 DEF Restore
<1>10. CASE ClearStatic
  BY <1>10 DEF ClearStatic
<1>11. CASE WriteTrailer
  BY <1>11 DEF WriteTrailer
<1>12. CASE Combine
  BY <1>12 DEF Combine
<1>13. CASE Interrupt
  <2>1. prof_data' \in Calls \cup {None}
    BY <1>13 DEF Interrupt
  <2>2. pc' = "idle" /\ ret' = "error"
    BY <1>13 DEF Interrupt
  <2> QED
    BY <1>13, <2>1, <2>2 DEF Interrupt
<1> QED
  BY <1>1, <1>2, <1>3, <1>4, <1>5, <1>6, <1>7, <1>8, <1>9, <1>10, <1>11,
     <1>12, <1>13, Zenon DEF StartCall, StopCall

\* Appending a tick to one of the profiles keeps them all sequences of ticks.
LEMMA AppendTyped ==
  ASSUME NEW f \in [Calls -> Seq(Ticks)], NEW i \in Calls, NEW k \in Ticks
  PROVE  [f EXCEPT ![i] = Append(@, k)] \in [Calls -> Seq(Ticks)]
  OBVIOUS

\* A tick is recorded in the running R profile or not at all.
LEMMA TickRprof ==
  ASSUME Tick
  PROVE  \/ rprof' = rprof
         \/ /\ rfile \in Calls
            /\ rprof' = [rprof EXCEPT ![rfile] = Append(@, ticks')]
  BY DEF Tick, Handler, CallOldHandler, RprofSample

\* A tick is recorded in the native profile of the running Impl or not at all.
LEMMA TickNative ==
  ASSUME Tick
  PROVE  \/ native' = native
         \/ /\ static_impl # None
            /\ native' = [native EXCEPT ![static_impl] = Append(@, ticks')]
  BY DEF Tick, Handler

\* A tick leaves the calls alone, unless the handler of a deleted Impl crashes.
LEMMA TickFrame ==
  ASSUME Tick
  PROVE  /\ UNCHANGED <<static_impl, initact, oldact, ofs, rfile, prof_data,
                        starts, ret, freed, action>>
         /\ pc' = pc \/ (pc' = "crashed" /\ static_impl \in freed)
  BY DEF Tick, Handler, ActionAfterHandler, implVars

LEMMA TickTypeOK ==
  ASSUME TypeOK, Tick
  PROVE  TypeOK'
<1>1. ticks' \in Ticks /\ ticks' \in 0 .. MaxTicks
  BY DaisyChainAssumption DEF DaisyChainAssumption, Tick, TypeOK, Ticks
<1>2. rprof' \in [Calls -> Seq(Ticks)]
  <2>1. ASSUME rfile \in Calls
        PROVE  [rprof EXCEPT ![rfile] = Append(@, ticks')]
                 \in [Calls -> Seq(Ticks)]
    <3>1. rprof \in [Calls -> Seq(Ticks)]
      BY DEF TypeOK
    <3> QED
      BY <1>1, <2>1, <3>1, AppendTyped, Zenon
  <2> QED
    BY <2>1, TickRprof, Zenon DEF TypeOK
<1>3. native' \in [Calls -> Seq(Ticks)]
  <2>1. ASSUME static_impl # None
        PROVE  [native EXCEPT ![static_impl] = Append(@, ticks')]
                 \in [Calls -> Seq(Ticks)]
    <3>1. native \in [Calls -> Seq(Ticks)] /\ static_impl \in Calls
      BY <2>1, Zenon DEF TypeOK
    <3> QED
      BY <1>1, <3>1, AppendTyped, Zenon
  <2> QED
    BY <2>1, TickNative, Zenon DEF TypeOK
<1> QED
  BY <1>1, <1>2, <1>3, TickFrame DEF TypeOK

LEMMA EnvironmentTypeOK ==
  ASSUME TypeOK, Numbered,
         UserRprof \/ Unload \/ Load \/ \E i \in 1 .. starts : Finalize(i)
  PROVE  TypeOK'
<1> USE DEF TypeOK, Goto, implVars, dataVars
<1>1. CASE UserRprof
  BY <1>1 DEF UserRprof, RprofOn, RprofOff, Dispositions
<1>2. CASE Unload
  BY <1>2 DEF Unload, RemoveHandler, Dispositions
<1>3. CASE Load
  BY <1>3 DEF Load
<1>4. ASSUME NEW i \in 1 .. starts, Finalize(i)
      PROVE  TypeOK'
  <2>1. i \in Calls
    BY NumbersTyped
  <2>2. ofs' \in [Calls -> {"closed", "open", "complete", "torn"}]
    BY <1>4, <2>1 DEF Finalize
  <2> QED
    BY <1>4, <2>1, <2>2 DEF Finalize
<1> QED
  BY <1>1, <1>2, <1>3, <1>4
-----------------------------------------------------------------------------
(* The control part of the invariant.                                      *)

LEMMA InitControl == Init => Control
  BY DaisyChainAssumption
     DEF DaisyChainAssumption, Init, Control, Numbered, StartProgress,
         StopProgress, Chained, InitactNotChain, NeverKilled, StartSteps,
         StopSteps, None

\* A new Impl saves the disposition; the other Impls keep what they saved.
LEMMA NewImpl ==
  ASSUME TypeOK, starts < MaxStarts,
         initact' = [initact EXCEPT ![starts + 1] = action]
  PROVE  /\ initact'[starts + 1] = action
         /\ \A i \in Calls : i <= starts => initact'[i] = initact[i]
<1>1. starts + 1 \in Calls
  BY DaisyChainAssumption DEF DaisyChainAssumption, TypeOK, Calls
<1>2. \A i \in Calls : i <= starts => i # starts + 1
  BY DaisyChainAssumption DEF DaisyChainAssumption, TypeOK, Calls
<1> QED
  BY <1>1, <1>2 DEF TypeOK

LEMMA NextControl ==
  ASSUME TypeOK, Control, Next
  PROVE  Control'
<1> USE NumbersTyped
        DEF TypeOK, Control, Numbered, StartProgress, StopProgress, Chained,
            InitactNotChain, NeverKilled, StartSteps, StopSteps, Goto, Return,
            implVars, dataVars, None, User, Calls
<1>1. CASE StartProfiler
  <2>1. PICK found \in BOOLEAN :
          IF found
            THEN /\ starts' = starts + 1
                 /\ initact' = [initact EXCEPT ![starts + 1] = action]
                 /\ pc' = "rprof_on"
            ELSE pc' = "idle" /\ UNCHANGED <<starts, initact>>
    BY <1>1, Zenon DEF StartProfiler, Succeeds, Goto, Return
  <2>2. /\ pc = "idle" /\ starts < MaxStarts
        /\ UNCHANGED <<action, static_impl, oldact, rfile, prof_data>>
    BY <1>1 DEF StartProfiler
  <2>3. CASE found
    <3>1. /\ initact'[starts + 1] = action
          /\ \A i \in Calls : i <= starts => initact'[i] = initact[i]
      BY <2>1, <2>2, <2>3, NewImpl, Zenon
    <3> QED
      BY <2>1, <2>2, <2>3, <3>1
  <2>4. CASE ~found
    BY <2>1, <2>2, <2>4
  <2> QED
    BY <2>3, <2>4
<1>2. CASE StartRprof
  BY <1>2, SMTT(30) DEF StartRprof, RprofOn, RprofOff
<1>3. CASE ImplStart
  BY <1>3, SMTT(30) DEF ImplStart
<1>4. CASE Install
  BY <1>4, SMTT(30) DEF Install
<1>5. CASE SetStatic
  BY <1>5, SMTT(30) DEF SetStatic
<1>6. CASE Publish
  BY <1>6, SMTT(30) DEF Publish
<1>7. CASE StopProfiler
  BY <1>7, SMTT(30) DEF StopProfiler
<1>8. CASE StopRprof
  BY <1>8, SMTT(30) DEF StopRprof, RprofOff
<1>9. CASE Restore
  BY <1>9, SMTT(30) DEF Restore
<1>10. CASE ClearStatic
  BY <1>10, SMTT(30) DEF ClearStatic
<1>11. CASE WriteTrailer
  BY <1>11, SMTT(30) DEF WriteTrailer
<1>12. CASE Combine
  BY <1>12, SMTT(30) DEF Combine
<1>13. CASE Interrupt
  BY <1>13, SMTT(30) DEF Interrupt
<1>14. CASE Tick
  BY <1>14, TickFrame, SMTT(30)
<1>15. CASE UserRprof
  BY <1>15, SMTT(30) DEF UserRprof, RprofOn, RprofOff
<1>16. CASE Unload
  BY <1>16, SMTT(30) DEF Unload, RemoveHandler
<1>17. CASE Load
  BY <1>17, SMTT(30) DEF Load
<1>18. ASSUME NEW i \in 1 .. starts, Finalize(i)
      PROVE  Control'
  BY <1>18 DEF Finalize
<1> QED
  BY <1>1, <1>2, <1>3, <1>4, <1>5, <1>6, <1>7, <1>8, <1>9, <1>10, <1>11, <1>12, <1>13, <1>14, <1>15, <1>16, <1>17, <1>18, Zenon
     DEF Next, StartCall, StopCall
-----------------------------------------------------------------------------
(* The profiles.                                                           *)

LEMMA EmptyIsSuffix ==
  ASSUME NEW t \in Seq(Ticks)
  PROVE  IsSuffix(<< >>, t)
  BY DEF IsSuffix

LEMMA AppendIsSuffix ==
  ASSUME NEW s \in Seq(Ticks), NEW t \in Seq(Ticks), NEW k \in Ticks,
         IsSuffix(s, t)
  PROVE  IsSuffix(Append(s, k), Append(t, k))
<1> DEFINE s1 == Append(s, k)
           t1 == Append(t, k)
<1>1. /\ Len(s1) = Len(s) + 1 /\ Len(t1) = Len(t) + 1
      /\ Len(s) \in Nat /\ Len(t) \in Nat /\ Len(s) <= Len(t)
  BY DEF IsSuffix
<1>2. SUFFICES ASSUME NEW j \in 1 .. Len(s1)
               PROVE  s1[j] = t1[Len(t1) - Len(s1) + j]
  BY <1>1 DEF IsSuffix
<1>3. CASE j = Len(s1)
  BY <1>1, <1>3
<1>4. CASE j \in 1 .. Len(s)
  <2>1. Len(t) - Len(s) + j \in 1 .. Len(t)
    BY <1>1, <1>4
  <2>2. s[j] = t[Len(t) - Len(s) + j]
    BY <1>4 DEF IsSuffix
  <2> QED
    BY <1>1, <1>4, <2>1, <2>2
<1> QED
  BY <1>1, <1>3, <1>4

LEMMA InitProfiles == Init => NativeFresh /\ PairedSamples
  BY EmptyIsSuffix
     DEF Init, NativeFresh, PairedSamples, StartSteps, None, Calls, IsSuffix

\* A step that is not a tick records nothing.
LEMMA CallNativeFresh ==
  ASSUME TypeOK, Control, NativeFresh, Next, ~Tick
  PROVE  NativeFresh' /\ UNCHANGED <<native, rprof>>
<1> USE NumbersTyped
        DEF TypeOK, Control, Numbered, StartProgress, StopProgress, Chained,
            NativeFresh, StartSteps, StopSteps, Goto, Return, implVars,
            dataVars, None, User, Calls
<1>1. CASE StartProfiler
  BY <1>1, SMTT(30) DEF StartProfiler
<1>2. CASE StartRprof
  BY <1>2, SMTT(30) DEF StartRprof, RprofOn, RprofOff
<1>3. CASE ImplStart
  BY <1>3, SMTT(30) DEF ImplStart
<1>4. CASE Install
  BY <1>4, SMTT(30) DEF Install
<1>5. CASE SetStatic
  BY <1>5, SMTT(30) DEF SetStatic
<1>6. CASE Publish
  BY <1>6, SMTT(30) DEF Publish
<1>7. CASE StopProfiler
  BY <1>7, SMTT(30) DEF StopProfiler
<1>8. CASE StopRprof
  BY <1>8, SMTT(30) DEF StopRprof, RprofOff
<1>9. CASE Restore
  BY <1>9, SMTT(30) DEF Restore
<1>10. CASE ClearStatic
  BY <1>10, SMTT(30) DEF ClearStatic
<1>11. CASE WriteTrailer
  BY <1>11, SMTT(30) DEF WriteTrailer
<1>12. CASE Combine
  BY <1>12, SMTT(30) DEF Combine
<1>13. CASE Interrupt
  BY <1>13, SMTT(30) DEF Interrupt
<1>14. CASE UserRprof
  BY <1>14, SMTT(30) DEF UserRprof, RprofOn, RprofOff
<1>15. CASE Unload
  BY <1>15, SMTT(30) DEF Unload, RemoveHandler
<1>16. CASE Load
  BY <1>16, SMTT(30) DEF Load
<1>17. ASSUME NEW i \in 1 .. starts, Finalize(i)
      PROVE  NativeFresh' /\ UNCHANGED <<native, rprof>>
  BY <1>17 DEF Finalize
<1> QED
  BY <1>1, <1>2, <1>3, <1>4, <1>5, <1>6, <1>7, <1>8, <1>9, <1>10, <1>11, <1>12, <1>13, <1>14, <1>15, <1>16, <1>17, Zenon
     DEF Next, StartCall, StopCall

\* The ways a tick is recorded: by Rprof alone, through the chain in both of the
\* profiles, or through a deleted Impl.
LEMMA TickRecords ==
  ASSUME TypeOK, Control, Tick
  PROVE  \/ UNCHANGED <<native, rprof>>
         \/ /\ rfile \in Calls /\ action = "rprof"
            /\ rprof' = [rprof EXCEPT ![rfile] = Append(@, ticks')]
            /\ UNCHANGED native
         \/ /\ rfile \in Calls /\ action = "chain" /\ static_impl = rfile
            /\ pc # "set_static" /\ rfile \notin freed
            /\ rprof' = [rprof EXCEPT ![rfile] = Append(@, ticks')]
            /\ native' = [native EXCEPT ![rfile] = Append(@, ticks')]
         \/ /\ rfile \in Calls /\ action = "chain" /\ static_impl = rfile
            /\ pc # "set_static" /\ rfile \in freed
            /\ rprof' = [rprof EXCEPT ![rfile] = Append(@, ticks')]
            /\ UNCHANGED native
<1>1. CASE action = "rprof"
  BY <1>1 DEF Tick, RprofSample
<1>2. CASE action = "chain" /\ static_impl = None
  BY <1>2 DEF Tick, Handler
<1>3. CASE action = "chain" /\ static_impl # None
  <2>1. pc # "set_static"
    BY <1>3 DEF Control, StartProgress
  <2>2. static_impl = rfile /\ oldact[static_impl] = "rprof" /\ rfile \in Calls
    BY <1>3, <2>1 DEF Control, Chained, Tick, TypeOK
  <2>3. CASE static_impl \notin freed
    BY <1>3, <2>1, <2>2, <2>3
       DEF Tick, Handler, OldHandlers, CallOldHandler, RprofSample
  <2>4. CASE static_impl \in freed
    BY <1>3, <2>1, <2>2, <2>4 DEF Tick, Handler, CallOldHandler, RprofSample
  <2> QED
    BY <2>3, <2>4
<1>4. CASE action \in {"ign", "null"}
  BY <1>4 DEF Tick
<1> QED
  BY <1>1, <1>2, <1>3, <1>4 DEF Tick

LEMMA TickProfiles ==
  ASSUME TypeOK, Control, NativeFresh, PairedSamples, Tick
  PROVE  NativeFresh' /\ PairedSamples'
<1>1. ticks' \in Ticks
  BY DaisyChainAssumption DEF DaisyChainAssumption, Tick, TypeOK, Ticks
<1>2. /\ UNCHANGED <<static_impl, rfile, starts, freed, action>>
      /\ pc' \in {pc, "crashed"}
  BY TickFrame
<1>3. CASE UNCHANGED <<native, rprof>>
  BY <1>2, <1>3 DEF NativeFresh, PairedSamples
<1>4. CASE /\ rfile \in Calls /\ action = "rprof"
           /\ rprof' = [rprof EXCEPT ![rfile] = Append(@, ticks')]
           /\ UNCHANGED native
  <2>1. NativeFresh'
    BY <1>2, <1>4 DEF NativeFresh
  <2>2. ASSUME NEW i \in Calls \ freed
        PROVE  IsSuffix(native[i], rprof'[i])
    <3>1. CASE i = rfile
      <4>1. native[i] = << >>
        BY <1>4, <3>1 DEF NativeFresh
      <4>2. rprof'[i] = Append(rprof[i], ticks') /\ rprof[i] \in Seq(Ticks)
        BY <1>4, <3>1 DEF TypeOK
      <4>3. rprof'[i] \in Seq(Ticks)
        BY <1>1, <4>2
      <4> QED
        BY <4>1, <4>3, EmptyIsSuffix
    <3>2. CASE i # rfile
      BY <1>4, <3>2 DEF TypeOK, PairedSamples
    <3> QED
      BY <3>1, <3>2
  <2> QED
    BY <1>2, <1>4, <2>1, <2>2 DEF PairedSamples
<1>5. CASE /\ rfile \in Calls /\ action = "chain" /\ static_impl = rfile
           /\ pc # "set_static" /\ rfile \notin freed
           /\ rprof' = [rprof EXCEPT ![rfile] = Append(@, ticks')]
           /\ native' = [native EXCEPT ![rfile] = Append(@, ticks')]
  <2>1. rfile <= starts /\ rfile \in Nat /\ starts \in Nat
    BY <1>5 DEF Control, Numbered, TypeOK, Calls
  <2>2. pc \notin {"rprof_on", "start", "install", "set_static"} \/ rfile # starts
    BY <1>5 DEF NativeFresh
  <2>3. \A i \in Calls : i > starts => native'[i] = << >>
    BY <1>5, <2>1 DEF NativeFresh, TypeOK
  <2>4. pc \in {"rprof_on", "start", "install", "set_static"} =>
          native'[starts] = << >> /\ static_impl # starts
    BY <1>5, <2>2 DEF NativeFresh, TypeOK
  <2>5. NativeFresh'
    BY <1>2, <1>5, <2>3, <2>4 DEF NativeFresh
  <2>6. ASSUME NEW i \in Calls \ freed
        PROVE  IsSuffix(native'[i], rprof'[i])
    <3>1. CASE i = rfile
      <4>1. native[i] \in Seq(Ticks) /\ rprof[i] \in Seq(Ticks)
        BY DEF TypeOK
      <4>2. /\ native'[i] = Append(native[i], ticks')
            /\ rprof'[i] = Append(rprof[i], ticks')
        BY <1>5, <3>1 DEF TypeOK
      <4>3. IsSuffix(native[i], rprof[i])
        BY DEF PairedSamples
      <4> QED
        BY <1>1, <4>1, <4>2, <4>3, AppendIsSuffix
    <3>2. CASE i # rfile
      BY <1>5, <3>2 DEF TypeOK, PairedSamples
    <3> QED
      BY <3>1, <3>2
  <2> QED
    BY <1>2, <2>5, <2>6 DEF PairedSamples
<1>6. CASE /\ rfile \in Calls /\ action = "chain" /\ static_impl = rfile
           /\ pc # "set_static" /\ rfile \in freed
           /\ rprof' = [rprof EXCEPT ![rfile] = Append(@, ticks')]
           /\ UNCHANGED native
  BY <1>2, <1>6 DEF NativeFresh, PairedSamples, TypeOK
<1> QED
  BY <1>3, <1>4, <1>5, <1>6, TickRecords, Zenon

-----------------------------------------------------------------------------
(* The theorems.                                                           *)

LEMMA InitIInv == Init => IInv
  BY InitTypeOK, InitControl, InitProfiles DEF IInv

LEMMA NextIInv == IInv /\ [Next]_vars => IInv'
<1>1. ASSUME IInv, Next, ~Tick
      PROVE  IInv'
  <2>1. TypeOK'
    BY <1>1, CallTypeOK, EnvironmentTypeOK, Zenon DEF IInv, Control, Next
  <2>2. Control'
    BY <1>1, NextControl, Zenon DEF IInv
  <2>3. NativeFresh' /\ UNCHANGED <<native, rprof>>
    BY <1>1, CallNativeFresh, Zenon DEF IInv
  <2>4. freed \subseteq freed'
    BY <1>1, Zenon DEF Next, StartCall, StopCall, StartProfiler, StartRprof,
         ImplStart, Install, SetStatic, Publish, StopProfiler, StopRprof,
         Restore, ClearStatic, WriteTrailer, Combine, Interrupt, UserRprof,
         Unload, Load, Finalize
  <2>5. PairedSamples'
    BY <1>1, <2>3, <2>4 DEF IInv, PairedSamples
  <2> QED
    BY <2>1, <2>2, <2>3, <2>5 DEF IInv
<1>2. ASSUME IInv, Tick
      PROVE  IInv'
  <2>1. Next
    BY <1>2 DEF Next
  <2> QED
    BY <1>2, <2>1, TickTypeOK, NextControl, TickProfiles, Zenon DEF IInv
<1>3. ASSUME IInv, UNCHANGED vars
      PROVE  IInv'
  BY <1>3
     DEF IInv, TypeOK, Control, Numbered, StartProgress, StopProgress, Chained,
         InitactNotChain, NeverKilled, NativeFresh, PairedSamples, vars,
         implVars, dataVars
<1> QED
  BY <1>1, <1>2, <1>3

LEMMA Invariance == Spec => []IInv
  BY InitIInv, NextIInv, PTL DEF Spec
\* Every variable keeps its type, whatever the environment does.
THEOREM TypeCorrect == Spec => []TypeOK
  BY Invariance, PTL DEF IInv

\* The native profile of a session is always the tail of its R profile, tick
\* for tick, so equal totals mean that the samples can be paired by position,
\* as combine_ds() does; an Impl deleted by the finalizer is no session's.
THEOREM SamplesPaired == Spec => []PairedSamples
  BY Invariance, PTL DEF IInv

\* The running timer never meets the default disposition, which kills R.
THEOREM TimerNeverKills == Spec => []NeverKilled
<1>1. IInv => NeverKilled
  BY DEF IInv, Control
<1> QED
  BY <1>1, Invariance, PTL

-----------------------------------------------------------------------------
(* What is sampled while a session runs and once it is stopped.            *)

\* The running start_profiler() is not yet the session of .my_env, and nothing
\* that stop() has undone comes back before the profiles are combined.
Sampling ==
  /\ SessionCollects
  /\ pc \in StartSteps => prof_data < starts
  /\ pc \in {"trailer", "combine"} => static_impl = None /\ action # "chain"

LEMMA NextSampling ==
  ASSUME TypeOK, Control, Sampling, Next
  PROVE  Sampling'
<1> USE NumbersTyped
        DEF TypeOK, Control, Numbered, StartProgress, StopProgress, Sampling,
            SessionCollects, StartSteps, StopSteps, Goto, Return, implVars,
            dataVars, None, User, Calls
<1>1. CASE StartProfiler
  BY <1>1, SMTT(30) DEF StartProfiler
<1>2. CASE StartRprof
  BY <1>2, SMTT(30) DEF StartRprof, RprofOn, RprofOff
<1>3. CASE ImplStart
  BY <1>3, SMTT(30) DEF ImplStart
<1>4. CASE Install
  BY <1>4, SMTT(30) DEF Install
<1>5. CASE SetStatic
  BY <1>5, SMTT(30) DEF SetStatic
<1>6. CASE Publish
  BY <1>6, SMTT(30) DEF Publish
<1>7. CASE StopProfiler
  BY <1>7, SMTT(30) DEF StopProfiler
<1>8. CASE StopRprof
  BY <1>8, SMTT(30) DEF StopRprof, RprofOff
<1>9. CASE Restore
  BY <1>9, SMTT(30) DEF Restore
<1>10. CASE ClearStatic
  BY <1>10, SMTT(30) DEF ClearStatic
<1>11. CASE WriteTrailer
  BY <1>11, SMTT(30) DEF WriteTrailer
<1>12. CASE Combine
  BY <1>12, SMTT(30) DEF Combine
<1>13. CASE Interrupt
  BY <1>13, SMTT(30) DEF Interrupt
<1>14. CASE Tick
  BY <1>14, TickFrame, SMTT(30)
<1>15. CASE UserRprof
  BY <1>15, SMTT(30) DEF UserRprof, RprofOn, RprofOff
<1>16. CASE Unload
  BY <1>16, SMTT(30) DEF Unload, RemoveHandler
<1>17. CASE Load
  BY <1>17, SMTT(30) DEF Load
<1>18. ASSUME NEW i \in 1 .. starts, Finalize(i)
       PROVE  Sampling'
  BY <1>18 DEF Finalize
<1> QED
  BY <1>1, <1>2, <1>3, <1>4, <1>5, <1>6, <1>7, <1>8, <1>9, <1>10, <1>11,
     <1>12, <1>13, <1>14, <1>15, <1>16, <1>17, <1>18, Zenon
     DEF Next, StartCall, StopCall

LEMMA SamplingInvariance == Spec => []Sampling
<1>1. Init => Sampling
  BY DEF Init, Sampling, SessionCollects, StartSteps, None
<1>2. Sampling /\ UNCHANGED vars => Sampling'
  BY DEF Sampling, SessionCollects, vars, implVars, dataVars
<1>3. IInv /\ Sampling /\ [Next]_vars => Sampling'
  BY <1>2, NextSampling, Zenon DEF IInv
<1> QED
  BY <1>1, <1>3, Invariance, PTL DEF Spec

\* Whatever is refused, fails or is interrupted: while Rprof writes the file of
\* the session in .my_env, the chain leads every tick into both profiles.
THEOREM SessionAlwaysCollects == Spec => []SessionCollects
<1>1. Sampling => SessionCollects
  BY DEF Sampling
<1> QED
  BY <1>1, SamplingInvariance, PTL

\* The profiles are never combined while something still samples.
THEOREM NothingEverLeft == Spec => []NothingLeft
<1>1. IInv /\ Sampling => NothingLeft
  BY DEF IInv, Control, StopProgress, Sampling, NothingLeft
<1> QED
  BY <1>1, Invariance, SamplingInvariance, PTL

-----------------------------------------------------------------------------
(* Sessions that no interrupt cuts in two.                                 *)

LEMMA InitOwned == Init => Owned
  BY DEF Init, Owned, StartSteps, None, HandlerHasStream

LEMMA NextOwned ==
  ASSUME TypeOK, Numbered, Owned, Next, "interrupt" \notin Env
  PROVE  Owned'
<1> USE NumbersTyped
        DEF TypeOK, Numbered, Owned, HandlerHasStream,
            StartSteps, StopSteps, Goto, Return, implVars, dataVars, None,
            User, Calls
<1>1. CASE StartProfiler
  BY <1>1, SMTT(30) DEF StartProfiler
<1>2. CASE StartRprof
  BY <1>2, SMTT(30) DEF StartRprof, RprofOn, RprofOff
<1>3. CASE ImplStart
  <2>1. /\ pc = "start" /\ starts \in Calls /\ starts \notin freed
        /\ UNCHANGED <<static_impl, prof_data, freed, starts>>
    BY <1>3 DEF ImplStart
  <2>2. \/ pc' = "idle" /\ ofs' = ofs
        \/ /\ static_impl = None /\ pc' = "install"
           /\ ofs' = [ofs EXCEPT ![starts] = "open"]
    BY <1>3 DEF ImplStart
  <2>3. CASE pc' = "idle" /\ ofs' = ofs
    BY <2>1, <2>3
  <2>4. CASE /\ static_impl = None /\ pc' = "install"
             /\ ofs' = [ofs EXCEPT ![starts] = "open"]
    <3>1. ofs'[starts] = "open"
      BY <2>1, <2>4
    <3> QED
      BY <2>1, <2>4, <3>1
  <2> QED
    BY <2>2, <2>3, <2>4
<1>4. CASE Install
  BY <1>4, SMTT(30) DEF Install
<1>5. CASE SetStatic
  BY <1>5, SMTT(30) DEF SetStatic
<1>6. CASE Publish
  BY <1>6, SMTT(30) DEF Publish
<1>7. CASE StopProfiler
  BY <1>7, SMTT(30) DEF StopProfiler
<1>8. CASE StopRprof
  BY <1>8, SMTT(30) DEF StopRprof, RprofOff
<1>9. CASE Restore
  BY <1>9, SMTT(30) DEF Restore
<1>10. CASE ClearStatic
  BY <1>10, SMTT(30) DEF ClearStatic
<1>11. CASE WriteTrailer
  BY <1>11, SMTT(30) DEF WriteTrailer
<1>12. CASE Combine
  BY <1>12, SMTT(30) DEF Combine
<1>13. CASE Tick
  <2>1. static_impl # None => static_impl \notin freed
    OBVIOUS
  <2>2. static_impl \notin freed
    BY <2>1, NumbersTyped
  <2>3. /\ UNCHANGED <<static_impl, ofs, prof_data, starts, freed>>
        /\ pc' = pc
    BY <1>13, <2>2, TickFrame
  <2> QED
    BY <2>3
<1>14. CASE UserRprof
  BY <1>14, SMTT(30) DEF UserRprof, RprofOn, RprofOff
<1>15. CASE Unload
  BY <1>15, SMTT(30) DEF Unload, RemoveHandler
<1>16. CASE Load
  BY <1>16, SMTT(30) DEF Load
<1>17. CASE Interrupt
  BY <1>17 DEF Interrupt
<1>18. ASSUME NEW i \in 1 .. starts, Finalize(i)
      PROVE  Owned'
  BY <1>18 DEF Finalize, Reachable
<1> QED
  BY <1>1, <1>2, <1>3, <1>4, <1>5, <1>6, <1>7, <1>8, <1>9, <1>10, <1>11, <1>12, <1>13, <1>14, <1>15, <1>16, <1>17, <1>18, Zenon
     DEF Next, StartCall, StopCall

LEMMA OwnedInvariance ==
  ASSUME "interrupt" \notin Env
  PROVE  Spec => []Owned
<1>1. Owned /\ UNCHANGED vars => Owned'
  BY DEF Owned, HandlerHasStream, vars, implVars, dataVars
<1>2. IInv /\ Owned /\ [Next]_vars => Owned'
  BY <1>1, NextOwned, Zenon DEF IInv, Control
<1> QED
  BY <1>2, InitOwned, Invariance, PTL DEF Spec

\* Where R code is not interrupted, the native profiler and .my_env agree
\* between calls on whether a session runs: start_profiler() and
\* stop_profiler() are never both refused.
THEOREM SessionAlwaysOwned ==
  ASSUME "interrupt" \notin Env
  PROVE  Spec => []SessionOwned
<1>1. Owned => SessionOwned
  BY DEF Owned, SessionOwned
<1> QED
  BY <1>1, OwnedInvariance, PTL

\* Where R code is not interrupted, the handler never writes through an Impl
\* that the garbage collector has deleted, nor into a file without a header or
\* with a trailer.
THEOREM HandlerAlwaysHasStream ==
  ASSUME "interrupt" \notin Env
  PROVE  Spec => []HandlerHasStream
<1>1. Owned => HandlerHasStream
  BY DEF Owned
<1> QED
  BY <1>1, OwnedInvariance, PTL

(* The Impl behind the chain.                                              *)

LEMMA NextInUse ==
  ASSUME TypeOK, Control, Sampling, InUse, Next
  PROVE  InUse'
<1> USE NumbersTyped
        DEF TypeOK, Control, Numbered, StartProgress, Sampling, InUse,
            StartSteps, StopSteps, Goto, Return, implVars, dataVars, None,
            User, Calls
<1>1. CASE StartProfiler
  BY <1>1, SMTT(30) DEF StartProfiler
<1>2. CASE StartRprof
  BY <1>2, SMTT(30) DEF StartRprof, RprofOn, RprofOff
<1>3. CASE ImplStart
  BY <1>3, SMTT(30) DEF ImplStart
<1>4. CASE Install
  BY <1>4, SMTT(30) DEF Install
<1>5. CASE SetStatic
  BY <1>5, SMTT(30) DEF SetStatic
<1>6. CASE Publish
  BY <1>6, SMTT(30) DEF Publish
<1>7. CASE StopProfiler
  BY <1>7, SMTT(30) DEF StopProfiler
<1>8. CASE StopRprof
  BY <1>8, SMTT(30) DEF StopRprof, RprofOff
<1>9. CASE Restore
  BY <1>9, SMTT(30) DEF Restore
<1>10. CASE ClearStatic
  BY <1>10, SMTT(30) DEF ClearStatic
<1>11. CASE WriteTrailer
  BY <1>11, SMTT(30) DEF WriteTrailer
<1>12. CASE Combine
  BY <1>12, SMTT(30) DEF Combine
<1>13. CASE Interrupt
  BY <1>13, SMTT(30) DEF Interrupt
<1>14. CASE Tick
  <2>1. /\ UNCHANGED <<static_impl, prof_data, starts, freed>>
        /\ pc' = pc \/ (pc' = "crashed" /\ static_impl \in freed)
    BY <1>14, TickFrame
  <2>2. CASE pc' = pc
    BY <2>1, <2>2
  <2>3. CASE pc' = "crashed" /\ static_impl \in freed
    <3>1. static_impl # None
      BY <2>3, NumbersTyped
    <3>2. pc \notin {"trailer", "combine"}
      BY <3>1
    <3> QED
      BY <2>1, <2>3, <3>2
  <2> QED
    BY <2>1, <2>2, <2>3
<1>15. CASE UserRprof
  BY <1>15, SMTT(30) DEF UserRprof, RprofOn, RprofOff
<1>16. CASE Unload
  BY <1>16, SMTT(30) DEF Unload, RemoveHandler
<1>17. CASE Load
  BY <1>17, SMTT(30) DEF Load
<1>18. ASSUME NEW i \in 1 .. starts, Finalize(i)
       PROVE  InUse'
  BY <1>18 DEF Finalize, Reachable
<1> QED
  BY <1>1, <1>2, <1>3, <1>4, <1>5, <1>6, <1>7, <1>8, <1>9, <1>10, <1>11,
     <1>12, <1>13, <1>14, <1>15, <1>16, <1>17, <1>18, Zenon
     DEF Next, StartCall, StopCall

LEMMA InUseInvariance == Spec => []InUse
<1>1. Init => InUse
  BY DEF Init, InUse, StartSteps, None
<1>2. InUse /\ UNCHANGED vars => InUse'
  BY DEF InUse, vars, implVars, dataVars
<1>3. IInv /\ Sampling /\ InUse /\ [Next]_vars => InUse'
  BY <1>2, NextInUse, Zenon DEF IInv
<1> QED
  BY <1>1, <1>3, Invariance, SamplingInvariance, PTL DEF Spec

\* The handler is never installed without an Impl, outside Impl::start(), and
\* never with a deleted one, unless an interrupt has separated the session from
\* .my_env; even then stop_profiler() has no session left.
THEOREM ChainAlwaysHasImpl == Spec => []ChainHasImpl
<1>1. IInv /\ Sampling /\ InUse /\ ("interrupt" \in Env \/ Owned) => ChainHasImpl
  <2> SUFFICES ASSUME IInv, Sampling, InUse, "interrupt" \in Env \/ Owned,
                      action = "chain", pc # "set_static"
               PROVE  /\ static_impl # None
                      /\ static_impl \in freed =>
                           "interrupt" \in Env /\ prof_data = None
    BY DEF ChainHasImpl
  <2>1. static_impl # None
    BY DEF IInv, Control, Chained
  <2>2. ASSUME static_impl \in freed
        PROVE  "interrupt" \in Env /\ prof_data = None
    <3>1. pc \notin {"trailer", "combine"}
      BY DEF Sampling
    <3>2. prof_data = None
      BY <2>2, <3>1 DEF InUse
    <3>3. ~Owned
      BY <2>1, <2>2 DEF Owned, HandlerHasStream
    <3> QED
      BY <3>2, <3>3
  <2> QED
    BY <2>1, <2>2
<1>2. CASE "interrupt" \in Env
  BY <1>1, <1>2, Invariance, SamplingInvariance, InUseInvariance, PTL
<1>3. CASE "interrupt" \notin Env
  BY <1>1, <1>3, OwnedInvariance, Invariance, SamplingInvariance,
     InUseInvariance, PTL
<1> QED
  BY <1>2, <1>3
-----------------------------------------------------------------------------
(* Refinement of JointSession.                                             *)

\* In the words of JointSession: a step that leaves the profiles alone and at
\* most ends sessions; one that engages the native half; one that begins.
LEMMA EndStep ==
  ASSUME \A i \in Calls : Phase(i)' \in {Phase(i), "over"},
         prof_data' \in {prof_data, None},
         UNCHANGED <<rprof, native>>
  PROVE  Session!Next
<1> DEFINE S == {i \in Calls : Phase(i)' = "over"}
<1>1. Session!End(S)
  BY DEF Session!End
<1> QED
  BY <1>1 DEF Session!Next

LEMMA EngageStep ==
  ASSUME NEW s \in Calls, Phase(s) = "ronly", Phase(s)' = "joint",
         \A i \in Calls \ {s} : Phase(i)' = Phase(i),
         UNCHANGED <<prof_data, rprof, native>>
  PROVE  Session!Next
<1>1. Session!Engage(s)
  BY DEF Session!Engage
<1> QED
  BY <1>1 DEF Session!Next

LEMMA BeginStep ==
  ASSUME NEW s \in Calls, Phase(s) = "new", Phase(s)' = "ronly",
         \A i \in Calls \ {s} :
           Phase(i)' = IF Phase(i) \in {"ronly", "joint", "orphan"} THEN "over"
                       ELSE Phase(i),
         UNCHANGED <<prof_data, rprof, native>>
  PROVE  Session!Next
<1>1. Session!Begin(s)
  BY DEF Session!Begin, Session!Collecting
<1> QED
  BY <1>1 DEF Session!Next

LEMMA HoldStep ==
  ASSUME NEW s \in Calls, Phase(s) = "joint", prof_data' = s,
         \A i \in Calls : Phase(i)' = Phase(i),
         UNCHANGED <<rprof, native>>
  PROVE  Session!Next
<1>1. Session!Hold(s)
  BY DEF Session!Hold, Calls, None
<1> QED
  BY <1>1 DEF Session!Next

LEMMA OrphanStep ==
  ASSUME NEW s \in Calls, Phase(s) = "joint", Phase(s)' = "orphan",
         s # prof_data,
         \A i \in Calls \ {s} : Phase(i)' = Phase(i),
         UNCHANGED <<prof_data, rprof, native>>
  PROVE  Session!Next
<1>1. Session!Orphan(s)
  BY DEF Session!Orphan
<1> QED
  BY <1>1 DEF Session!Next

LEMMA SampleStep ==
  ASSUME NEW s \in Calls, NEW k \in Ticks,
         \A i \in Calls : Phase(i)' = Phase(i),
         UNCHANGED prof_data,
         rprof' = [rprof EXCEPT ![s] = Append(@, k)],
         \/ Phase(s) \in {"ronly", "orphan"} /\ UNCHANGED native
         \/ Phase(s) = "joint" /\ native' = [native EXCEPT ![s] = Append(@, k)]
  PROVE  Session!Next
<1>1. [i \in Calls |-> Phase(i)]' = [i \in Calls |-> Phase(i)]
  OBVIOUS
<1>2. Session!SampleR(s, k) \/ Session!SampleBoth(s, k)
  BY <1>1 DEF Session!SampleR, Session!SampleBoth
<1> QED
  BY <1>2 DEF Session!Next

LEMMA InitSession == Init => Session!Init
<1> SUFFICES ASSUME Init
             PROVE  Session!Init
  OBVIOUS
<1>1. \A i \in Calls : Phase(i) = "new"
  BY DEF Init, Phase, Calls, None
<1> QED
  BY <1>1 DEF Init, Session!Init

\* Rprof() closes the file it was writing; if it opens the new one, the
\* session in progress begins.
LEMMA RprofSession ==
  ASSUME IInv, StartRprof
  PROVE  Session!Next
<1>1. /\ starts \in Calls /\ pc = "rprof_on" /\ starts \in Int
      /\ UNCHANGED <<static_impl, starts, prof_data, freed, native, rprof>>
  BY NumbersTyped
     DEF IInv, TypeOK, Control, StartSteps, StartRprof, implVars, dataVars
<1>2. \/ rfile' = starts /\ action' = "rprof" /\ pc' = "start"
      \/ rfile' = None /\ pc' = "idle"
  BY DEF StartRprof, RprofOn, RprofOff, Goto, Return
<1>3. rfile <= starts /\ static_impl # starts
  BY <1>1 DEF IInv, Control, Numbered, NativeFresh
<1>4. CASE rfile' = None /\ pc' = "idle"
  <2>1. \A i \in Calls : Phase(i)' \in {Phase(i), "over"}
    BY <1>1, <1>3, <1>4 DEF Phase, None, Calls
  <2> QED
    BY <1>1, <2>1, EndStep
<1>5. CASE rfile' = starts /\ action' = "rprof" /\ pc' = "start"
  <2>1. rfile # starts
    BY <1>1 DEF IInv, Control, StartProgress
  <2>2. Phase(starts) = "new" /\ Phase(starts)' = "ronly"
    BY <1>1, <1>5, <2>1 DEF Phase
  <2>3. \A i \in Calls \ {starts} :
          Phase(i)' = IF Phase(i) \in {"ronly", "joint", "orphan"} THEN "over"
                      ELSE Phase(i)
    BY <1>1, <1>3, <1>5, <2>1 DEF Phase, Calls
  <2> QED
    BY <1>1, <2>2, <2>3, BeginStep
<1> QED
  BY <1>2, <1>4, <1>5

\* A tick is a half sample before the chain is complete and a whole one after.
LEMMA TickSession ==
  ASSUME IInv, Tick
  PROVE  Session!Next
<1>1. /\ \A i \in Calls : Phase(i)' \in {Phase(i), "over"}
      /\ UNCHANGED <<static_impl, rfile, starts, prof_data, freed, action>>
      /\ pc' \in {pc, "crashed"}
  BY TickFrame DEF Phase
<1>2. ticks' \in Ticks
  BY DaisyChainAssumption DEF DaisyChainAssumption, Tick, IInv, TypeOK, Ticks
<1>3. CASE UNCHANGED <<native, rprof>>
  BY <1>1, <1>3, EndStep
<1>4. ASSUME ~UNCHANGED rprof
      PROVE  \A i \in Calls : Phase(i)' = Phase(i)
  <2>1. pc' = pc
    BY <1>4 DEF Tick, Handler
  <2> QED
    BY <1>1, <2>1 DEF Phase
<1>5. CASE /\ rfile \in Calls /\ action = "rprof"
           /\ rprof' = [rprof EXCEPT ![rfile] = Append(@, ticks')]
           /\ UNCHANGED native
  <2>1. Phase(rfile) = "ronly"
    BY <1>5 DEF Phase
  <2> QED
    BY <1>1, <1>2, <1>3, <1>4, <1>5, <2>1, SampleStep
<1>6. CASE /\ rfile \in Calls /\ action = "chain" /\ static_impl = rfile
           /\ pc # "set_static" /\ rfile \notin freed
           /\ rprof' = [rprof EXCEPT ![rfile] = Append(@, ticks')]
           /\ native' = [native EXCEPT ![rfile] = Append(@, ticks')]
  <2>1. Phase(rfile) = "joint"
    BY <1>6 DEF Phase
  <2>2. rprof[rfile] \in Seq(Ticks) /\ rprof \in [Calls -> Seq(Ticks)]
    BY <1>6 DEF IInv, TypeOK
  <2>3. ~UNCHANGED rprof
    <3>1. rprof'[rfile] = Append(rprof[rfile], ticks')
      BY <1>6, <2>2
    <3>2. Len(rprof'[rfile]) = Len(rprof[rfile]) + 1 /\ Len(rprof[rfile]) \in Nat
      BY <1>2, <2>2, <3>1
    <3> QED
      BY <3>2
  <2> QED
    BY <1>1, <1>2, <1>4, <1>6, <2>1, <2>3, SampleStep
<1>7. CASE /\ rfile \in Calls /\ action = "chain" /\ static_impl = rfile
           /\ pc # "set_static" /\ rfile \in freed
           /\ rprof' = [rprof EXCEPT ![rfile] = Append(@, ticks')]
           /\ UNCHANGED native
  <2>1. Phase(rfile) = "orphan"
    BY <1>7 DEF Phase
  <2> QED
    BY <1>1, <1>2, <1>3, <1>4, <1>7, <2>1, SampleStep
<1> QED
  BY <1>3, <1>5, <1>6, <1>7, TickRecords, Zenon DEF IInv

LEMMA NextSession ==
  ASSUME IInv, InUse, Next
  PROVE  Session!Next
<1> USE NumbersTyped
        DEF IInv, InUse, TypeOK, Control, Numbered, StartProgress, StopProgress,
            Chained, StartSteps, StopSteps, Goto, Return, implVars, dataVars,
            None, User, Calls, Phase
<1>1. CASE StartProfiler
  BY <1>1, EndStep, SMTT(30) DEF StartProfiler
<1>2. CASE StartRprof
  BY <1>2, RprofSession
<1>3. CASE ImplStart
  BY <1>3, EndStep, SMTT(30) DEF ImplStart
<1>4. CASE Install
  BY <1>4, EndStep, SMTT(30) DEF Install
<1>5. CASE Publish
  BY <1>5, HoldStep, SMTT(30) DEF Publish
<1>6. CASE StopProfiler
  BY <1>6, EndStep, SMTT(30) DEF StopProfiler
<1>7. CASE StopRprof
  BY <1>7, EndStep, SMTT(30) DEF StopRprof, RprofOff
<1>8. CASE Restore
  BY <1>8, EndStep, SMTT(30) DEF Restore
<1>9. CASE ClearStatic
  BY <1>9, EndStep, SMTT(30) DEF ClearStatic
<1>10. CASE WriteTrailer
  BY <1>10, EndStep, SMTT(30) DEF WriteTrailer
<1>11. CASE Combine
  BY <1>11, EndStep, SMTT(30) DEF Combine
<1>12. CASE Interrupt
  BY <1>12, EndStep, SMTT(30) DEF Interrupt
<1>13. CASE UserRprof
  BY <1>13, EndStep, SMTT(30) DEF UserRprof, RprofOn, RprofOff
<1>14. CASE Unload
  BY <1>14, EndStep, SMTT(30) DEF Unload, RemoveHandler
<1>15. CASE Load
  BY <1>15, EndStep, SMTT(30) DEF Load
<1>16. CASE SetStatic
  BY <1>16, EngageStep DEF SetStatic
<1>17. CASE Tick
  BY <1>17, TickSession
<1>18. ASSUME NEW i \in 1 .. starts, Finalize(i)
       PROVE  Session!Next
  <2>1. i \in Calls /\ i # prof_data /\ i \notin freed
        /\ UNCHANGED <<action, static_impl, rfile, prof_data, starts, pc, native,
                       rprof>>
        /\ freed' = freed \cup {i}
    BY <1>18 DEF Finalize, Reachable
  <2>2. \A j \in Calls \ {i} : Phase(j)' = Phase(j)
    BY <2>1
  <2>3. CASE Phase(i) = "joint"
    <3>1. Phase(i)' = "orphan"
      BY <2>1, <2>3
    <3> QED
      BY <2>1, <2>2, <2>3, <3>1, OrphanStep
  <2>4. CASE Phase(i) # "joint"
    <3>1. Phase(i)' = Phase(i)
      BY <2>1, <2>4
    <3> QED
      BY <2>1, <2>2, <3>1, EndStep
  <2> QED
    BY <2>3, <2>4
<1> QED
  BY <1>1, <1>2, <1>3, <1>4, <1>5, <1>6, <1>7, <1>8, <1>9, <1>10, <1>11,
     <1>12, <1>13, <1>14, <1>15, <1>16, <1>17, <1>18, Zenon
     DEF Next, StartCall, StopCall

\* Every behaviour of the chain is a behaviour of the abstract session: among the
\* rest, a session in .my_env never loses one half of a sample.
THEOREM RefinesSession == Spec => ImplementsSession
<1>1. IInv /\ InUse /\ [Next]_vars => [Session!Next]_(Session!vars)
  <2>1. UNCHANGED vars => UNCHANGED Session!vars
    BY DEF vars, implVars, dataVars, Session!vars, Phase
  <2> QED
    BY <2>1, NextSession
<1> QED
  BY <1>1, InitSession, Invariance, InUseInvariance, PTL DEF Spec, ImplementsSession, Session!Spec
=============================================================================
