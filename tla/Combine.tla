------------------------------ MODULE Combine ------------------------------
(***************************************************************************)
(* combine_profiles() of R/combine.R: the R profile and the native profile *)
(* of one session become one profile.  Stacks are listed leaf first.  A    *)
(* profile is three tables, as the profile package (external) reads them:  *)
(* samples, a sequence; locations and functions, sets of rows.             *)
(***************************************************************************)
EXTENDS Integers, Sequences, FiniteSets, SequencesExt

CONSTANT Runs    \* what a session may sample: sequences of ticks, each with
                 \* the names on the R and on the native stack

ASSUME CombineAssumption ==
  Runs \subseteq Seq([r : Seq(STRING), n : Seq(STRING)])

VARIABLES run,        \* the ticks of the session
          missed,     \* how many of the first ones the native profile lacks
          merging,    \* whether pprof -proto merges equal stacks: the package
                      \* expects it to and does not rely on it
          ds_rprof,   \* the R profile
          ds_pprof,   \* the native profile
          samples,    \* the samples of ds_combined: two stacks each
          merged,     \* the stacks of the result
          step        \* the statement of combine_profiles() that comes next

given == <<run, missed, merging>>
vars == <<given, ds_rprof, ds_pprof, samples, merged, step>>

Steps == {"read", "check", "shift", "expand", "combine", "patch", "done",
          "error"}
Empty == [samples |-> << >>, locations |-> {}, functions |-> {}]

Init ==
  /\ run \in Runs
  /\ missed \in 0 .. 1
  /\ merging \in BOOLEAN
  /\ ds_rprof = Empty
  /\ ds_pprof = Empty
  /\ samples = << >>
  /\ merged = << >>
  /\ step = "read"

-----------------------------------------------------------------------------
(* The files and the pprof tool, external.                                 *)

\* max() of an empty column is -Inf, and so is every number added to it.  The
\* tables number their rows from 1, so that 0 can stand for it.
NegInf == 0

\* What profile::validate_profile() requires of the tables: numbers, none of them
\* twice, and a row for each reference.
Valid(ds) ==
  /\ \A l, k \in ds.locations : l.location_id = k.location_id => l = k
  /\ \A f, g \in ds.functions : f.function_id = g.function_id => f = g
  /\ \A l \in ds.locations :
       /\ l.location_id # NegInf
       /\ \E f \in ds.functions : f.function_id = l.function_id
  /\ \A f \in ds.functions : f.function_id # NegInf
  /\ \A s \in DOMAIN ds.samples : \A i \in DOMAIN ds.samples[s].locations :
       \E l \in ds.locations : l.location_id = ds.samples[s].locations[i]

\* Whether it lets the profile pass: nothing is relied on for tables that lack
\* one of these.
Validated(ds) == IF Valid(ds) THEN {TRUE} ELSE BOOLEAN

\* Each distinct name is a function with one location; both are numbered from 1,
\* the functions in the opposite order.
Profile(stacks, values) ==
  LET names == SetToSeq(UNION {ToSet(stacks[s]) : s \in DOMAIN stacks})
      id == [name \in ToSet(names) |->
               CHOOSE i \in DOMAIN names : names[i] = name]
      fid(name) == Len(names) + 1 - id[name]
  IN  [samples |-> [s \in DOMAIN stacks |->
                      [value |-> values[s],
                       locations |-> [f \in DOMAIN stacks[s] |->
                                        id[stacks[s][f]]]]],
       locations |-> {[location_id |-> id[name], function_id |-> fid(name)] :
                        name \in ToSet(names)},
       functions |-> {[function_id |-> fid(name), system_name |-> name] :
                        name \in ToSet(names)}]

Occurrences(stacks, stack) == {s \in DOMAIN stacks : stacks[s] = stack}

Firsts(stacks) ==
  {s \in DOMAIN stacks : \A t \in 1 .. s - 1 : stacks[t] # stacks[s]}

Sorted(S) ==
  CHOOSE f \in [1 .. Cardinality(S) -> S] :
    \A i, j \in DOMAIN f : i < j => f[i] < f[j]

\* Equal stacks become one sample, where the first of them was.
Merge(stacks) ==
  LET firsts == Sorted(Firsts(stacks))
  IN  Profile([m \in DOMAIN firsts |-> stacks[firsts[m]]],
              [m \in DOMAIN firsts |->
                 Cardinality(Occurrences(stacks, stacks[firsts[m]]))])

Separate(stacks) == Profile(stacks, [s \in DOMAIN stacks |-> 1])

RStacks == [t \in DOMAIN run |-> run[t].r]
NativeStacks == SubSeq([t \in DOMAIN run |-> run[t].n], missed + 1, Len(run))

Goto(from, to) == step = from /\ step' = to

\* The statement's profiles are valid, or it is the last one.
GotoIf(ok, from, to) == Goto(from, IF ok THEN to ELSE "error")

ReadProfiles ==
  /\ Goto("read", "check")
  /\ ds_rprof' = Separate(RStacks)
  /\ ds_pprof' = IF merging THEN Merge(NativeStacks)
                 ELSE Separate(NativeStacks)
  /\ UNCHANGED <<given, samples, merged>>

-----------------------------------------------------------------------------
(* combine_profiles()                                                      *)

Total(ds) ==
  LET sum[s \in 0 .. Len(ds.samples)] ==
        IF s = 0 THEN 0 ELSE sum[s - 1] + ds.samples[s].value
  IN  sum[Len(ds.samples)]

\* Mutant: a sum over the rows instead of over the values.
CheckRows ==
  /\ step = "check"
  /\ step' = IF Len(ds_pprof.samples) = Len(ds_rprof.samples)
               THEN "shift" ELSE "error"
  /\ UNCHANGED <<given, ds_rprof, ds_pprof, samples, merged>>

CheckTotals ==
  /\ step = "check"
  /\ step' = IF /\ Total(ds_pprof) = Total(ds_rprof)
                /\ \A s \in DOMAIN ds_rprof.samples :
                     ds_rprof.samples[s].value = 1
               THEN "shift" ELSE "error"
  /\ UNCHANGED <<given, ds_rprof, ds_pprof, samples, merged>>

Largest(S) == IF S = {} THEN NegInf ELSE CHOOSE i \in S : \A j \in S : j <= i

Plus(id, d) == IF d = NegInf THEN NegInf ELSE id + d

\* Mutants: the samples, or the functions, keep their numbers.
ShiftedTables(ds, base) ==
  LET dl == Largest({l.location_id : l \in base.locations})
      df == Largest({f.function_id : f \in base.functions})
  IN  [samples |-> ds.samples,
       locations |-> {[location_id |-> Plus(l.location_id, dl),
                       function_id |-> Plus(l.function_id, df)] : l \in ds.locations},
       functions |-> {[f EXCEPT !.function_id = Plus(@, df)] : f \in ds.functions}]
ShiftedLocations(ds, base) ==
  LET dl == Largest({l.location_id : l \in base.locations})
  IN  [ds EXCEPT
         !.samples = [s \in DOMAIN @ |-> [@[s] EXCEPT
                        !.locations = [i \in DOMAIN @ |-> Plus(@[i], dl)]]],
         !.locations = {[l EXCEPT !.location_id = Plus(@, dl)] : l \in @}]

Shifted(ds, base) ==
  LET dl == Largest({l.location_id : l \in base.locations})
      df == Largest({f.function_id : f \in base.functions})
  IN  [samples |-> [s \in DOMAIN ds.samples |->
                      [ds.samples[s] EXCEPT
                         !.locations = [i \in DOMAIN @ |-> Plus(@[i], dl)]]],
       locations |-> {[location_id |-> Plus(l.location_id, dl),
                       function_id |-> Plus(l.function_id, df)] : l \in ds.locations},
       functions |-> {[f EXCEPT !.function_id = Plus(@, df)] : f \in ds.functions}]

ShiftIds ==
  /\ ds_pprof' = Shifted(ds_pprof, ds_rprof)
  /\ \E ok \in Validated(ds_pprof') : GotoIf(ok, "shift", "expand")
  /\ UNCHANGED <<given, ds_rprof, samples, merged>>

\* rep(): as many samples of value 1 as the value says.
Expanded(ds) ==
  LET upto[s \in 0 .. Len(ds.samples)] ==
        IF s = 0 THEN << >>
        ELSE upto[s - 1] \o
             [v \in 1 .. ds.samples[s].value |-> [ds.samples[s] EXCEPT !.value = 1]]
  IN  [ds EXCEPT !.samples = upto[Len(ds.samples)]]

ExpandSamples ==
  /\ ds_rprof' = Expanded(ds_rprof)
  /\ ds_pprof' = Expanded(ds_pprof)
  /\ \E r \in Validated(ds_rprof'), n \in Validated(ds_pprof') :
       GotoIf(r /\ n, "expand", "combine")
  /\ UNCHANGED <<given, samples, merged>>

\* rbind() appends the tables of the native profile.
United ==
  [samples |-> ds_rprof.samples,
   locations |-> ds_rprof.locations \cup ds_pprof.locations,
   functions |-> ds_rprof.functions \cup ds_pprof.functions]

\* A column of another length is an error.
SameLength == Len(ds_rprof.samples) = Len(ds_pprof.samples)

\* Mutant: the native column is bound in another order.
CombineDsReversed ==
  /\ IF SameLength
       THEN /\ samples' = [s \in DOMAIN ds_rprof.samples |->
                             [rprof |-> ds_rprof.samples[s].locations,
                              pprof |-> Reverse(ds_pprof.samples)[s].locations]]
            /\ ds_rprof' = United
            /\ \E ok \in Validated(ds_rprof') : GotoIf(ok, "combine", "patch")
       ELSE Goto("combine", "error") /\ UNCHANGED <<samples, ds_rprof>>
  /\ UNCHANGED <<given, ds_pprof, merged>>

CombineDs ==
  /\ IF SameLength
       THEN /\ samples' = [s \in DOMAIN ds_rprof.samples |->
                             [rprof |-> ds_rprof.samples[s].locations,
                              pprof |-> ds_pprof.samples[s].locations]]
            /\ ds_rprof' = United
            /\ \E ok \in Validated(ds_rprof') : GotoIf(ok, "combine", "patch")
       ELSE Goto("combine", "error") /\ UNCHANGED <<samples, ds_rprof>>
  /\ UNCHANGED <<given, ds_pprof, merged>>

-----------------------------------------------------------------------------
(* patch_combined_ds()                                                     *)

\* merge() by function_id, then by location_id: the names of a location.
Names(ds, id) ==
  {f.system_name : f \in {g \in ds.functions :
     [location_id |-> id, function_id |-> g.function_id] \in ds.locations}}

\* The stopifnot() of patch_locations(): every location has one row.  The native
\* stack is looked up only if the R stack has a .Call.
Resolves(ds, stack) == \A i \in DOMAIN stack : Cardinality(Names(ds, stack[i])) = 1

Resolved(ds, stack) ==
  [i \in DOMAIN stack |-> CHOOSE name \in Names(ds, stack[i]) : TRUE]

\* which(names == name)[[1]], or 0.
First(names, name) ==
  LET at == {i \in DOMAIN names : names[i] = name}
  IN  IF at = {} THEN 0 ELSE CHOOSE i \in at : \A j \in at : i <= j

\* Mutant: the unknown frame above the evaluator is kept.
EvalIdxUnadjusted(names) ==
  LET eval == First(names, "Rf_eval")
  IN  IF eval = 0 THEN Len(names) ELSE IF eval > 1 THEN eval - 1 ELSE 1

\* How many native frames replace the .Call.
EvalIdx(names) ==
  LET eval == First(names, "Rf_eval")
      above == IF eval > 1 THEN eval - 1 ELSE 1
  IN  IF eval = 0 THEN Len(names)
      ELSE IF names[above] = "<?>" THEN above - 1
      ELSE above

PatchLocations(ds, rprof, pprof) ==
  LET call == First(Resolved(ds, rprof), ".Call")
  IN  IF call = 0 THEN rprof
      ELSE SubSeq(rprof, 1, call - 1)
           \o SubSeq(pprof, 1, EvalIdx(Resolved(ds, pprof)))
           \o SubSeq(rprof, call + 1, Len(rprof))

Patchable(ds, rprof, pprof) ==
  /\ Resolves(ds, rprof)
  /\ First(Resolved(ds, rprof), ".Call") # 0 => Resolves(ds, pprof)

PatchCombinedDs ==
  /\ step = "patch"
  /\ IF \A s \in DOMAIN samples :
          Patchable(ds_rprof, samples[s].rprof, samples[s].pprof)
       THEN /\ step' = "done"
            /\ merged' = [s \in DOMAIN samples |->
                 PatchLocations(ds_rprof, samples[s].rprof, samples[s].pprof)]
       ELSE step' = "error" /\ UNCHANGED merged
  /\ UNCHANGED <<given, ds_rprof, ds_pprof, samples>>

Next == \/ ReadProfiles
        \/ CheckTotals
        \/ ShiftIds
        \/ ExpandSamples
        \/ CombineDs
        \/ PatchCombinedDs

Spec == Init /\ [][Next]_vars

-----------------------------------------------------------------------------
(* Properties.                                                             *)

Rows(ds) ==
  /\ \A l \in ds.locations : DOMAIN l = {"location_id", "function_id"}
  /\ \A f \in ds.functions : DOMAIN f = {"function_id", "system_name"}
  /\ \A s \in DOMAIN ds.samples :
       /\ ds.samples[s].value \in Nat \ {0}
       /\ \A i \in DOMAIN ds.samples[s].locations :
            \E l \in ds.locations : l.location_id = ds.samples[s].locations[i]

\* Every location of a sample is in the profile's own table at every step, which
\* is what profile::validate_profile() checks after most of them.
TypeOK ==
  /\ run \in Runs
  /\ missed \in {0, 1}
  /\ merging \in BOOLEAN
  /\ step \in Steps
  /\ Rows(ds_rprof) /\ Rows(ds_pprof)

Combined == step \in {"patch", "done"}
NativeNames(s) == Resolved(ds_rprof, samples[s].pprof)

\* The R profile has no location to number the native ones after.
OnlyNativeFrames ==
  /\ \A t \in DOMAIN run : run[t].r = << >>
  /\ \E t \in DOMAIN run : run[t].n # << >>

\* Renumbering, expanding and merging the tables mixes no names up: each sample
\* of the combined profile has the R stack of its tick, and as many of them
\* have a given native stack as ticks had it.  The one exception: if no R stack
\* has a frame, all native frames get the same number.
StacksSurvive ==
  Combined /\ ~OnlyNativeFrames =>
    /\ Len(samples) = Len(run)
    /\ \A s \in DOMAIN samples :
         /\ Resolves(ds_rprof, samples[s].rprof)
         /\ Resolves(ds_rprof, samples[s].pprof)
         /\ Resolved(ds_rprof, samples[s].rprof) = run[s].r
         /\ Cardinality({t \in DOMAIN samples : NativeNames(t) = NativeNames(s)})
              = Cardinality({t \in DOMAIN run : run[t].n = NativeNames(s)})

\* Unless there are only native frames, the two stacks of a sample were taken at
\* the same tick if pprof keeps equal stacks apart, and also if it merges them as
\* long as they were sampled in one piece.
EqualStacksAdjacent ==
  \A t, u, v \in DOMAIN run :
    t < u /\ u < v /\ run[t].n = run[v].n => run[u].n = run[t].n

PairedIfAdjacent ==
  Combined /\ ~OnlyNativeFrames /\ (merging => EqualStacksAdjacent) =>
    \A s \in DOMAIN samples : NativeNames(s) = run[s].n

\* combine_profiles() fails, in the comparison of the totals, in a column of
\* another length, in a validation or in a lookup, only if the native profile
\* lacks a tick or its frames cannot be numbered.
FailsOnlyIfMissed ==
  step = "error" => (missed > 0 /\ run # << >>) \/ OnlyNativeFrames

\* "Replace these by the relevant parts of the native stack traces",
\* vignettes/proposal.Rmd:78.  A merged stack consists of the R frames without
\* the innermost .Call and, in the place of that, the native frames above the
\* evaluator: all of them down to Rf_eval except an unknown frame just above it.
\* An Rf_eval that is itself the leaf is kept.  This is so even where there are
\* only native frames: the mixed up numbers do not reach the result.
NativeFramesAboveEval(native, part) ==
  LET rest == SubSeq(native, Len(part) + 1, Len(native))
  IN  /\ IsPrefix(part, native)
      /\ \/ /\ "Rf_eval" \notin ToSet(part)
            /\ \/ rest = << >>
               \/ Head(rest) = "Rf_eval" /\ part # << >> /\ Last(part) # "<?>"
               \/ Head(rest) = "<?>" /\ Len(rest) > 1 /\ rest[2] = "Rf_eval"
         \/ part = <<"Rf_eval">>

PatchedStack(r, native, result) ==
  IF ".Call" \notin ToSet(r) THEN result = r
  ELSE \E call \in DOMAIN r, k \in 0 .. Len(native) :
         /\ r[call] = ".Call"
         /\ ".Call" \notin ToSet(SubSeq(r, 1, call - 1))
         /\ NativeFramesAboveEval(native, SubSeq(native, 1, k))
         /\ result = SubSeq(r, 1, call - 1) \o SubSeq(native, 1, k)
                     \o SubSeq(r, call + 1, Len(r))

CallsReplaced ==
  step = "done" =>
    \A s \in DOMAIN samples :
      PatchedStack(run[s].r, NativeNames(s), Resolved(ds_rprof, merged[s]))

\* "Sample stack traces simultaneously at both R and the native levels",
\* vignettes/proposal.Rmd:76: the two stacks of a row were taken together.
SampledSimultaneously ==
  Combined /\ ~OnlyNativeFrames =>
    \A s \in DOMAIN samples : NativeNames(s) = run[s].n
=============================================================================
