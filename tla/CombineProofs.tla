---------------------------- MODULE CombineProofs ----------------------------
(***************************************************************************)
(* The combined profile has the stacks of the two it is made of, for every *)
(* set of sessions: the numbers of the tables are followed through every   *)
(* statement of combine_profiles().                                        *)
(***************************************************************************)
EXTENDS Combine, Iteration, FiniteSetTheorems, SequenceTheorems

Stack == Seq(STRING)
Sample == [value : Nat \ {0}, locations : Seq(Nat)]

ThreeTables(ds) ==
  ds = [samples |-> ds.samples, locations |-> ds.locations,
        functions |-> ds.functions]

\* The numbers of a profile's tables are bounded, none is there twice, and no
\* location lacks its function.
Tables(ds) ==
  /\ ThreeTables(ds)
  /\ \A l, k \in ds.locations : l.location_id = k.location_id => l = k
  /\ \A f, g \in ds.functions : f.function_id = g.function_id => f = g
  /\ \E N \in Nat :
       /\ ds.locations \subseteq [location_id : 1 .. N, function_id : 1 .. N]
       /\ ds.functions \subseteq [function_id : 1 .. N, system_name : STRING]
       /\ \A l \in ds.locations :
            \E f \in ds.functions : f.function_id = l.function_id

\* These locations stand for the frames of this stack.
Shows(ds, stack, locations) ==
  /\ locations \in Seq(Nat) /\ Len(locations) = Len(stack)
  /\ \A i \in 1 .. Len(stack) : Names(ds, locations[i]) = {stack[i]}

\* Sample by sample, the profile has these stacks.
Carries(ds, stacks) ==
  /\ ds.samples \in Seq(Sample) /\ Len(ds.samples) = Len(stacks)
  /\ \A s \in 1 .. Len(stacks) : Shows(ds, stacks[s], ds.samples[s].locations)

\* The tables have no rows that no sample needs.
Used(ds) ==
  ds.locations # {} \/ ds.functions # {} =>
    \E s \in DOMAIN ds.samples : ds.samples[s].locations # << >>

\* All numbers of a's tables are below those of b's.
Below(a, b) ==
  /\ \A l \in a.locations, k \in b.locations : l.location_id < k.location_id
  /\ \A f \in a.functions, g \in b.functions : f.function_id < g.function_id

-----------------------------------------------------------------------------
(* The profiles that are read.                                             *)

LEMMA Numbering ==
  ASSUME NEW S, IsFiniteSet(S)
  PROVE  LET seq == SetToSeq(S)
         IN  /\ seq \in [1 .. Cardinality(S) -> S] /\ Cardinality(S) \in Nat
             /\ \A i, j \in 1 .. Cardinality(S) : seq[i] = seq[j] => i = j
             /\ \A x \in S : \E i \in 1 .. Cardinality(S) : seq[i] = x
<1>1. Cardinality(S) \in Nat /\ ExistsBijection(1 .. Cardinality(S), S)
  BY FS_CardinalityType
<1>2. PICK f \in [1 .. Cardinality(S) -> S] : IsInjective(f)
  BY <1>1 DEF ExistsBijection, Bijection, Injection, IsInjective
<1>3. /\ SetToSeq(S) \in [1 .. Cardinality(S) -> S]
      /\ IsInjective(SetToSeq(S))
  BY <1>2 DEF SetToSeq
<1>4. SetToSeq(S) \in Injection(1 .. Cardinality(S), S)
  BY <1>3 DEF Injection, IsInjective
<1>5. IsFiniteSet(1 .. Cardinality(S)) /\ Cardinality(1 .. Cardinality(S)) = Cardinality(S)
  BY <1>1, FS_Interval
<1>6. SetToSeq(S) \in Surjection(1 .. Cardinality(S), S)
  BY <1>4, <1>5, FS_Injection
<1> QED
  BY <1>1, <1>3, <1>6 DEF IsInjective, Surjection

LEMMA NamesFinite ==
  ASSUME NEW stacks \in Seq(Stack)
  PROVE  /\ IsFiniteSet(UNION {ToSet(stacks[s]) : s \in DOMAIN stacks})
         /\ UNION {ToSet(stacks[s]) : s \in DOMAIN stacks} \subseteq STRING
<1> DEFINE sets == {ToSet(stacks[s]) : s \in DOMAIN stacks}
<1>1. ASSUME NEW A, NEW n \in Nat, NEW f \in [1 .. n -> A]
      PROVE  IsFiniteSet({f[i] : i \in 1 .. n})
  <2> DEFINE T == {f[i] : i \in 1 .. n}
  <2>1. IsFiniteSet(1 .. n)
    BY FS_Interval
  <2>2. f \in Surjection(1 .. n, T)
    BY DEF Surjection
  <2> QED
    BY <2>1, <2>2, FS_Surjection
<1>2. ASSUME NEW s \in DOMAIN stacks
      PROVE  IsFiniteSet(ToSet(stacks[s])) /\ ToSet(stacks[s]) \subseteq STRING
  <2>1. stacks[s] \in [1 .. Len(stacks[s]) -> STRING] /\ Len(stacks[s]) \in Nat
    BY DEF Stack
  <2>2. ToSet(stacks[s]) = {stacks[s][i] : i \in 1 .. Len(stacks[s])}
    BY <2>1 DEF ToSet
  <2> QED
    BY <1>1, <2>1, <2>2
<1>3. IsFiniteSet(sets)
  <2> DEFINE f == [s \in 1 .. Len(stacks) |-> ToSet(stacks[s])]
             A == {f[i] : i \in 1 .. Len(stacks)}
  <2>1. Len(stacks) \in Nat /\ DOMAIN stacks = 1 .. Len(stacks)
    OBVIOUS
  <2>2. f \in [1 .. Len(stacks) -> A]
    OBVIOUS
  <2>3. IsFiniteSet(A)
    BY <1>1, <2>1, <2>2
  <2>4. sets = A
    BY <2>1
  <2> QED
    BY <2>3, <2>4
<1>4. \A T \in sets : IsFiniteSet(T)
  BY <1>2
<1>5. IsFiniteSet(UNION sets)
  <2> HIDE DEF sets
  <2> QED
    BY <1>3, <1>4, FS_UNION
<1> QED
  BY <1>2, <1>5

LEMMA ProfileCarries ==
  ASSUME NEW stacks \in Seq(Stack), NEW values \in [1 .. Len(stacks) -> Nat \ {0}]
  PROVE  LET ds == Profile(stacks, values)
         IN  /\ Tables(ds) /\ Carries(ds, stacks) /\ Used(ds)
             /\ \A s \in 1 .. Len(stacks) : ds.samples[s].value = values[s]
<1> DEFINE S == UNION {ToSet(stacks[s]) : s \in DOMAIN stacks}
           names == SetToSeq(S)
           T == ToSet(names)
           D == DOMAIN names
           N == Len(names)
           id == [name \in T |-> CHOOSE i \in D : names[i] = name]
           list == [s \in DOMAIN stacks |->
                      [value |-> values[s],
                       locations |-> [f \in DOMAIN stacks[s] |-> id[stacks[s][f]]]]]
           rows == {[location_id |-> id[name],
                     function_id |-> N + 1 - id[name]] : name \in T}
           named == {[function_id |-> N + 1 - id[name],
                      system_name |-> name] : name \in T}
           ds == [samples |-> list, locations |-> rows, functions |-> named]
<1>1. Profile(stacks, values) = ds
  BY Zenon DEF Profile
<1>2. /\ N \in Nat /\ D = 1 .. N /\ names \in [1 .. N -> T]
      /\ T = S /\ T \subseteq STRING
      /\ \A x \in T : \E i \in 1 .. N : names[i] = x
  <2> DEFINE C == Cardinality(S)
  <2>1. IsFiniteSet(S) /\ S \subseteq STRING
    BY NamesFinite
  <2>2. /\ C \in Nat /\ names \in [1 .. C -> S]
        /\ \A x \in S : \E i \in 1 .. C : names[i] = x
    <3> HIDE DEF S
    <3> QED
      BY <2>1, Numbering
  <2> HIDE DEF S, C, names
  <2>3. D = 1 .. C /\ N = C
    BY <2>2
  <2>4. T = {names[i] : i \in 1 .. C}
    BY <2>3 DEF ToSet
  <2>5. T = S
    BY <2>2, <2>4
  <2> QED
    BY <2>1, <2>2, <2>3, <2>5
<1> HIDE DEF S, names, T, D, N
<1>3. \A name \in T : id[name] \in 1 .. N /\ names[id[name]] = name
  BY <1>2
<1> HIDE DEF id, list, rows, named
<1>4. ASSUME NEW name \in T
      PROVE  id[name] \in 1 .. N /\ N + 1 - id[name] \in 1 .. N
  <2>1. N \in Nat
    BY <1>2
  <2>2. id[name] \in 1 .. N
    BY <1>3
  <2>3. N + 1 - id[name] \in 1 .. N
    BY <2>1, <2>2
  <2> QED
    BY <2>2, <2>3
<1>5. /\ ds.samples = list /\ ds.locations = rows /\ ds.functions = named
      /\ ThreeTables(ds)
  BY DEF ThreeTables
<1> HIDE DEF ds
<1>6. Tables(ds)
  <2>1. rows \subseteq [location_id : 1 .. N, function_id : 1 .. N]
    BY <1>4 DEF rows
  <2>2. named \subseteq [function_id : 1 .. N, system_name : STRING]
    BY <1>2, <1>4 DEF named
  <2>3. ASSUME NEW l \in rows
        PROVE  \E f \in named : f.function_id = l.function_id
    <3>1. PICK name \in T :
            l = [location_id |-> id[name], function_id |-> N + 1 - id[name]]
      BY DEF rows
    <3>2. [function_id |-> N + 1 - id[name], system_name |-> name] \in named
      BY DEF named
    <3> QED
      BY <3>1, <3>2
  <2>4. ASSUME NEW a \in T, NEW b \in T, id[a] = id[b] \/ N + 1 - id[a] = N + 1 - id[b]
        PROVE  a = b
    <3>1. N \in Nat /\ id[a] \in 1 .. N /\ id[b] \in 1 .. N
      BY <1>2, <1>3
    <3>2. id[a] = id[b]
      BY <2>4, <3>1
    <3> QED
      BY <1>3, <3>2
  <2>5. \A l, k \in rows : l.location_id = k.location_id => l = k
    BY <2>4 DEF rows
  <2>6. \A f, g \in named : f.function_id = g.function_id => f = g
    BY <2>4 DEF named
  <2> QED
    BY <1>2, <1>5, <2>1, <2>2, <2>3, <2>5, <2>6 DEF Tables
<1>7. ASSUME NEW name \in T
      PROVE  Names(ds, id[name]) = {name}
  <2>1. ASSUME NEW other \in T
        PROVE  [location_id |-> id[name], function_id |-> N + 1 - id[other]]
                 \in rows <=> other = name
    <3>1. ASSUME NEW third \in T, id[third] = id[name],
                 N + 1 - id[third] = N + 1 - id[other]
          PROVE  other = name
      <4>1. /\ N \in Nat /\ id[third] \in 1 .. N /\ id[other] \in 1 .. N
        BY <1>2, <1>3
      <4>2. id[third] = id[other]
        BY <3>1, <4>1
      <4> QED
        BY <1>3, <3>1, <4>2
    <3>2. [location_id |-> id[name], function_id |-> N + 1 - id[other]] \in rows
            <=> \E third \in T : id[third] = id[name]
                                  /\ N + 1 - id[third] = N + 1 - id[other]
      BY DEF rows
    <3> QED
      BY <3>1, <3>2
  <2>2. \A g \in named : g.system_name \in T
                         /\ g.function_id = N + 1 - id[g.system_name]
    BY DEF named
  <2>3. [function_id |-> N + 1 - id[name], system_name |-> name] \in named
    BY DEF named
  <2>4. \A g \in named :
          [location_id |-> id[name], function_id |-> g.function_id] \in rows
            <=> g.system_name = name
    BY <2>1, <2>2
  <2> QED
    BY <1>5, <2>2, <2>3, <2>4 DEF Names
<1>8. ASSUME NEW s \in 1 .. Len(stacks)
      PROVE  /\ list[s] \in Sample /\ list[s].value = values[s]
             /\ Shows(ds, stacks[s], list[s].locations)
  <2>1. /\ stacks[s] \in [1 .. Len(stacks[s]) -> T] /\ Len(stacks[s]) \in Nat
        /\ DOMAIN stacks[s] = 1 .. Len(stacks[s])
    <3>1. stacks[s] \in Seq(STRING)
      BY DEF Stack
    <3>2. ToSet(stacks[s]) \subseteq T
      BY <1>2 DEF S
    <3> QED
      BY <3>1, <3>2 DEF ToSet
  <2> DEFINE locations == [f \in DOMAIN stacks[s] |-> id[stacks[s][f]]]
  <2>2. list[s] = [value |-> values[s], locations |-> locations]
    <3>1. s \in DOMAIN stacks
      OBVIOUS
    <3> QED
      BY <3>1, Zenon DEF list
  <2>3. locations \in Seq(Nat) /\ Len(locations) = Len(stacks[s])
    <3>1. \A i \in 1 .. Len(stacks[s]) : id[stacks[s][i]] \in Nat
      <4>1. \A i \in 1 .. Len(stacks[s]) : stacks[s][i] \in T
        BY <2>1
      <4>2. \A i \in 1 .. Len(stacks[s]) : id[stacks[s][i]] \in 1 .. N
        BY <1>3, <4>1
      <4>3. 1 .. N \subseteq Nat
        BY <1>2
      <4> QED
        BY <4>2, <4>3
    <3> DEFINE n == Len(stacks[s])
    <3>2. n \in Nat /\ locations = [i \in 1 .. n |-> locations[i]]
          /\ \A i \in 1 .. n : locations[i] \in Nat
      BY <2>1, <3>1
    <3> HIDE DEF locations, n
    <3>3. locations \in Seq(Nat) /\ Len(locations) = n
      BY <3>2
    <3> QED
      BY <3>3 DEF n
  <2>4. \A i \in 1 .. Len(stacks[s]) : Names(ds, locations[i]) = {stacks[s][i]}
    BY <1>7, <2>1
  <2>5. values[s] \in Nat \ {0}
    OBVIOUS
  <2> HIDE DEF locations
  <2>6. list[s].value = values[s] /\ list[s].locations = locations
    BY <2>2
  <2>7. list[s] \in Sample
    BY <2>2, <2>3, <2>5 DEF Sample
  <2> QED
    BY <2>3, <2>4, <2>6, <2>7 DEF Shows
<1>9. list \in Seq(Sample) /\ Len(list) = Len(stacks)
  <2>1. list = [s \in 1 .. Len(stacks) |-> list[s]]
    BY DEF list
  <2>2. Len(stacks) \in Nat
    OBVIOUS
  <2> QED
    BY <1>8, <2>1, <2>2
<1>10. Used(ds)
  <2>1. SUFFICES ASSUME rows # {} \/ named # {}
                 PROVE  \E s \in DOMAIN list : list[s].locations # << >>
    BY <1>5 DEF Used
  <2>2. PICK name : name \in T
    BY <2>1 DEF rows, named
  <2>3. PICK s \in DOMAIN stacks : name \in ToSet(stacks[s])
    BY <1>2, <2>2 DEF S
  <2>4. s \in 1 .. Len(stacks) /\ s \in DOMAIN list
    BY <1>9, <2>3
  <2>5. stacks[s] \in Seq(STRING) /\ stacks[s] # << >>
    BY <2>3, <2>4 DEF ToSet, Stack
  <2>6. list[s].locations \in Seq(Nat) /\ Len(list[s].locations) = Len(stacks[s])
    BY <1>8, <2>4 DEF Shows
  <2>7. list[s].locations # << >>
    BY <2>5, <2>6
  <2> QED
    BY <2>4, <2>7
<1> QED
  BY <1>1, <1>5, <1>6, <1>8, <1>9, <1>10 DEF Carries

-----------------------------------------------------------------------------
(* Renumbering and uniting the tables.                                     *)

LEMMA LargestIsLargest ==
  ASSUME NEW N \in Nat, NEW S \in SUBSET (1 .. N)
  PROVE  /\ Largest(S) \in Nat /\ \A i \in S : i <= Largest(S)
         /\ S # {} => Largest(S) \in S
<1>1. CASE S = {}
  BY <1>1 DEF Largest, NegInf
<1>2. CASE S # {}
  <2> DEFINE T == {N - i : i \in S}
  <2>1. T \in SUBSET Nat /\ T # {}
    BY <1>2
  <2>2. PICK c \in T : \A d \in T : c <= d
    <3> HIDE DEF T
    <3> QED
      BY <2>1, LeastExists
  <2>3. PICK i \in S : c = N - i
    BY <2>2
  <2>4. \A j \in S : j <= i
    <3>1. SUFFICES ASSUME NEW j \in S
                   PROVE  j <= i
      OBVIOUS
    <3>2. N - i <= N - j
      BY <2>2, <2>3
    <3>3. i \in 1 .. N /\ j \in 1 .. N
      OBVIOUS
    <3> QED
      BY <3>2, <3>3
  <2>5. Largest(S) = CHOOSE k \in S : \A j \in S : j <= k
    BY <1>2 DEF Largest
  <2>6. Largest(S) \in S /\ \A j \in S : j <= Largest(S)
    BY <2>4, <2>5
  <2>7. S \subseteq Nat
    OBVIOUS
  <2> QED
    BY <2>6, <2>7
<1> QED
  BY <1>1, <1>2

\* If the other profile has a number, or this one has none to be added to, every
\* number is shifted by the same amount.
LEMMA ShiftedCarries ==
  ASSUME NEW ds, NEW base, Tables(ds), Tables(base), NEW stacks, Carries(ds, stacks),
         Len(stacks) \in Nat, stacks \in Seq(Stack),
         base.locations = {} => (ds.locations = {} /\ ds.functions = {})
  PROVE  LET new == Shifted(ds, base)
         IN  /\ Tables(new) /\ Carries(new, stacks) /\ Below(base, new)
             /\ \A s \in 1 .. Len(stacks) : new.samples[s].value = ds.samples[s].value
<1> DEFINE dl == Largest({l.location_id : l \in base.locations})
           df == Largest({f.function_id : f \in base.functions})
           list == [s \in DOMAIN ds.samples |->
                      [ds.samples[s] EXCEPT
                         !.locations = [i \in DOMAIN @ |-> Plus(@[i], dl)]]]
           rows == {[location_id |-> Plus(l.location_id, dl),
                     function_id |-> Plus(l.function_id, df)] : l \in ds.locations}
           named == {[f EXCEPT !.function_id = Plus(@, df)] : f \in ds.functions}
           new == [samples |-> list, locations |-> rows, functions |-> named]
<1>1. Shifted(ds, base) = new
  BY Zenon DEF Shifted
<1>2. /\ dl \in Nat /\ \A l \in base.locations : l.location_id <= dl
      /\ df \in Nat /\ \A f \in base.functions : f.function_id <= df
  <2>1. PICK N \in Nat :
          /\ base.locations \subseteq [location_id : 1 .. N, function_id : 1 .. N]
          /\ base.functions \subseteq [function_id : 1 .. N, system_name : STRING]
    BY DEF Tables
  <2> DEFINE L == {l.location_id : l \in base.locations}
             F == {f.function_id : f \in base.functions}
  <2>2. L \in SUBSET (1 .. N) /\ F \in SUBSET (1 .. N)
    BY <2>1
  <2>3. /\ \A l \in base.locations : l.location_id \in L
        /\ \A f \in base.functions : f.function_id \in F
    OBVIOUS
  <2>4. /\ Largest(L) \in Nat /\ \A i \in L : i <= Largest(L)
        /\ Largest(F) \in Nat /\ \A i \in F : i <= Largest(F)
    <3> HIDE DEF L, F
    <3> QED
      BY <2>1, <2>2, LargestIsLargest
  <2> QED
    BY <2>3, <2>4
<1>3. /\ base.locations # {} => dl # 0
      /\ base.functions # {} => df # 0
      /\ base.locations # {} => base.functions # {}
  <2>1. PICK N \in Nat :
          /\ base.locations \subseteq [location_id : 1 .. N, function_id : 1 .. N]
          /\ base.functions \subseteq [function_id : 1 .. N, system_name : STRING]
          /\ \A l \in base.locations :
               \E f \in base.functions : f.function_id = l.function_id
    BY DEF Tables
  <2> HIDE DEF dl, df
  <2>2. ASSUME NEW l \in base.locations PROVE dl # 0
    <3>1. l.location_id \in 1 .. N /\ l.location_id <= dl
      BY <1>2, <2>1
    <3> QED
      BY <3>1
  <2>3. ASSUME NEW f \in base.functions PROVE df # 0
    <3>1. f.function_id \in 1 .. N /\ f.function_id <= df
      BY <1>2, <2>1
    <3> QED
      BY <3>1
  <2> QED
    BY <2>1, <2>2, <2>3
<1> HIDE DEF dl, df
<1>4. \A id : /\ dl # 0 => Plus(id, dl) = id + dl
              /\ df # 0 => Plus(id, df) = id + df
  BY DEF Plus, NegInf
<1>5. ds.locations # {} \/ ds.functions # {} => dl # 0 /\ df # 0
  BY <1>3
<1>6. rows = {[location_id |-> l.location_id + dl,
                function_id |-> l.function_id + df] : l \in ds.locations}
  BY <1>4, <1>5
<1>7. named = {[f EXCEPT !.function_id = @ + df] : f \in ds.functions}
  BY <1>4, <1>5
<1>8. ASSUME NEW s \in 1 .. Len(stacks), NEW i \in DOMAIN ds.samples[s].locations
       PROVE  dl # 0
  <2>1. Shows(ds, stacks[s], ds.samples[s].locations)
    BY DEF Carries
  <2>2. i \in 1 .. Len(stacks[s])
    BY <2>1 DEF Shows
  <2>3. Names(ds, ds.samples[s].locations[i]) = {stacks[s][i]}
    BY <2>1, <2>2 DEF Shows
  <2>4. ds.functions # {}
    BY <2>3 DEF Names
  <2> QED
    BY <1>5, <2>4
<1> HIDE DEF list, rows, named
<1>9. /\ new.samples = list /\ new.locations = rows /\ new.functions = named
      /\ ThreeTables(new)
  BY DEF ThreeTables
<1> HIDE DEF new
<1>10. PICK N \in Nat :
        /\ ds.locations \subseteq [location_id : 1 .. N, function_id : 1 .. N]
        /\ ds.functions \subseteq [function_id : 1 .. N, system_name : STRING]
        /\ \A l \in ds.locations : \E f \in ds.functions : f.function_id = l.function_id
        /\ \A l, k \in ds.locations : l.location_id = k.location_id => l = k
        /\ \A f, g \in ds.functions : f.function_id = g.function_id => f = g
  BY DEF Tables
\* Every row of the new tables is one of the old.
<1>11. ASSUME NEW k \in rows
      PROVE  \E l \in ds.locations : /\ k.location_id = l.location_id + dl
                                     /\ k.function_id = l.function_id + df
                                     /\ k = [location_id |-> l.location_id + dl,
                                             function_id |-> l.function_id + df]
  BY <1>6
<1>12. ASSUME NEW f \in ds.functions
      PROVE  /\ [f EXCEPT !.function_id = @ + df] \in named
             /\ [f EXCEPT !.function_id = @ + df]
                  = [function_id |-> f.function_id + df, system_name |-> f.system_name]
  <2>1. f \in [function_id : 1 .. N, system_name : STRING]
    BY <1>10
  <2>2. [f EXCEPT !.function_id = @ + df]
          = [function_id |-> f.function_id + df, system_name |-> f.system_name]
    BY <2>1
  <2> QED
    BY <1>7, <2>2
<1>13. ASSUME NEW g \in named
      PROVE  \E f \in ds.functions : /\ g.function_id = f.function_id + df
                                     /\ g.system_name = f.system_name
                                     /\ g = [function_id |-> f.function_id + df,
                                             system_name |-> f.system_name]
  <2>1. PICK f \in ds.functions : g = [f EXCEPT !.function_id = @ + df]
    BY <1>7
  <2> QED
    BY <1>12, <2>1
<1>14. /\ \A l \in ds.locations : l.location_id \in 1 .. N /\ l.function_id \in 1 .. N
      /\ \A f \in ds.functions : f.function_id \in 1 .. N /\ f.system_name \in STRING
  BY <1>10
<1>15. Tables(new)
  <2> DEFINE M == N + dl + df
  <2>1. M \in Nat /\ \A i \in 1 .. N : i + dl \in 1 .. M /\ i + df \in 1 .. M
    BY <1>2
  <2> HIDE DEF M
  <2>2. rows \subseteq [location_id : 1 .. M, function_id : 1 .. M]
    BY <1>11, <1>14, <2>1
  <2>3. named \subseteq [function_id : 1 .. M, system_name : STRING]
    BY <1>13, <1>14, <2>1
  <2>4. ASSUME NEW k \in rows
        PROVE  \E g \in named : g.function_id = k.function_id
    <3>1. PICK l \in ds.locations : k.function_id = l.function_id + df
      BY <1>11
    <3>2. PICK f \in ds.functions : f.function_id = l.function_id
      BY <1>10
    <3>3. [function_id |-> f.function_id + df, system_name |-> f.system_name] \in named
      BY <1>12
    <3> QED
      BY <3>1, <3>2, <3>3
  <2>5. ASSUME NEW k \in rows, NEW j \in rows, k.location_id = j.location_id
        PROVE  k = j
    <3>1. PICK l \in ds.locations : /\ k.location_id = l.location_id + dl
                                    /\ k = [location_id |-> l.location_id + dl,
                                            function_id |-> l.function_id + df]
      BY <1>11
    <3>2. PICK m \in ds.locations : /\ j.location_id = m.location_id + dl
                                    /\ j = [location_id |-> m.location_id + dl,
                                            function_id |-> m.function_id + df]
      BY <1>11
    <3>3. l.location_id = m.location_id
      <4>1. l.location_id \in Nat /\ m.location_id \in Nat
        BY <1>14
      <4>2. l.location_id + dl = m.location_id + dl
        BY <2>5, <3>1, <3>2
      <4> QED
        BY <1>2, <4>1, <4>2
    <3> QED
      BY <1>10, <3>1, <3>2, <3>3
  <2>6. ASSUME NEW g \in named, NEW h \in named, g.function_id = h.function_id
        PROVE  g = h
    <3>1. PICK f \in ds.functions : /\ g.function_id = f.function_id + df
                                    /\ g = [function_id |-> f.function_id + df,
                                            system_name |-> f.system_name]
      BY <1>13
    <3>2. PICK e \in ds.functions : /\ h.function_id = e.function_id + df
                                    /\ h = [function_id |-> e.function_id + df,
                                            system_name |-> e.system_name]
      BY <1>13
    <3>3. f.function_id = e.function_id
      <4>1. f.function_id \in Nat /\ e.function_id \in Nat
        BY <1>14
      <4>2. f.function_id + df = e.function_id + df
        BY <2>6, <3>1, <3>2
      <4> QED
        BY <1>2, <4>1, <4>2
    <3> QED
      BY <1>10, <3>1, <3>2, <3>3
  <2> QED
    BY <1>9, <2>1, <2>2, <2>3, <2>4, <2>5, <2>6 DEF Tables
<1>16. Below(base, new)
  <2>1. ASSUME NEW l \in base.locations, NEW k \in rows
        PROVE  l.location_id < k.location_id
    <3>1. PICK m \in ds.locations : k.location_id = m.location_id + dl
      BY <1>11
    <3>2. m.location_id \in 1 .. N /\ l.location_id <= dl /\ l.location_id \in Nat
      BY <1>2, <1>14 DEF Tables
    <3> QED
      BY <1>2, <3>1, <3>2
  <2>2. ASSUME NEW f \in base.functions, NEW g \in named
        PROVE  f.function_id < g.function_id
    <3>1. PICK h \in ds.functions : g.function_id = h.function_id + df
      BY <1>13
    <3>2. h.function_id \in 1 .. N /\ f.function_id <= df /\ f.function_id \in Nat
      BY <1>2, <1>14 DEF Tables
    <3> QED
      BY <1>2, <3>1, <3>2
  <2> QED
    BY <1>9, <2>1, <2>2 DEF Below
<1>17. ASSUME NEW id \in Nat
       PROVE  Names(new, id + dl) = Names(ds, id)
  <2>1. ASSUME NEW f \in ds.functions
        PROVE  [location_id |-> id + dl, function_id |-> f.function_id + df] \in rows
                 <=> [location_id |-> id, function_id |-> f.function_id] \in ds.locations
    <3>1. f.function_id \in Nat
      BY <1>14
    <3>2. ASSUME NEW l \in ds.locations,
                 l.location_id + dl = id + dl, l.function_id + df = f.function_id + df
          PROVE  l = [location_id |-> id, function_id |-> f.function_id]
      <4>1. l.location_id \in Nat /\ l.function_id \in Nat
        BY <1>14
      <4>2. l.location_id = id /\ l.function_id = f.function_id
        BY <1>2, <3>1, <3>2, <4>1
      <4>3. l \in [location_id : 1 .. N, function_id : 1 .. N]
        BY <1>10
      <4> QED
        BY <4>2, <4>3
    <3>3. [location_id |-> id + dl, function_id |-> f.function_id + df] \in rows
            <=> \E l \in ds.locations : /\ l.location_id + dl = id + dl
                                        /\ l.function_id + df = f.function_id + df
      BY <1>6
    <3> QED
      BY <3>2, <3>3
  <2>2. ASSUME NEW name \in Names(ds, id)
        PROVE  name \in Names(new, id + dl)
    <3>1. PICK f \in ds.functions :
            /\ [location_id |-> id, function_id |-> f.function_id] \in ds.locations
            /\ name = f.system_name
      BY DEF Names
    <3> DEFINE g == [function_id |-> f.function_id + df, system_name |-> f.system_name]
    <3>2. g \in named /\ g.system_name = name /\ g.function_id = f.function_id + df
      BY <1>12, <3>1
    <3> HIDE DEF g
    <3> QED
      BY <1>9, <2>1, <3>1, <3>2 DEF Names
  <2>3. ASSUME NEW name \in Names(new, id + dl)
        PROVE  name \in Names(ds, id)
    <3>1. PICK g \in named :
            /\ [location_id |-> id + dl, function_id |-> g.function_id] \in rows
            /\ name = g.system_name
      BY <1>9 DEF Names
    <3>2. PICK f \in ds.functions : /\ g.function_id = f.function_id + df
                                    /\ g.system_name = f.system_name
      BY <1>13
    <3> QED
      BY <2>1, <3>1, <3>2 DEF Names
  <2> QED
    BY <2>2, <2>3
<1>18. ASSUME NEW s \in 1 .. Len(stacks)
       PROVE  /\ list[s] \in Sample /\ list[s].value = ds.samples[s].value
              /\ Shows(new, stacks[s], list[s].locations)
  <2> DEFINE old == ds.samples[s]
             locations == [i \in DOMAIN old.locations |-> Plus(old.locations[i], dl)]
             n == Len(old.locations)
  <2>1. s \in DOMAIN ds.samples /\ old \in Sample /\ Shows(ds, stacks[s], old.locations)
    BY DEF Carries
  <2>2. /\ old.locations \in Seq(Nat) /\ old.value \in Nat \ {0}
        /\ old = [value |-> old.value, locations |-> old.locations]
    BY <2>1 DEF Sample
  <2>3. list[s] = [old EXCEPT !.locations = locations]
    BY <2>1, Zenon DEF list
  <2>4. /\ DOMAIN old.locations = 1 .. n /\ n \in Nat /\ n = Len(stacks[s])
        /\ \A i \in 1 .. n : old.locations[i] \in Nat
    BY <2>1, <2>2 DEF Shows
  <2>5. locations = [i \in 1 .. n |-> locations[i]]
        /\ \A i \in 1 .. n : locations[i] = old.locations[i] + dl
    <3>1. \A i \in 1 .. n : dl # 0
      BY <1>8, <2>4
    <3>2. \A i \in 1 .. n : Plus(old.locations[i], dl) = old.locations[i] + dl
      BY <1>4, <3>1
    <3> QED
      BY <2>4, <3>2
  <2> HIDE DEF old, locations, n
  <2>6. ASSUME NEW i \in 1 .. n
        PROVE  locations[i] \in Nat
    <3>1. old.locations[i] \in Nat /\ dl \in Nat
      BY <1>2, <2>4
    <3>2. old.locations[i] + dl \in Nat
      BY <3>1
    <3> QED
      BY <2>5, <3>2
  <2>7. locations \in Seq(Nat) /\ Len(locations) = n
    BY <2>4, <2>5, <2>6
  <2>8. list[s] = [value |-> old.value, locations |-> locations]
    BY <2>2, <2>3
  <2>9. \A i \in 1 .. n : Names(new, locations[i]) = {stacks[s][i]}
    BY <1>17, <2>1, <2>4, <2>5 DEF Shows
  <2>10. list[s] \in Sample
    BY <2>2, <2>7, <2>8 DEF Sample
  <2>11. list[s].value = old.value /\ list[s].locations = locations
    BY <2>8
  <2> QED
    BY <2>4, <2>7, <2>9, <2>10, <2>11 DEF Shows, old
<1>19. list \in Seq(Sample) /\ Len(list) = Len(stacks)
  <2>1. ds.samples \in Seq(Sample) /\ Len(ds.samples) = Len(stacks)
    BY DEF Carries
  <2>2. list = [s \in 1 .. Len(stacks) |-> list[s]]
    BY <2>1 DEF list
  <2> QED
    BY <1>18, <2>2
<1> QED
  BY <1>1, <1>9, <1>15, <1>16, <1>18, <1>19 DEF Carries

LEMMA UnitedShows ==
  ASSUME NEW a, NEW b, Tables(a), Tables(b), Below(a, b),
         NEW u, u = [samples |-> a.samples, locations |-> a.locations \cup b.locations,
                     functions |-> a.functions \cup b.functions]
  PROVE  /\ Tables(u)
         /\ \A stack, locations : Shows(a, stack, locations) \/ Shows(b, stack, locations)
                                    => Shows(u, stack, locations)
<1>1. /\ u.samples = a.samples
      /\ u.locations = a.locations \cup b.locations
      /\ u.functions = a.functions \cup b.functions
      /\ ThreeTables(u)
  BY DEF ThreeTables
<1>2. PICK N \in Nat :
        /\ a.locations \subseteq [location_id : 1 .. N, function_id : 1 .. N]
        /\ a.functions \subseteq [function_id : 1 .. N, system_name : STRING]
  BY DEF Tables
<1>3. PICK M \in Nat :
        /\ b.locations \subseteq [location_id : 1 .. M, function_id : 1 .. M]
        /\ b.functions \subseteq [function_id : 1 .. M, system_name : STRING]
  BY DEF Tables
<1>4. /\ \A l \in a.locations : \E f \in a.functions : f.function_id = l.function_id
      /\ \A l \in b.locations : \E f \in b.functions : f.function_id = l.function_id
  BY DEF Tables
\* No row of one profile is taken for one of the other.
<1>5. \A l \in a.locations, k \in b.locations : l.location_id # k.location_id
  <2>1. SUFFICES ASSUME NEW l \in a.locations, NEW k \in b.locations
                 PROVE  l.location_id # k.location_id
    OBVIOUS
  <2>2. l.location_id \in 1 .. N /\ k.location_id \in 1 .. M
    BY <1>2, <1>3
  <2>3. l.location_id < k.location_id
    BY DEF Below
  <2> QED
    BY <2>2, <2>3
<1>6. \A f \in a.functions, g \in b.functions : f.function_id # g.function_id
  <2>1. SUFFICES ASSUME NEW f \in a.functions, NEW g \in b.functions
                 PROVE  f.function_id # g.function_id
    OBVIOUS
  <2>2. f.function_id \in 1 .. N /\ g.function_id \in 1 .. M
    BY <1>2, <1>3
  <2>3. f.function_id < g.function_id
    BY DEF Below
  <2> QED
    BY <2>2, <2>3
<1>7. Tables(u)
  <2>1. 1 .. N \subseteq 1 .. N + M /\ 1 .. M \subseteq 1 .. N + M /\ N + M \in Nat
    OBVIOUS
  <2> DEFINE K == N + M
  <2>2. K \in Nat /\ 1 .. N \subseteq 1 .. K /\ 1 .. M \subseteq 1 .. K
    BY <2>1
  <2> HIDE DEF K
  <2>3. u.locations \subseteq [location_id : 1 .. K, function_id : 1 .. K]
    BY <1>1, <1>2, <1>3, <2>2
  <2>4. u.functions \subseteq [function_id : 1 .. K, system_name : STRING]
    BY <1>1, <1>2, <1>3, <2>2
  <2>5. \A l, k \in u.locations : l.location_id = k.location_id => l = k
    <3>1. /\ \A l, k \in a.locations : l.location_id = k.location_id => l = k
          /\ \A l, k \in b.locations : l.location_id = k.location_id => l = k
      BY DEF Tables
    <3> QED
      BY <1>1, <1>5, <3>1
  <2>6. \A f, g \in u.functions : f.function_id = g.function_id => f = g
    <3>1. /\ \A f, g \in a.functions : f.function_id = g.function_id => f = g
          /\ \A f, g \in b.functions : f.function_id = g.function_id => f = g
      BY DEF Tables
    <3> QED
      BY <1>1, <1>6, <3>1
  <2> QED
    BY <1>1, <1>4, <2>2, <2>3, <2>4, <2>5, <2>6 DEF Tables
<1>8. ASSUME NEW x, NEW y, (x = a /\ y = b) \/ (x = b /\ y = a),
             NEW id, NEW name, Names(x, id) = {name}
      PROVE  Names(u, id) = {name}
  <2>1. /\ u.locations = x.locations \cup y.locations
        /\ u.functions = x.functions \cup y.functions
        /\ \A l \in x.locations, k \in y.locations : l.location_id # k.location_id
        /\ \A f \in x.functions, g \in y.functions : f.function_id # g.function_id
        /\ \A l \in x.locations : \E f \in x.functions : f.function_id = l.function_id
    <3>1. CASE x = a /\ y = b
      BY <1>1, <1>4, <1>5, <1>6, <3>1
    <3>2. CASE x = b /\ y = a
      BY <1>1, <1>4, <1>5, <1>6, <3>2
    <3> QED
      BY <1>8, <3>1, <3>2
  <2>2. PICK f \in x.functions :
          /\ [location_id |-> id, function_id |-> f.function_id] \in x.locations
          /\ f.system_name = name
    BY <1>8 DEF Names
  <2>3. name \in Names(u, id)
    BY <2>1, <2>2 DEF Names
  <2>4. ASSUME NEW other \in Names(u, id)
        PROVE  other = name
    <3>1. PICK g \in u.functions :
            /\ [location_id |-> id, function_id |-> g.function_id] \in u.locations
            /\ other = g.system_name
      BY DEF Names
    <3> DEFINE row == [location_id |-> id, function_id |-> g.function_id]
    <3>2. row \in x.locations
      <4>1. row.location_id = [location_id |-> id, function_id |-> f.function_id].location_id
        OBVIOUS
      <4> QED
        BY <2>1, <2>2, <3>1, <4>1
    <3>3. \E h \in x.functions : h.function_id = g.function_id
      <4>1. row.function_id = g.function_id
        OBVIOUS
      <4> QED
        BY <2>1, <3>2, <4>1
    <3>4. g \in x.functions
      BY <2>1, <3>1, <3>3
    <3>5. other \in Names(x, id)
      BY <3>1, <3>2, <3>4 DEF Names
    <3> QED
      BY <1>8, <3>5
  <2> QED
    BY <2>3, <2>4
<1>9. ASSUME NEW x \in {a, b}, NEW stack, NEW locations, Shows(x, stack, locations)
      PROVE  Shows(u, stack, locations)
  <2>1. \A id, name : Names(x, id) = {name} => Names(u, id) = {name}
    <3>1. \A id, name : Names(a, id) = {name} => Names(u, id) = {name}
      BY <1>8, Zenon
    <3>2. \A id, name : Names(b, id) = {name} => Names(u, id) = {name}
      BY <1>8, Zenon
    <3> QED
      BY <1>9, <3>1, <3>2
  <2> QED
    BY <1>9, <2>1, Zenon DEF Shows
<1> QED
  BY <1>7, <1>9

-----------------------------------------------------------------------------
(* Counting and expanding the samples.                                     *)

\* The samples expand into blocks; block m ends at B[m].
Blocks(list, B) ==
  /\ B \in [0 .. Len(list) -> Nat] /\ B[0] = 0
  /\ \A m \in 1 .. Len(list) : B[m] = B[m - 1] + list[m].value

LEMMA TotalIs ==
  ASSUME NEW ds, ds.samples \in Seq(Sample), NEW B, Blocks(ds.samples, B)
  PROVE  Total(ds) = B[Len(ds.samples)]
<1> DEFINE list == ds.samples
           M == Len(list)
           body(f) == [s \in 0 .. M |-> IF s = 0 THEN 0 ELSE f[s - 1] + list[s].value]
           sum == CHOOSE f : f = body(f)
           S == {s \in 0 .. M : sum[s] = B[s]}
<1>1. Total(ds) = sum[M]
  BY Zenon DEF Total
<1>2. M \in Nat
  OBVIOUS
<1> HIDE DEF M
<1>3. B = body(B)
  BY <1>2 DEF Blocks, M
<1>4. sum = body(sum)
  <2> HIDE DEF body
  <2> QED
    BY <1>3, Zenon
<1> HIDE DEF sum
<1>5. /\ sum[0] = 0
      /\ \A s \in 1 .. M : sum[s] = sum[s - 1] + list[s].value
  BY <1>2, <1>4
<1>6. 0 .. M \subseteq S
  <2>1. 0 \in S
    BY <1>2, <1>5 DEF Blocks
  <2>2. ASSUME NEW s \in 0 .. M - 1, s \in S
        PROVE  s + 1 \in S
    <3>1. s + 1 \in 1 .. M /\ (s + 1) - 1 = s
      BY <1>2
    <3>2. sum[s + 1] = sum[s] + list[s + 1].value
      BY <1>5, <3>1
    <3>3. B[s + 1] = B[s] + list[s + 1].value
      BY <3>1 DEF Blocks, M
    <3> QED
      BY <1>2, <2>2, <3>1, <3>2, <3>3
  <2> HIDE DEF S
  <2> QED
    BY <1>2, <2>1, <2>2, UpTo
<1>7. M \in S
  BY <1>2, <1>6
<1> QED
  BY <1>1, <1>7 DEF M

LEMMA ExpandedIs ==
  ASSUME NEW ds, ThreeTables(ds), ds.samples \in Seq(Sample), NEW B,
         Blocks(ds.samples, B)
  PROVE  LET new == Expanded(ds)
         IN  /\ new = [samples |-> new.samples, locations |-> ds.locations,
                       functions |-> ds.functions]
             /\ new.samples \in Seq(Sample) /\ Len(new.samples) = B[Len(ds.samples)]
             /\ \A m \in 1 .. Len(ds.samples) :
                  \A t \in B[m - 1] + 1 .. B[m] :
                    new.samples[t] = [value |-> 1,
                                      locations |-> ds.samples[m].locations]
<1> DEFINE list == ds.samples
           M == Len(list)
           unit(m) == [list[m] EXCEPT !.value = 1]
           block(m) == [v \in 1 .. list[m].value |-> unit(m)]
           V == Seq(Sample)
           first == << >>
           next == [m \in 1 .. M |-> [q \in V |-> q \o block(m)]]
           body(f) == [s \in 0 .. M |-> IF s = 0 THEN << >> ELSE f[s - 1] \o block(s)]
           upto == CHOOSE f : f = body(f)
           new == [ds EXCEPT !.samples = upto[M]]
<1>1. Expanded(ds) = new
  BY Zenon DEF Expanded
<1>2. M \in Nat
  OBVIOUS
<1>3. ASSUME NEW m \in 1 .. M
      PROVE  /\ unit(m) = [value |-> 1, locations |-> list[m].locations]
             /\ unit(m) \in Sample /\ list[m].value \in Nat
             /\ block(m) \in V /\ Len(block(m)) = list[m].value
             /\ \A v \in 1 .. list[m].value : block(m)[v] = unit(m)
  <2>1. list[m] \in [value : Nat \ {0}, locations : Seq(Nat)]
    <3>1. list[m] \in Sample
      BY ElementOfSeq
    <3> QED
      BY <3>1 DEF Sample
  <2>2. unit(m) = [value |-> 1, locations |-> list[m].locations]
    BY <2>1
  <2>3. unit(m) \in Sample
    BY <2>1, <2>2 DEF Sample
  <2>4. list[m].value \in Nat
    BY <2>1
  <2> DEFINE u == unit(m)
             n == list[m].value
  <2> HIDE DEF u, n
  <2>5. [v \in 1 .. n |-> u] \in V /\ Len([v \in 1 .. n |-> u]) = n
    BY <2>3, <2>4 DEF u, n
  <2> QED
    BY <2>2, <2>3, <2>4, <2>5 DEF u, n
<1> HIDE DEF M, unit
<1>4. first \in V /\ next \in [1 .. M -> [V -> V]]
  <2>1. \A m \in 1 .. M : \A q \in V : q \o block(m) \in V
    <3>1. SUFFICES ASSUME NEW m \in 1 .. M, NEW q \in V
                   PROVE  q \o block(m) \in V
      OBVIOUS
    <3>2. block(m) \in V
      BY <1>3
    <3> HIDE DEF block
    <3> QED
      BY <3>2, ConcatProperties
  <2> HIDE DEF block
  <2> QED
    BY <2>1
<1>5. PICK h \in [0 .. M -> V] : IsIteration(h, M, first, next)
  <2> HIDE DEF V, first, next
  <2> QED
    BY <1>2, <1>4, Iterates
<1> HIDE DEF block
<1>6. h = body(h)
  <2>1. h[0] = << >> /\ \A n \in 1 .. M : h[n] = next[n][h[n - 1]]
    BY <1>5, Zenon DEF IsIteration
  <2>2. \A n \in 1 .. M : n - 1 \in 0 .. M
    BY <1>2
  <2>3. \A n \in 1 .. M : h[n] = h[n - 1] \o block(n)
    <3> HIDE DEF V
    <3> QED
      BY <1>5, <2>1, <2>2
  <2>4. ASSUME NEW n \in 0 .. M
        PROVE  h[n] = IF n = 0 THEN << >> ELSE h[n - 1] \o block(n)
    <3>1. n = 0 \/ n \in 1 .. M
      BY <1>2
    <3> QED
      BY <2>1, <2>3, <3>1
  <2> HIDE DEF V
  <2>5. h = [n \in 0 .. M |-> h[n]]
    BY <1>5
  <2> QED
    BY <2>4, <2>5
<1>7. upto = body(upto)
  <2> HIDE DEF body
  <2> QED
    BY <1>6, Zenon
<1> HIDE DEF upto
<1>8. /\ upto[0] = << >>
      /\ \A s \in 1 .. M : upto[s] = upto[s - 1] \o block(s)
  <2>1. ASSUME NEW s \in 0 .. M
        PROVE  upto[s] = IF s = 0 THEN << >> ELSE upto[s - 1] \o block(s)
    BY <1>7
  <2>2. 0 \in 0 .. M /\ \A s \in 1 .. M : s \in 0 .. M /\ s # 0
    BY <1>2
  <2> QED
    BY <2>1, <2>2
<1> DEFINE S == {s \in 0 .. M :
                   /\ upto[s] \in V /\ Len(upto[s]) = B[s]
                   /\ \A m \in 0 .. s : B[m] <= B[s]
                   /\ \A m \in 1 .. s : \A t \in B[m - 1] + 1 .. B[m] :
                        upto[s][t] = unit(m)}
<1>9. 0 .. M \subseteq S
  <2>1. 0 \in S
    <3>1. << >> \in V /\ Len(<< >>) = 0 /\ B[0] = 0
      BY EmptySeq DEF Blocks
    <3>2. 0 \in 0 .. M
      BY <1>2
    <3> HIDE DEF V
    <3> QED
      BY <1>8, <3>1, <3>2
  <2>2. ASSUME NEW s \in 0 .. M - 1, s \in S
        PROVE  s + 1 \in S
    <3> DEFINE n == list[s + 1].value
    <3>1. s + 1 \in 1 .. M /\ s + 1 \in 0 .. M /\ (s + 1) - 1 = s
      BY <1>2
    <3>2. upto[s + 1] = upto[s] \o block(s + 1)
      BY <1>8, <3>1
    <3>3. B[s + 1] = B[s] + n /\ \A m \in 0 .. M : B[m] \in Nat
      BY <3>1 DEF Blocks, M
    <3>4. /\ upto[s] \in V /\ Len(upto[s]) = B[s]
          /\ \A m \in 0 .. s : B[m] <= B[s]
          /\ \A m \in 1 .. s : \A t \in B[m - 1] + 1 .. B[m] : upto[s][t] = unit(m)
      BY <2>2
    <3>5. /\ block(s + 1) \in V /\ Len(block(s + 1)) = n /\ n \in Nat
          /\ \A v \in 1 .. n : block(s + 1)[v] = unit(s + 1)
      BY <1>3, <3>1
    <3> HIDE DEF n
    <3>9. /\ upto[s + 1] \in V /\ Len(upto[s + 1]) = B[s] + n
          /\ \A t \in 1 .. B[s] : upto[s + 1][t] = upto[s][t]
          /\ \A v \in 1 .. n : upto[s + 1][B[s] + v] = block(s + 1)[v]
      <4> DEFINE q == upto[s]
                 r == block(s + 1)
      <4>1. q \in Seq(Sample) /\ r \in Seq(Sample) /\ Len(q) = B[s] /\ Len(r) = n
        BY <3>4, <3>5
      <4> HIDE DEF q, r
      <4>2. /\ q \o r \in Seq(Sample) /\ Len(q \o r) = Len(q) + Len(r)
            /\ \A i \in 1 .. Len(q) + Len(r) : (q \o r)[i] =
                 IF i <= Len(q) THEN q[i] ELSE r[i - Len(q)]
        BY <4>1, ConcatProperties
      <4>3. Len(q) \in Nat /\ Len(r) \in Nat
        BY <4>1
      <4>4. \A t \in 1 .. B[s] : (q \o r)[t] = q[t]
        BY <4>1, <4>2, <4>3
      <4>5. ASSUME NEW v \in 1 .. n
            PROVE  (q \o r)[B[s] + v] = r[v]
        <5>1. v \in 1 .. Len(r)
          BY <4>1
        <5>2. /\ Len(q) + v \in 1 .. Len(q) + Len(r) /\ ~(Len(q) + v <= Len(q))
              /\ (Len(q) + v) - Len(q) = v
          BY <4>3, <5>1
        <5>3. (q \o r)[Len(q) + v] = r[v]
          BY <4>2, <5>2
        <5> QED
          BY <4>1, <5>3
      <4> QED
        BY <3>2, <4>1, <4>2, <4>4, <4>5 DEF q, r
    <3>6. upto[s + 1] \in V /\ Len(upto[s + 1]) = B[s + 1]
      BY <3>3, <3>9
    <3>7. \A m \in 0 .. s + 1 : B[m] <= B[s + 1]
      <4>1. SUFFICES ASSUME NEW m \in 0 .. s + 1
                     PROVE  B[m] <= B[s + 1]
        OBVIOUS
      <4>2. B[m] \in Nat /\ B[s] \in Nat /\ B[s + 1] \in Nat
        BY <1>2, <3>1, <3>3
      <4>3. CASE m = s + 1
        BY <4>2, <4>3
      <4>4. CASE m # s + 1
        <5>1. m \in 0 .. s
          BY <1>2, <4>4
        <5>2. B[m] <= B[s] /\ n \in Nat /\ B[s + 1] = B[s] + n
          BY <3>3, <3>4, <3>5, <5>1
        <5> QED
          BY <4>2, <5>2
      <4> QED
        BY <4>3, <4>4
    <3>8. ASSUME NEW m \in 1 .. s + 1, NEW t \in B[m - 1] + 1 .. B[m]
          PROVE  upto[s + 1][t] = unit(m)
      <4>0. /\ m \in 0 .. M /\ m - 1 \in 0 .. M /\ s \in 0 .. M
            /\ B[m] \in Nat /\ B[m - 1] \in Nat /\ B[s] \in Nat
        BY <1>2, <3>1, <3>3
      <4>1. CASE m = s + 1
        <5>1. t - B[s] \in 1 .. n /\ t = Len(upto[s]) + (t - B[s])
          BY <3>1, <3>3, <3>4, <3>5, <4>0, <4>1
        <5>2. upto[s + 1][t] = block(s + 1)[t - B[s]]
          <6>1. B[s] + (t - B[s]) = t
            BY <4>0
          <6> QED
            BY <3>9, <5>1, <6>1
        <5> QED
          BY <3>5, <4>1, <5>1, <5>2
      <4>2. CASE m # s + 1
        <5>1. m \in 1 .. s /\ m \in 0 .. s
          BY <3>1, <4>2
        <5>2. B[m] <= B[s]
          BY <3>4, <5>1
        <5>3. t \in 1 .. Len(upto[s])
          BY <3>4, <4>0, <5>2
        <5>4. upto[s + 1][t] = upto[s][t]
          BY <3>4, <3>9, <5>3
        <5> QED
          BY <3>4, <5>1, <5>4
      <4> QED
        BY <4>1, <4>2
    <3> QED
      BY <3>1, <3>6, <3>7, <3>8
  <2> HIDE DEF S
  <2> QED
    BY <1>2, <2>1, <2>2, UpTo
<1>10. M \in S
  BY <1>2, <1>9
<1>11. new = [samples |-> upto[M], locations |-> ds.locations,
              functions |-> ds.functions]
  BY DEF ThreeTables
<1> HIDE DEF new
<1>12. new.samples = upto[M]
  BY <1>11
<1> QED
  BY <1>1, <1>3, <1>10, <1>11, <1>12 DEF M

-----------------------------------------------------------------------------
(* What merging equal stacks does.                                         *)

LEMMA SortedIs ==
  ASSUME NEW N \in Nat, NEW S \in SUBSET (1 .. N)
  PROVE  LET f == Sorted(S)
             k == Cardinality(S)
         IN  /\ k \in Nat /\ f \in [1 .. k -> S]
             /\ \A i, j \in 1 .. k : i < j => f[i] < f[j]
             /\ \A x \in S : \E i \in 1 .. k : f[i] = x
<1> DEFINE Part(n) == S \cap (1 .. n)
           Sorts(f, n) == /\ f \in [1 .. Cardinality(Part(n)) -> Part(n)]
                          /\ \A i, j \in 1 .. Cardinality(Part(n)) : i < j => f[i] < f[j]
           T == {n \in 0 .. N : \E f : Sorts(f, n)}
<1>1. \A n \in 0 .. N : IsFiniteSet(Part(n)) /\ Cardinality(Part(n)) \in Nat
  <2>1. \A n \in 0 .. N : IsFiniteSet(1 .. n)
    BY FS_Interval
  <2>2. \A n \in 0 .. N : IsFiniteSet(Part(n))
    BY <2>1, FS_Intersection
  <2> QED
    BY <2>2, FS_CardinalityType
<1>2. 0 \in T
  <2>1. Part(0) = {} /\ Cardinality(Part(0)) = 0
    BY FS_EmptySet
  <2>2. Sorts(<< >>, 0)
    BY <2>1
  <2> HIDE DEF Sorts
  <2> QED
    BY <2>2
<1>3. ASSUME NEW n \in 0 .. N - 1, n \in T
      PROVE  n + 1 \in T
  <2> DEFINE c == Cardinality(Part(n))
  <2>1. PICK f : Sorts(f, n)
    BY <1>3
  <2>2. c \in Nat /\ IsFiniteSet(Part(n))
    BY <1>1
  <2>3. CASE n + 1 \notin S
    <3>1. Part(n + 1) = Part(n)
      BY <2>3
    <3>2. Sorts(f, n + 1)
      <4> HIDE DEF Part
      <4> QED
        BY <2>1, <3>1
    <3>3. n + 1 \in 0 .. N
      OBVIOUS
    <3> HIDE DEF Sorts
    <3> QED
      BY <3>2, <3>3
  <2>4. CASE n + 1 \in S
    <3> DEFINE g == [i \in 1 .. c + 1 |-> IF i = c + 1 THEN n + 1 ELSE f[i]]
    <3>1. Part(n + 1) = Part(n) \cup {n + 1} /\ n + 1 \notin Part(n)
      BY <2>4
    <3>2. Cardinality(Part(n + 1)) = c + 1
      <4> HIDE DEF Part
      <4> QED
        BY <2>2, <3>1, FS_AddElement
    <3>3. \A i \in 1 .. c : f[i] \in Part(n)
      <4> HIDE DEF Part
      <4> QED
        BY <2>1
    <3>4. g \in [1 .. c + 1 -> Part(n + 1)]
      <4> HIDE DEF Part
      <4> QED
        BY <2>2, <3>1, <3>3
    <3>5. ASSUME NEW i \in 1 .. c + 1, NEW j \in 1 .. c + 1, i < j
          PROVE  g[i] < g[j]
      <4> HIDE DEF c
      <4>1. i \in 1 .. c /\ (j \in 1 .. c \/ j = c + 1)
        BY <2>2, <3>5
      <4>2. f[i] \in 1 .. n
        BY <3>3, <4>1
      <4>3. CASE j = c + 1
        BY <2>2, <4>1, <4>2, <4>3
      <4>4. CASE j \in 1 .. c
        <5>1. f[i] < f[j]
          BY <2>1, <3>5, <4>1, <4>4 DEF c
        <5> QED
          BY <2>2, <4>1, <4>4, <5>1
      <4> QED
        BY <4>1, <4>3, <4>4
    <3>6. Sorts(g, n + 1)
      <4> HIDE DEF Part, g, c
      <4> QED
        BY <3>2, <3>4, <3>5
    <3> HIDE DEF Sorts, g
    <3> QED
      BY <3>6
  <2> QED
    BY <2>3, <2>4
<1>4. 0 .. N \subseteq T
  <2> HIDE DEF T
  <2> QED
    BY <1>2, <1>3, UpTo
<1>5. PICK f : Sorts(f, N)
  <2>1. N \in T
    <3>1. N \in 0 .. N
      OBVIOUS
    <3> HIDE DEF T
    <3> QED
      BY <1>4, <3>1
  <2> HIDE DEF Sorts
  <2> QED
    BY <2>1
<1>6. Part(N) = S
  OBVIOUS
<1> DEFINE k == Cardinality(S)
           h == Sorted(S)
<1>7. k \in Nat /\ IsFiniteSet(S)
  <2>1. N \in 0 .. N
    OBVIOUS
  <2> HIDE DEF Part
  <2> QED
    BY <1>1, <1>6, <2>1
<1>8. \E g \in [1 .. k -> S] : \A i, j \in DOMAIN g : i < j => g[i] < g[j]
  <2> HIDE DEF Part
  <2>1. f \in [1 .. k -> S] /\ \A i, j \in 1 .. k : i < j => f[i] < f[j]
    BY <1>5, <1>6
  <2> QED
    BY <2>1
<1>9. h \in [1 .. k -> S] /\ \A i, j \in DOMAIN h : i < j => h[i] < h[j]
  <2>1. h = CHOOSE g \in [1 .. k -> S] : \A i, j \in DOMAIN g : i < j => g[i] < g[j]
    BY Zenon DEF Sorted
  <2> HIDE DEF h, k
  <2> QED
    BY <1>8, <2>1
<1>10. h \in Surjection(1 .. k, S)
  <2> HIDE DEF h, k
  <2>1. \A i, j \in 1 .. k : h[i] = h[j] => i = j
    <3>1. SUFFICES ASSUME NEW i \in 1 .. k, NEW j \in 1 .. k, i < j
                   PROVE  h[i] # h[j]
      BY <1>7
    <3>2. h[i] < h[j] /\ h[i] \in 1 .. N /\ h[j] \in 1 .. N
      BY <1>9, <3>1
    <3> QED
      BY <3>2
  <2>2. h \in Injection(1 .. k, S)
    BY <1>9, <2>1 DEF Injection, IsInjective
  <2>3. Cardinality(1 .. k) = k
    BY <1>7, FS_Interval
  <2> QED
    BY <1>7, <2>2, <2>3, FS_Injection DEF k
<1> HIDE DEF h, k
<1>11. \A x \in S : \E i \in 1 .. k : h[i] = x
  BY <1>10 DEF Surjection
<1> QED
  BY <1>7, <1>9, <1>11 DEF h, k

LEMMA DownClosed ==
  ASSUME NEW N \in Nat, NEW S \in SUBSET (1 .. N),
         \A v \in S : \A u \in 1 .. v : u \in S
  PROVE  S = 1 .. Cardinality(S)
<1>1. CASE S = {}
  BY <1>1, FS_EmptySet
<1>2. CASE S # {}
  <2> DEFINE x == Largest(S)
  <2>3. x \in Nat /\ x \in S /\ \A i \in S : i <= x
    BY <1>2, LargestIsLargest
  <2>4. S = 1 .. x
    <3>1. \A i \in S : i \in 1 .. x
      BY <2>3
    <3> HIDE DEF x
    <3> QED
      BY <2>3, <3>1
  <2> HIDE DEF x
  <2> QED
    BY <2>3, <2>4, FS_Interval
<1> QED
  BY <1>1, <1>2

\* The stacks e, in blocks of equal ones: kept[m] up to place B[m].
Groups(kept, B, e) ==
  /\ kept \in Seq(Stack) /\ e \in Seq(Stack)
  /\ B \in [0 .. Len(kept) -> Nat] /\ B[0] = 0 /\ B[Len(kept)] = Len(e)
  /\ \A m \in 1 .. Len(kept) :
       /\ B[m - 1] < B[m]
       /\ \A t \in B[m - 1] + 1 .. B[m] : e[t] = kept[m]

LEMMA GroupsGrow ==
  ASSUME NEW kept, NEW B, NEW e, Groups(kept, B, e), NEW m \in 1 .. Len(kept)
  PROVE  B[m] <= B[Len(kept)]
<1> DEFINE k == Len(kept)
           S == {d \in 0 .. k - m : B[m] <= B[m + d]}
<1>1. /\ k \in Nat /\ B \in [0 .. k -> Nat] /\ m \in 1 .. k
      /\ \A i \in 1 .. k : B[i - 1] < B[i]
  BY DEF Groups
<1> HIDE DEF k
<1>2. 0 .. k - m \subseteq S
  <2>1. 0 \in S
    <3>1. B[m] \in Nat /\ m + 0 = m
      BY <1>1
    <3> QED
      BY <1>1, <3>1
  <2>2. ASSUME NEW d \in 0 .. k - m - 1, d \in S
        PROVE  d + 1 \in S
    <3>1. /\ m + d \in 0 .. k /\ m + (d + 1) \in 1 .. k /\ m \in 0 .. k
          /\ m + (d + 1) - 1 = m + d
      BY <1>1
    <3>2. B[m + d] < B[m + (d + 1)]
      BY <1>1, <3>1
    <3>3. B[m] \in Nat /\ B[m + d] \in Nat /\ B[m + (d + 1)] \in Nat
      BY <1>1, <3>1
    <3>4. B[m] <= B[m + (d + 1)]
      BY <2>2, <3>2, <3>3
    <3> QED
      BY <1>1, <3>4
  <2>3. k - m \in Nat
    BY <1>1
  <2> HIDE DEF S
  <2> QED
    BY <2>1, <2>2, <2>3, UpTo
<1>3. k - m \in S
  <2>1. k - m \in 0 .. k - m
    BY <1>1
  <2> HIDE DEF S
  <2> QED
    BY <1>2, <2>1
<1>4. m + (k - m) = k
  BY <1>1
<1> QED
  BY <1>3, <1>4 DEF k

\* The same stacks, as often, but perhaps in another order.
Rearranged(stacks, e) ==
  /\ Len(e) = Len(stacks)
  /\ \A t \in 1 .. Len(e) :
       Cardinality({u \in 1 .. Len(e) : e[u] = e[t]})
         = Cardinality({u \in 1 .. Len(e) : stacks[u] = e[t]})

Adjacent(stacks) ==
  \A t, u, v \in 1 .. Len(stacks) :
    t < u /\ u < v /\ stacks[t] = stacks[v] => stacks[u] = stacks[t]

LEMMA InBlock ==
  ASSUME NEW k \in Nat, NEW B \in [0 .. k -> Nat], B[0] = 0, NEW t \in 1 .. B[k]
  PROVE  \E m \in 1 .. k : t \in B[m - 1] + 1 .. B[m]
<1> DEFINE T == {m \in 0 .. k : t <= B[m]}
<1>1. T \in SUBSET Nat /\ k \in T
  <2>1. k \in 0 .. k /\ B[k] \in Nat /\ t <= B[k]
    OBVIOUS
  <2> QED
    BY <2>1
<1>2. PICK m \in T : \A j \in T : m <= j
  <2> HIDE DEF T
  <2> QED
    BY <1>1, LeastExists
<1>3. m \in 0 .. k /\ t <= B[m] /\ t \in Nat \ {0}
  BY <1>2
<1>4. m \in 1 .. k /\ m - 1 \in 0 .. k /\ ~(m <= m - 1)
  BY <1>3
<1>5. ~(t <= B[m - 1])
  BY <1>2, <1>4
<1>6. B[m - 1] \in Nat /\ B[m] \in Nat
  BY <1>4
<1>7. t \in B[m - 1] + 1 .. B[m]
  BY <1>3, <1>5, <1>6
<1> QED
  BY <1>4, <1>7

LEMMA MergeIs ==
  ASSUME NEW stacks \in Seq(Stack)
  PROVE  \E kept, B, e :
           /\ Groups(kept, B, e) /\ Rearranged(stacks, e)
           /\ Adjacent(stacks) => e = stacks
           /\ Merge(stacks) = Profile(kept, [m \in 1 .. Len(kept) |-> B[m] - B[m - 1]])
<1> DEFINE n == Len(stacks)
           F == Firsts(stacks)
           k == Cardinality(F)
           firsts == Sorted(F)
           kept == [m \in 1 .. k |-> stacks[firsts[m]]]
           Occ(m) == {t \in 1 .. n : stacks[t] = kept[m]}
           Seen(m) == {t \in 1 .. n : \E j \in 1 .. m : stacks[t] = kept[j]}
           B == [m \in 0 .. k |-> Cardinality(Seen(m))]
<1>1. n \in Nat /\ \A t \in 1 .. n : stacks[t] \in Stack
  OBVIOUS
<1>2. F \in SUBSET (1 .. n)
      /\ \A s \in 1 .. n : s \in F <=> \A t \in 1 .. s - 1 : stacks[t] # stacks[s]
  BY DEF Firsts
<1>3. /\ k \in Nat /\ firsts \in [1 .. k -> F]
      /\ \A i, j \in 1 .. k : i < j => firsts[i] < firsts[j]
      /\ \A x \in F : \E i \in 1 .. k : firsts[i] = x
  <2> HIDE DEF F, n
  <2> QED
    BY <1>1, <1>2, SortedIs
<1> HIDE DEF n, F, k, firsts
<1>4. /\ \A m \in 1 .. k : /\ kept[m] = stacks[firsts[m]] /\ kept[m] \in Stack
                           /\ firsts[m] \in 1 .. n /\ firsts[m] \in F
      /\ kept \in Seq(Stack) /\ Len(kept) = k
  <2>1. ASSUME NEW m \in 1 .. k
        PROVE  /\ kept[m] = stacks[firsts[m]] /\ kept[m] \in Stack
               /\ firsts[m] \in 1 .. n /\ firsts[m] \in F
    BY <1>1, <1>2, <1>3
  <2>2. kept = [m \in 1 .. k |-> kept[m]]
    OBVIOUS
  <2> HIDE DEF kept
  <2> QED
    BY <1>3, <2>1, <2>2
<1> HIDE DEF kept
\* The kept stacks are those there are, each once.
<1>5. ASSUME NEW i \in 1 .. k, NEW j \in 1 .. k, i < j
      PROVE  kept[i] # kept[j]
  <2>1. firsts[i] < firsts[j] /\ firsts[i] \in 1 .. n /\ firsts[j] \in 1 .. n
    BY <1>3, <1>4, <1>5
  <2>2. firsts[i] \in 1 .. firsts[j] - 1
    BY <1>1, <2>1
  <2> QED
    BY <1>2, <1>4, <2>2
<1>6. \A i, j \in 1 .. k : kept[i] = kept[j] => i = j
  <2>1. SUFFICES ASSUME NEW i \in 1 .. k, NEW j \in 1 .. k, kept[i] = kept[j], i # j
                 PROVE  FALSE
    OBVIOUS
  <2>2. i < j \/ j < i
    BY <1>3, <2>1
  <2> QED
    BY <1>5, <2>1, <2>2
<1>7. ASSUME NEW t \in 1 .. n
      PROVE  \E f \in F : f <= t /\ stacks[f] = stacks[t]
  <2> DEFINE T == {s \in 1 .. n : stacks[s] = stacks[t]}
  <2>1. PICK f \in T : \A s \in T : f <= s
    <3>1. T \in SUBSET Nat /\ t \in T
      BY <1>1
    <3> HIDE DEF T
    <3> QED
      BY <3>1, LeastExists
  <2>2. f \in 1 .. n /\ stacks[f] = stacks[t] /\ f <= t
    BY <2>1
  <2>3. \A s \in 1 .. f - 1 : stacks[s] # stacks[f]
    <3>1. SUFFICES ASSUME NEW s \in 1 .. f - 1, stacks[s] = stacks[f]
                   PROVE  FALSE
      OBVIOUS
    <3>2. s \in T /\ ~(f <= s)
      BY <1>1, <2>2, <3>1
    <3> QED
      BY <2>1, <3>2
  <2> QED
    BY <1>2, <2>2, <2>3
<1>8. ASSUME NEW t \in 1 .. n
      PROVE  \E m \in 1 .. k : stacks[t] = kept[m]
  <2>1. PICK f \in F : stacks[f] = stacks[t]
    BY <1>7
  <2>2. PICK i \in 1 .. k : firsts[i] = f
    BY <1>3
  <2> QED
    BY <1>4, <2>1, <2>2
\* What block m has and what the blocks up to it have.
<1>9. \A m : /\ IsFiniteSet(Occ(m)) /\ Cardinality(Occ(m)) \in Nat
             /\ IsFiniteSet(Seen(m)) /\ Cardinality(Seen(m)) \in Nat
  <2>1. IsFiniteSet(1 .. n)
    BY <1>1, FS_Interval
  <2>2. \A m : Occ(m) \in SUBSET (1 .. n) /\ Seen(m) \in SUBSET (1 .. n)
    OBVIOUS
  <2> HIDE DEF Occ, Seen
  <2>3. \A m : IsFiniteSet(Occ(m)) /\ IsFiniteSet(Seen(m))
    BY <2>1, <2>2, FS_Subset
  <2> QED
    BY <2>3, FS_CardinalityType
<1>10. ASSUME NEW m \in 1 .. k
       PROVE  /\ Seen(m) = Seen(m - 1) \cup Occ(m)
              /\ Seen(m - 1) \cap Occ(m) = {}
              /\ firsts[m] \in Occ(m)
  <2>1. \A j \in 1 .. m : j \in 1 .. k /\ (j = m \/ j \in 1 .. m - 1)
    BY <1>3
  <2>2. \A j \in 1 .. m - 1 : j \in 1 .. k /\ j \in 1 .. m /\ j # m
    BY <1>3
  <2>3. m \in 1 .. m
    BY <1>3
  <2>4. Seen(m) = Seen(m - 1) \cup Occ(m)
    BY <2>1, <2>2, <2>3
  <2>5. Seen(m - 1) \cap Occ(m) = {}
    BY <1>6, <2>2
  <2> QED
    BY <1>4, <2>4, <2>5
<1>11. /\ B \in [0 .. k -> Nat] /\ B[0] = 0 /\ B[k] = n
       /\ \A m \in 1 .. k : /\ m - 1 \in 0 .. k /\ m \in 0 .. k
                            /\ B[m] - B[m - 1] = Cardinality(Occ(m)) /\ B[m - 1] < B[m]
  <2>1. B \in [0 .. k -> Nat]
    <3> HIDE DEF Seen
    <3> QED
      BY <1>9
  <2>2. 0 \in 0 .. k /\ k \in 0 .. k /\ \A m \in 1 .. k : m - 1 \in 0 .. k /\ m \in 0 .. k
    BY <1>3
  <2>3. B[0] = 0
    <3>1. Seen(0) = {}
      OBVIOUS
    <3> HIDE DEF Seen
    <3> QED
      BY <2>2, <3>1, FS_EmptySet
  <2>4. B[k] = n
    <3>1. Seen(k) = 1 .. n
      BY <1>8
    <3>2. Cardinality(1 .. n) = n
      BY <1>1, FS_Interval
    <3> HIDE DEF Seen
    <3> QED
      BY <2>2, <3>1, <3>2
  <2>5. ASSUME NEW m \in 1 .. k
        PROVE  B[m] - B[m - 1] = Cardinality(Occ(m)) /\ B[m - 1] < B[m]
    <3>1. /\ Seen(m) = Seen(m - 1) \cup Occ(m) /\ Seen(m - 1) \cap Occ(m) = {}
          /\ Occ(m) # {}
      <4> HIDE DEF Occ, Seen
      <4> QED
        BY <1>10
    <3>2. B[m] = Cardinality(Seen(m)) /\ B[m - 1] = Cardinality(Seen(m - 1))
      <4> HIDE DEF Seen
      <4> QED
        BY <2>2
    <3> HIDE DEF Occ, Seen, B
    <3>3. Cardinality(Seen(m)) = Cardinality(Seen(m - 1)) + Cardinality(Occ(m)) - 0
      <4>1. Cardinality({}) = 0
        BY FS_EmptySet
      <4> QED
        BY <1>9, <3>1, <4>1, FS_Union
    <3>4. Cardinality(Occ(m)) # 0
      BY <1>9, <3>1, FS_EmptySet
    <3>5. Cardinality(Seen(m - 1)) \in Nat /\ Cardinality(Occ(m)) \in Nat
      BY <1>9
    <3> QED
      BY <3>2, <3>3, <3>4, <3>5
  <2> HIDE DEF B, Occ
  <2> QED
    BY <2>1, <2>2, <2>3, <2>4, <2>5
<1>12. \A m \in 0 .. k : B[m] = Cardinality(Seen(m)) /\ B[m] \in Nat
  <2> HIDE DEF Seen
  <2> QED
    BY <1>9
<1> HIDE DEF B
<1>13. ASSUME NEW i \in 0 .. k, NEW j \in 0 .. k, i <= j
       PROVE  B[i] <= B[j] /\ Seen(i) \subseteq Seen(j)
  <2>1. \A m \in 1 .. i : m \in 1 .. j
    BY <1>3, <1>13
  <2>2. Seen(i) \subseteq Seen(j)
    BY <2>1
  <2> HIDE DEF Seen
  <2>3. Seen(i) \in SUBSET Seen(j) /\ IsFiniteSet(Seen(j))
    BY <1>9, <2>2
  <2>4. Cardinality(Seen(i)) <= Cardinality(Seen(j))
    BY <2>3, FS_Subset
  <2> QED
    BY <1>12, <2>2, <2>4
\* Every place is in one block.
<1> DEFINE Block(m) == B[m - 1] + 1 .. B[m]
           at(t) == CHOOSE m \in 1 .. k : t \in Block(m)
           e == [t \in 1 .. n |-> kept[at(t)]]
<1>14. ASSUME NEW t \in 1 .. n
       PROVE  \E m \in 1 .. k : t \in Block(m)
  BY <1>3, <1>11, InBlock
<1>15. ASSUME NEW i \in 1 .. k, NEW j \in 1 .. k, NEW t \in Block(i), t \in Block(j), i < j
       PROVE  FALSE
  <2>1. /\ i \in 0 .. k /\ j - 1 \in 0 .. k /\ i <= j - 1 /\ i - 1 \in 0 .. k
        /\ j \in 0 .. k
    BY <1>3, <1>15
  <2>2. B[i] <= B[j - 1]
    BY <1>13, <2>1
  <2>3. B[i] \in Nat /\ B[j - 1] \in Nat /\ B[i - 1] \in Nat /\ B[j] \in Nat
    BY <1>12, <2>1
  <2> QED
    BY <1>15, <2>2, <2>3
<1>16. ASSUME NEW m \in 1 .. k, NEW t \in Block(m)
       PROVE  t \in 1 .. n /\ e[t] = kept[m]
  <2>1. B[m - 1] \in Nat /\ B[m] \in Nat /\ B[m] <= n
    <3>1. m \in 0 .. k /\ m - 1 \in 0 .. k /\ k \in 0 .. k /\ m <= k
      BY <1>3
    <3>2. B[m] <= B[k]
      BY <1>13, <3>1
    <3> QED
      BY <1>11, <1>12, <3>1, <3>2
  <2>2. t \in 1 .. n
    BY <1>1, <2>1
  <2> HIDE DEF Block
  <2>3. at(t) \in 1 .. k /\ t \in Block(at(t))
    BY <1>14, <2>2
  <2> HIDE DEF at
  <2>4. at(t) = m
    <3>1. at(t) \in Int /\ m \in Int
      BY <1>3, <2>3
    <3>2. ~(at(t) < m) /\ ~(m < at(t))
      BY <1>15, <2>3
    <3> QED
      BY <3>1, <3>2
  <2> QED
    BY <2>2, <2>4
<1>17. e \in Seq(Stack) /\ Len(e) = n
  <2>1. \A t \in 1 .. n : e[t] \in Stack
    <3>1. SUFFICES ASSUME NEW t \in 1 .. n
                   PROVE  e[t] \in Stack
      OBVIOUS
    <3>2. PICK m \in 1 .. k : t \in Block(m)
      BY <1>14
    <3>3. e[t] = kept[m]
      BY <1>16, <3>2
    <3> QED
      BY <1>4, <3>3
  <2>2. e = [t \in 1 .. n |-> e[t]]
    OBVIOUS
  <2> HIDE DEF e
  <2> QED
    BY <1>1, <2>1, <2>2
<1> HIDE DEF e
<1>18. Groups(kept, B, e)
  BY <1>4, <1>11, <1>16, <1>17 DEF Groups
<1>19. Rearranged(stacks, e)
  <2>1. SUFFICES ASSUME NEW t \in 1 .. n
                 PROVE  Cardinality({u \in 1 .. n : e[u] = e[t]})
                          = Cardinality({u \in 1 .. n : stacks[u] = e[t]})
    BY <1>17 DEF Rearranged, n
  <2>2. PICK m \in 1 .. k : t \in Block(m)
    BY <1>14
  <2>3. e[t] = kept[m]
    BY <1>16, <2>2
  <2>4. {u \in 1 .. n : e[u] = e[t]} = Block(m)
    <3>1. ASSUME NEW u \in 1 .. n, e[u] = kept[m]
          PROVE  u \in Block(m)
      <4>1. PICK j \in 1 .. k : u \in Block(j)
        BY <1>14
      <4>2. e[u] = kept[j]
        BY <1>16, <4>1
      <4>3. j = m
        BY <1>6, <3>1, <4>2
      <4> QED
        BY <4>1, <4>3
    <3> HIDE DEF Block
    <3> QED
      BY <1>16, <2>3, <3>1
  <2>5. {u \in 1 .. n : stacks[u] = e[t]} = Occ(m)
    BY <2>3
  <2>6. Cardinality(Block(m)) = B[m] - B[m - 1]
    <3>1. B[m - 1] \in Nat /\ B[m] \in Nat /\ B[m - 1] < B[m]
      BY <1>11, <1>12
    <3>2. B[m - 1] + 1 \in Int /\ ~(B[m - 1] + 1 > B[m])
          /\ B[m] - (B[m - 1] + 1) + 1 = B[m] - B[m - 1]
      BY <3>1
    <3> DEFINE a == B[m - 1] + 1
               b == B[m]
    <3>3. a \in Int /\ b \in Int /\ ~(a > b) /\ b - a + 1 = B[m] - B[m - 1]
      BY <3>1, <3>2
    <3> HIDE DEF a, b
    <3>4. Cardinality(a .. b) = B[m] - B[m - 1]
      BY <3>3, FS_Interval
    <3> QED
      BY <3>4 DEF a, b
  <2> HIDE DEF Block, Occ
  <2> QED
    BY <1>11, <2>4, <2>5, <2>6
<1>20. Merge(stacks) = Profile(kept, [m \in 1 .. Len(kept) |-> B[m] - B[m - 1]])
  <2> DEFINE values == [m \in 1 .. k |-> Cardinality(Occ(m))]
  <2>1. DOMAIN firsts = 1 .. k /\ DOMAIN stacks = 1 .. n
    BY <1>3 DEF n
  <2>2. Merge(stacks)
          = Profile([m \in DOMAIN firsts |-> stacks[firsts[m]]],
                    [m \in DOMAIN firsts |->
                       Cardinality(Occurrences(stacks, stacks[firsts[m]]))])
    BY Zenon DEF Merge, firsts, F
  <2>3. \A m \in 1 .. k : Occurrences(stacks, stacks[firsts[m]]) = Occ(m)
    BY <1>4, <2>1 DEF Occurrences
  <2>4. [m \in DOMAIN firsts |-> Cardinality(Occurrences(stacks, stacks[firsts[m]]))]
          = values
    <3> HIDE DEF Occ
    <3> QED
      BY <2>1, <2>3
  <2>5. values = [m \in 1 .. Len(kept) |-> B[m] - B[m - 1]]
    <3> HIDE DEF Occ
    <3> QED
      BY <1>4, <1>11
  <2>6. [m \in DOMAIN firsts |-> stacks[firsts[m]]] = kept
    BY <2>1 DEF kept
  <2> HIDE DEF values
  <2> QED
    BY <2>2, <2>4, <2>5, <2>6
\* If equal stacks are adjacent, each block is where its stacks were.
<1>21. ASSUME Adjacent(stacks)
       PROVE  e = stacks
  <2> DEFINE T == {m \in 0 .. k : \A v \in Seen(m) : \A u \in 1 .. v : u \in Seen(m)}
  <2>1. 0 \in T
    BY <1>3
  <2>2. ASSUME NEW m \in 0 .. k - 1, m \in T
        PROVE  m + 1 \in T
    <3> DEFINE f == firsts[m + 1]
    <3>1. /\ m + 1 \in 1 .. k /\ m + 1 \in 0 .. k /\ (m + 1) - 1 = m
          /\ m \in 0 .. k
      BY <1>3
    <3>2. /\ Seen(m + 1) = Seen(m) \cup Occ(m + 1)
          /\ Seen(m) \cap Occ(m + 1) = {} /\ f \in Occ(m + 1)
      <4> HIDE DEF Seen, Occ
      <4> QED
        BY <1>10, <3>1
    <3>3. f \in 1 .. n /\ stacks[f] = kept[m + 1] /\ f \in F
      BY <1>4, <3>1
    <3>4. Seen(m) \subseteq 1 .. n /\ \A v \in Seen(m) : \A u \in 1 .. v : u \in Seen(m)
      BY <2>2
    \* All that comes before the first of the next block has been seen.
    <3>5. ASSUME NEW g \in 1 .. f - 1
          PROVE  g \in Seen(m)
      <4>1. g \in 1 .. n
        BY <1>1, <3>3
      <4>2. PICK h \in F : h <= g /\ stacks[h] = stacks[g]
        BY <1>7, <4>1
      <4>3. PICK j \in 1 .. k : firsts[j] = h
        BY <1>3
      <4>4. ~(j >= m + 1)
        <5>1. j = m + 1 => firsts[j] = f
          OBVIOUS
        <5>2. m + 1 < j => f < firsts[j]
          BY <1>3, <3>1
        <5>3. h \in Int /\ f \in Int /\ h < f
          BY <1>1, <1>2, <3>3, <4>1, <4>2
        <5> HIDE DEF f
        <5> QED
          BY <1>3, <3>1, <4>3, <5>1, <5>2, <5>3
      <4>5. j \in 1 .. m
        BY <1>3, <3>1, <4>4
      <4> QED
        BY <1>4, <4>1, <4>2, <4>3, <4>5
    <3>6. ASSUME NEW v \in Seen(m + 1), NEW u \in 1 .. v
          PROVE  u \in Seen(m + 1)
      <4>1. CASE v \in Seen(m)
        BY <3>2, <3>4, <4>1
      <4>2. CASE v \in Occ(m + 1)
        <5>1. v \in 1 .. n /\ stacks[v] = stacks[f]
          BY <3>3, <4>2
        <5>2. u \in 1 .. n
          BY <1>1, <5>1
        <5>3. CASE u < f
          <6>1. u \in 1 .. f - 1
            BY <1>1, <3>3, <5>2, <5>3
          <6> QED
            BY <3>2, <3>5, <6>1
        <5>4. CASE u = f \/ u = v
          BY <3>2, <4>2, <5>4
        <5>5. CASE f < u /\ u < v
          <6>1. stacks[u] = stacks[f]
            BY <1>21, <3>3, <5>1, <5>2, <5>5 DEF Adjacent, n
          <6>2. u \in Occ(m + 1)
            BY <3>3, <5>2, <6>1
          <6> QED
            BY <3>2, <6>2
        <5> QED
          BY <1>1, <3>3, <5>1, <5>2, <5>3, <5>4, <5>5
      <4> QED
        BY <3>2, <4>1, <4>2
    <3> HIDE DEF Seen
    <3> QED
      BY <3>1, <3>6
  <2>3. 0 .. k \subseteq T
    <3> HIDE DEF T
    <3> QED
      BY <1>3, <2>1, <2>2, UpTo
  <2>4. ASSUME NEW m \in 0 .. k
        PROVE  Seen(m) = 1 .. B[m]
    <3>1. Seen(m) \in SUBSET (1 .. n)
      OBVIOUS
    <3>2. \A v \in Seen(m) : \A u \in 1 .. v : u \in Seen(m)
      <4>1. m \in T
        BY <2>3
      <4> HIDE DEF Seen
      <4> QED
        BY <4>1
    <3> HIDE DEF Seen
    <3> QED
      BY <1>1, <1>12, <3>1, <3>2, DownClosed
  <2>5. ASSUME NEW t \in 1 .. n
        PROVE  e[t] = stacks[t]
    <3>1. PICK m \in 1 .. k : t \in Block(m)
      BY <1>14
    <3>2. e[t] = kept[m]
      BY <1>16, <3>1
    <3>3. m \in 0 .. k /\ m - 1 \in 0 .. k
      BY <1>3
    <3>4. B[m] \in Nat /\ B[m - 1] \in Nat
      BY <1>12, <3>3
    <3>5. t \in 1 .. B[m] /\ t \notin 1 .. B[m - 1]
      BY <3>1, <3>4
    <3>6. t \in Seen(m) /\ t \notin Seen(m - 1)
      <4> HIDE DEF Seen
      <4> QED
        BY <2>4, <3>3, <3>5
    <3>7. t \in Occ(m)
      <4> HIDE DEF Seen, Occ
      <4> QED
        BY <1>10, <3>6
    <3> QED
      BY <3>2, <3>7
  <2> QED
    BY <1>17, <2>5 DEF n
<1> QED
  BY <1>18, <1>19, <1>20, <1>21

\* The samples of the profile are the blocks of e.
Holds(ds, e) ==
  \E kept, B :
    /\ Groups(kept, B, e) /\ Carries(ds, kept)
    /\ \A m \in 1 .. Len(kept) : ds.samples[m].value = B[m] - B[m - 1]

LEMMA HoldsBlocks ==
  ASSUME NEW ds, NEW e, NEW kept, NEW B, Groups(kept, B, e), Carries(ds, kept),
         \A m \in 1 .. Len(kept) : ds.samples[m].value = B[m] - B[m - 1]
  PROVE  /\ Blocks(ds.samples, B) /\ Len(ds.samples) = Len(kept)
         /\ Len(kept) \in Nat /\ ds.samples \in Seq(Sample)
<1>1. /\ Len(ds.samples) = Len(kept) /\ ds.samples \in Seq(Sample)
      /\ B \in [0 .. Len(kept) -> Nat] /\ B[0] = 0 /\ Len(kept) \in Nat
  BY DEF Groups, Carries
<1>2. ASSUME NEW m \in 1 .. Len(kept)
      PROVE  B[m] = B[m - 1] + ds.samples[m].value
  <2>1. B[m] \in Nat /\ B[m - 1] \in Nat
    <3>1. m \in 0 .. Len(kept) /\ m - 1 \in 0 .. Len(kept)
      BY <1>1
    <3> QED
      BY <1>1, <3>1
  <2> QED
    BY <2>1
<1> QED
  BY <1>1, <1>2 DEF Blocks

LEMMA SeparateHolds ==
  ASSUME NEW stacks \in Seq(Stack)
  PROVE  /\ Tables(Separate(stacks)) /\ Carries(Separate(stacks), stacks)
         /\ Holds(Separate(stacks), stacks) /\ Rearranged(stacks, stacks)
         /\ Used(Separate(stacks))
         /\ \A s \in 1 .. Len(stacks) : Separate(stacks).samples[s].value = 1
<1> DEFINE n == Len(stacks)
           ds == Separate(stacks)
           values == [s \in 1 .. n |-> 1]
           B == [m \in 0 .. n |-> m]
<1>1. n \in Nat /\ DOMAIN stacks = 1 .. n /\ values \in [1 .. n -> Nat \ {0}]
  OBVIOUS
<1>2. ds = Profile(stacks, values)
  BY <1>1 DEF Separate
<1>3. /\ Tables(ds) /\ Carries(ds, stacks) /\ Used(ds)
      /\ \A s \in 1 .. n : ds.samples[s].value = 1
  <2> DEFINE v == values
  <2>1. v \in [1 .. Len(stacks) -> Nat \ {0}] /\ \A s \in 1 .. n : v[s] = 1
    BY <1>1
  <2> HIDE DEF v, ds
  <2> QED
    BY <1>2, <2>1, ProfileCarries DEF v
<1> HIDE DEF ds
<1>4. Groups(stacks, B, stacks)
  <2>1. /\ B \in [0 .. n -> Nat] /\ B[0] = 0 /\ B[n] = n
        /\ \A m \in 1 .. n : B[m - 1] = m - 1 /\ B[m] = m
    BY <1>1
  <2>2. \A m \in 1 .. n : /\ m - 1 < m
                          /\ \A t \in (m - 1) + 1 .. m : stacks[t] = stacks[m]
    BY <1>1
  <2> HIDE DEF B
  <2> QED
    BY <2>1, <2>2 DEF Groups
<1>5. \A m \in 1 .. n : B[m] - B[m - 1] = 1
  BY <1>1
<1>6. Holds(ds, stacks)
  <2> HIDE DEF B
  <2> QED
    BY <1>3, <1>4, <1>5 DEF Holds
<1>7. Rearranged(stacks, stacks)
  BY DEF Rearranged
<1> QED
  BY <1>3, <1>6, <1>7 DEF ds

LEMMA MergeHolds ==
  ASSUME NEW stacks \in Seq(Stack)
  PROVE  \E e : /\ Tables(Merge(stacks)) /\ Holds(Merge(stacks), e)
                /\ Used(Merge(stacks))
                /\ e \in Seq(Stack) /\ Rearranged(stacks, e)
                /\ Adjacent(stacks) => e = stacks
<1>1. PICK kept, B, e :
        /\ Groups(kept, B, e) /\ Rearranged(stacks, e)
        /\ Adjacent(stacks) => e = stacks
        /\ Merge(stacks) = Profile(kept, [m \in 1 .. Len(kept) |-> B[m] - B[m - 1]])
  BY MergeIs
<1> DEFINE values == [m \in 1 .. Len(kept) |-> B[m] - B[m - 1]]
<1>2. values \in [1 .. Len(kept) -> Nat \ {0}] /\ kept \in Seq(Stack) /\ e \in Seq(Stack)
  <2>1. /\ kept \in Seq(Stack) /\ e \in Seq(Stack) /\ B \in [0 .. Len(kept) -> Nat]
        /\ Len(kept) \in Nat
        /\ \A m \in 1 .. Len(kept) : B[m - 1] < B[m]
    BY <1>1 DEF Groups
  <2>2. ASSUME NEW m \in 1 .. Len(kept)
        PROVE  B[m] - B[m - 1] \in Nat \ {0}
    <3>1. m \in 0 .. Len(kept) /\ m - 1 \in 0 .. Len(kept)
      BY <2>1
    <3>2. B[m] \in Nat /\ B[m - 1] \in Nat /\ B[m - 1] < B[m]
      BY <2>1, <3>1
    <3> QED
      BY <3>2
  <2> QED
    BY <2>1, <2>2
<1>3. /\ \A m \in 1 .. Len(kept) : values[m] = B[m] - B[m - 1]
      /\ Merge(stacks) = Profile(kept, values)
  BY <1>1
<1> HIDE DEF values
<1>4. /\ Tables(Merge(stacks)) /\ Carries(Merge(stacks), kept) /\ Used(Merge(stacks))
      /\ \A m \in 1 .. Len(kept) : Merge(stacks).samples[m].value = values[m]
  BY <1>2, <1>3, ProfileCarries
<1>5. Holds(Merge(stacks), e)
  BY <1>1, <1>3, <1>4 DEF Holds
<1> QED
  BY <1>1, <1>2, <1>4, <1>5

LEMMA HoldsTotal ==
  ASSUME NEW ds, NEW e, Holds(ds, e)
  PROVE  Total(ds) = Len(e)
<1>1. PICK kept, B : /\ Groups(kept, B, e) /\ Carries(ds, kept)
                     /\ \A m \in 1 .. Len(kept) : ds.samples[m].value = B[m] - B[m - 1]
  BY DEF Holds
<1>2. Total(ds) = B[Len(kept)]
  BY <1>1, HoldsBlocks, TotalIs
<1> QED
  BY <1>1, <1>2 DEF Groups

LEMMA HoldsShifted ==
  ASSUME NEW ds, NEW e, NEW base, Tables(ds), Tables(base), Holds(ds, e),
         base.locations = {} => (ds.locations = {} /\ ds.functions = {})
  PROVE  /\ Tables(Shifted(ds, base)) /\ Below(base, Shifted(ds, base))
         /\ Holds(Shifted(ds, base), e)
<1>1. PICK kept, B : /\ Groups(kept, B, e) /\ Carries(ds, kept)
                     /\ \A m \in 1 .. Len(kept) : ds.samples[m].value = B[m] - B[m - 1]
  BY DEF Holds
<1>2. Len(kept) \in Nat /\ kept \in Seq(Stack)
  BY <1>1 DEF Groups
<1> QED
  BY <1>1, <1>2, ShiftedCarries DEF Holds

\* Expanding leaves the tables alone and gives one sample per stack of e.
LEMMA HoldsExpanded ==
  ASSUME NEW ds, NEW e, Tables(ds), Holds(ds, e)
  PROVE  LET new == Expanded(ds)
         IN  /\ new = [samples |-> new.samples, locations |-> ds.locations,
                       functions |-> ds.functions]
             /\ Tables(new) /\ Carries(new, e)
             /\ \A t \in 1 .. Len(e) : new.samples[t].value = 1
<1>1. PICK kept, B : /\ Groups(kept, B, e) /\ Carries(ds, kept)
                     /\ \A m \in 1 .. Len(kept) : ds.samples[m].value = B[m] - B[m - 1]
  BY DEF Holds
<1> DEFINE new == Expanded(ds)
           k == Len(kept)
<1>2. /\ Blocks(ds.samples, B) /\ Len(ds.samples) = k /\ k \in Nat
      /\ ds.samples \in Seq(Sample)
  BY <1>1, HoldsBlocks
<1>3. /\ new = [samples |-> new.samples, locations |-> ds.locations,
                functions |-> ds.functions]
      /\ new.samples \in Seq(Sample) /\ Len(new.samples) = B[k]
      /\ \A m \in 1 .. k : \A t \in B[m - 1] + 1 .. B[m] :
           new.samples[t] = [value |-> 1, locations |-> ds.samples[m].locations]
  BY <1>2, ExpandedIs DEF Tables
<1> HIDE DEF new
<1>4. new.locations = ds.locations /\ new.functions = ds.functions
  BY <1>3
<1>5. Tables(new)
  BY <1>3, <1>4 DEF Tables, ThreeTables
<1>6. \A id : Names(new, id) = Names(ds, id)
  BY <1>4 DEF Names
<1>7. B \in [0 .. k -> Nat] /\ B[0] = 0 /\ B[k] = Len(e)
  BY <1>1 DEF Groups
<1>8. ASSUME NEW t \in 1 .. Len(e)
      PROVE  new.samples[t].value = 1 /\ Shows(new, e[t], new.samples[t].locations)
  <2>1. PICK m \in 1 .. k : t \in B[m - 1] + 1 .. B[m]
    BY <1>2, <1>7, InBlock
  <2>2. e[t] = kept[m]
    BY <1>1, <2>1 DEF Groups
  <2>3. new.samples[t] = [value |-> 1, locations |-> ds.samples[m].locations]
    BY <1>3, <2>1
  <2>4. new.samples[t].value = 1
        /\ new.samples[t].locations = ds.samples[m].locations
    BY <2>3
  <2>5. Shows(ds, kept[m], ds.samples[m].locations)
    BY <1>1 DEF Carries
  <2> QED
    BY <1>6, <2>2, <2>4, <2>5 DEF Shows
<1> QED
  BY <1>3, <1>5, <1>7, <1>8 DEF Carries, new

-----------------------------------------------------------------------------
(* What holds even if the native frames cannot be numbered.                *)

LEMMA RowsFrom ==
  ASSUME NEW ds, NEW stacks, Tables(ds), Carries(ds, stacks)
  PROVE  Rows(ds)
<1>1. /\ ds.samples \in Seq(Sample) /\ DOMAIN ds.samples = 1 .. Len(stacks)
      /\ \A s \in 1 .. Len(stacks) : Shows(ds, stacks[s], ds.samples[s].locations)
  BY DEF Carries
<1>2. PICK N \in Nat :
        /\ ds.locations \subseteq [location_id : 1 .. N, function_id : 1 .. N]
        /\ ds.functions \subseteq [function_id : 1 .. N, system_name : STRING]
  BY DEF Tables
<1>3. /\ \A l \in ds.locations : DOMAIN l = {"location_id", "function_id"}
      /\ \A f \in ds.functions : DOMAIN f = {"function_id", "system_name"}
  BY <1>2
<1>4. ASSUME NEW s \in DOMAIN ds.samples
      PROVE  /\ ds.samples[s].value \in Nat \ {0}
             /\ \A i \in DOMAIN ds.samples[s].locations :
                  \E l \in ds.locations : l.location_id = ds.samples[s].locations[i]
  <2> DEFINE locations == ds.samples[s].locations
  <2>1. ds.samples[s] \in Sample
    BY <1>1, ElementOfSeq
  <2>2. ds.samples[s].value \in Nat \ {0} /\ locations \in Seq(Nat)
    BY <2>1 DEF Sample
  <2>3. ASSUME NEW i \in DOMAIN locations
        PROVE  \E l \in ds.locations : l.location_id = locations[i]
    <3>1. Shows(ds, stacks[s], locations)
      BY <1>1
    <3>2. Len(locations) = Len(stacks[s])
      BY <3>1 DEF Shows
    <3>3. i \in 1 .. Len(stacks[s])
      BY <2>2, <3>2
    <3> HIDE DEF locations
    <3>4. Names(ds, locations[i]) = {stacks[s][i]}
      BY <3>1, <3>3 DEF Shows
    <3>5. PICK g \in ds.functions :
            [location_id |-> locations[i], function_id |-> g.function_id] \in ds.locations
      BY <3>4 DEF Names
    <3> QED
      BY <3>5
  <2> QED
    BY <2>2, <2>3
<1> QED
  BY <1>3, <1>4 DEF Rows

\* Its samples can be counted and expanded.
Countable(ds) ==
  ThreeTables(ds) /\ ds.samples \in Seq(Sample) /\ \E B : Blocks(ds.samples, B)

LEMMA HoldsCountable ==
  ASSUME NEW ds, NEW e, Tables(ds), Holds(ds, e)
  PROVE  Countable(ds)
<1>1. PICK kept, B : /\ Groups(kept, B, e) /\ Carries(ds, kept)
                     /\ \A m \in 1 .. Len(kept) : ds.samples[m].value = B[m] - B[m - 1]
  BY DEF Holds
<1>2. Blocks(ds.samples, B) /\ ds.samples \in Seq(Sample)
  BY <1>1, HoldsBlocks
<1> QED
  BY <1>2 DEF Countable, Tables

LEMMA RowsShifted ==
  ASSUME NEW ds, NEW base, Countable(ds), Rows(ds), Tables(base)
  PROVE  Countable(Shifted(ds, base)) /\ Rows(Shifted(ds, base))
<1> DEFINE dl == Largest({l.location_id : l \in base.locations})
           df == Largest({f.function_id : f \in base.functions})
           list == [s \in DOMAIN ds.samples |->
                      [ds.samples[s] EXCEPT
                         !.locations = [i \in DOMAIN @ |-> Plus(@[i], dl)]]]
           rows == {[location_id |-> Plus(l.location_id, dl),
                     function_id |-> Plus(l.function_id, df)] : l \in ds.locations}
           named == {[f EXCEPT !.function_id = Plus(@, df)] : f \in ds.functions}
           new == [samples |-> list, locations |-> rows, functions |-> named]
<1>1. Shifted(ds, base) = new
  BY Zenon DEF Shifted
<1>2. dl \in Nat
  <2>1. PICK N \in Nat :
          base.locations \subseteq [location_id : 1 .. N, function_id : 1 .. N]
    BY DEF Tables
  <2> DEFINE L == {l.location_id : l \in base.locations}
  <2>2. L \in SUBSET (1 .. N)
    BY <2>1
  <2> HIDE DEF L
  <2>3. Largest(L) \in Nat
    BY <2>1, <2>2, LargestIsLargest
  <2> QED
    BY <2>3 DEF L
<1>3. \A id \in Nat : Plus(id, dl) \in Nat
  BY <1>2 DEF Plus, NegInf
<1> HIDE DEF dl, df
<1>4. ASSUME NEW f \in named
      PROVE  DOMAIN f = {"function_id", "system_name"}
  <2>1. PICK g \in ds.functions : f = [g EXCEPT !.function_id = Plus(@, df)]
    BY DEF named
  <2>2. DOMAIN g = {"function_id", "system_name"}
    BY DEF Rows
  <2> QED
    BY <2>1, <2>2
<1>5. ASSUME NEW k \in rows
      PROVE  DOMAIN k = {"location_id", "function_id"}
  <2>1. PICK l \in ds.locations : k = [location_id |-> Plus(l.location_id, dl),
                                       function_id |-> Plus(l.function_id, df)]
    BY DEF rows
  <2> QED
    BY <2>1
<1>6. ASSUME NEW l \in ds.locations
      PROVE  \E k \in rows : k.location_id = Plus(l.location_id, dl)
  <2>1. [location_id |-> Plus(l.location_id, dl),
         function_id |-> Plus(l.function_id, df)] \in rows
    BY DEF rows
  <2> QED
    BY <2>1
<1> DEFINE n == Len(ds.samples)
<1>7. n \in Nat /\ DOMAIN ds.samples = 1 .. n /\ ds.samples \in Seq(Sample)
  BY DEF Countable
<1>8. ASSUME NEW s \in 1 .. n
      PROVE  /\ list[s] \in Sample /\ list[s].value = ds.samples[s].value
             /\ \A i \in DOMAIN list[s].locations :
                  \E k \in rows : k.location_id = list[s].locations[i]
  <2> DEFINE old == ds.samples[s]
             locations == [i \in DOMAIN old.locations |-> Plus(old.locations[i], dl)]
  <2>1. /\ old.locations \in Seq(Nat) /\ old.value \in Nat \ {0}
        /\ old = [value |-> old.value, locations |-> old.locations]
    <3>1. old \in Sample
      BY <1>7, ElementOfSeq
    <3> HIDE DEF old
    <3> QED
      BY <3>1 DEF Sample
  <2>2. list[s] = [old EXCEPT !.locations = locations]
    BY <1>7, Zenon DEF list
  <2>3. \A i \in DOMAIN old.locations :
          \E l \in ds.locations : l.location_id = old.locations[i]
    BY <1>7 DEF Rows
  <2> HIDE DEF old
  <2>4. list[s] = [value |-> old.value, locations |-> locations]
    BY <2>1, <2>2
  <2>5. \A i \in DOMAIN locations : \E k \in rows : k.location_id = locations[i]
    BY <1>6, <2>3
  <2>6. locations \in Seq(Nat)
    <3> DEFINE k == Len(old.locations)
    <3>1. k \in Nat /\ DOMAIN old.locations = 1 .. k
          /\ \A i \in 1 .. k : old.locations[i] \in Nat
      BY <2>1
    <3>2. locations = [i \in 1 .. k |-> locations[i]]
          /\ \A i \in 1 .. k : locations[i] \in Nat
      BY <1>3, <3>1
    <3> HIDE DEF locations, k
    <3> QED
      BY <3>1, <3>2
  <2> HIDE DEF locations
  <2>7. list[s].value = old.value /\ list[s].locations = locations
    BY <2>4
  <2>8. list[s] \in Sample
    BY <2>1, <2>4, <2>6 DEF Sample
  <2> QED
    BY <2>5, <2>7, <2>8 DEF old
<1>9. list \in Seq(Sample) /\ Len(list) = n /\ DOMAIN list = 1 .. n
  <2>1. list = [s \in 1 .. n |-> list[s]]
    BY <1>7 DEF list
  <2> HIDE DEF list, n
  <2> QED
    BY <1>7, <1>8, <2>1
<1> HIDE DEF list, rows, named, n
<1>10. /\ new.samples = list /\ new.locations = rows /\ new.functions = named
       /\ ThreeTables(new)
  BY DEF ThreeTables
<1> HIDE DEF new
<1>11. Countable(new)
  <2>1. PICK B : Blocks(ds.samples, B)
    BY DEF Countable
  <2>2. Blocks(list, B)
    BY <1>8, <1>9, <2>1 DEF Blocks, n
  <2> QED
    BY <1>9, <1>10, <2>2 DEF Countable
<1>12. Rows(new)
  <2>1. \A s \in 1 .. n : list[s].value \in Nat \ {0}
    BY <1>8 DEF Sample
  <2> QED
    BY <1>4, <1>5, <1>8, <1>9, <1>10, <2>1 DEF Rows
<1> QED
  BY <1>1, <1>11, <1>12

LEMMA RowsExpanded ==
  ASSUME NEW ds, Countable(ds), Rows(ds)
  PROVE  Rows(Expanded(ds))
<1> DEFINE new == Expanded(ds)
           k == Len(ds.samples)
<1>1. PICK B : Blocks(ds.samples, B)
  BY DEF Countable
<1>2. /\ new = [samples |-> new.samples, locations |-> ds.locations,
                functions |-> ds.functions]
      /\ new.samples \in Seq(Sample) /\ Len(new.samples) = B[k]
      /\ \A m \in 1 .. k : \A t \in B[m - 1] + 1 .. B[m] :
           new.samples[t] = [value |-> 1, locations |-> ds.samples[m].locations]
  BY <1>1, ExpandedIs DEF Countable
<1> HIDE DEF new
<1>3. new.locations = ds.locations /\ new.functions = ds.functions
  BY <1>2
<1>4. /\ k \in Nat /\ DOMAIN ds.samples = 1 .. k
      /\ B \in [0 .. k -> Nat] /\ B[0] = 0 /\ DOMAIN new.samples = 1 .. B[k]
  BY <1>1, <1>2 DEF Countable, Blocks
<1> HIDE DEF k
<1>5. ASSUME NEW t \in DOMAIN new.samples
      PROVE  /\ new.samples[t].value \in Nat \ {0}
             /\ \A i \in DOMAIN new.samples[t].locations :
                  \E l \in new.locations : l.location_id = new.samples[t].locations[i]
  <2>1. PICK m \in 1 .. k : t \in B[m - 1] + 1 .. B[m]
    BY <1>4, InBlock
  <2>2. new.samples[t] = [value |-> 1, locations |-> ds.samples[m].locations]
    BY <1>2, <2>1
  <2>3. new.samples[t].value = 1
        /\ new.samples[t].locations = ds.samples[m].locations
    BY <2>2
  <2> QED
    BY <1>3, <1>4, <2>3 DEF Rows
<1> QED
  BY <1>3, <1>5 DEF Rows, new

\* Tables in which every number resolves pass the validation.
LEMMA Passes ==
  ASSUME NEW ds, NEW stacks, Tables(ds), Carries(ds, stacks)
  PROVE  Validated(ds) = {TRUE}
<1>1. /\ \A l, k \in ds.locations : l.location_id = k.location_id => l = k
      /\ \A f, g \in ds.functions : f.function_id = g.function_id => f = g
      /\ \A l \in ds.locations :
           /\ l.location_id # NegInf
           /\ \E f \in ds.functions : f.function_id = l.function_id
      /\ \A f \in ds.functions : f.function_id # NegInf
  BY DEF Tables, NegInf
<1>2. Rows(ds)
  BY RowsFrom
<1> QED
  BY <1>1, <1>2 DEF Validated, Valid, Rows

-----------------------------------------------------------------------------
(* What patching one sample does.                                          *)

LEMMA ShownResolves ==
  ASSUME NEW ds, NEW stack \in Stack, NEW locations, Shows(ds, stack, locations)
  PROVE  Resolves(ds, locations) /\ Resolved(ds, locations) = stack
<1> stack \in Seq(STRING)
  BY DEF Stack
<1>1. \A i \in 1 .. Len(stack) : Names(ds, locations[i]) = {stack[i]}
  BY DEF Shows
<1>2. stack = [i \in 1 .. Len(stack) |-> stack[i]]
  OBVIOUS
<1>3. DOMAIN locations = 1 .. Len(stack)
  <2>1. locations \in Seq(Nat) /\ Len(locations) = Len(stack)
    BY DEF Shows
  <2> QED
    BY <2>1
<1>4. Resolves(ds, locations)
  BY <1>1, <1>3, FS_Singleton DEF Resolves
<1>5. \A i \in 1 .. Len(stack) :
        (CHOOSE name \in Names(ds, locations[i]) : TRUE) = stack[i]
  BY <1>1
<1>6. Resolved(ds, locations) = stack
  BY <1>2, <1>3, <1>5 DEF Resolved
<1> QED
  BY <1>4, <1>6

LEMMA SubSeqOf ==
  ASSUME NEW S, NEW q \in Seq(S), NEW a \in Nat \ {0}, NEW b \in Nat, b <= Len(q)
  PROVE  /\ SubSeq(q, a, b) \in Seq(S)
         /\ Len(SubSeq(q, a, b)) = IF a <= b THEN b - a + 1 ELSE 0
         /\ \A i \in 1 .. Len(SubSeq(q, a, b)) :
              /\ SubSeq(q, a, b)[i] = q[a + i - 1]
              /\ a + i - 1 \in 1 .. Len(q)
<1>1. \A i \in a .. b : q[i] \in S
  BY ElementOfSeq
<1>2. /\ SubSeq(q, a, b) \in Seq(S)
      /\ Len(SubSeq(q, a, b)) = IF a <= b THEN b - a + 1 ELSE 0
      /\ \A i \in 1 .. b - a + 1 : SubSeq(q, a, b)[i] = q[a + i - 1]
  BY <1>1, SubSeqProperties
<1>3. \A i \in 1 .. Len(SubSeq(q, a, b)) : i \in 1 .. b - a + 1
  BY <1>2
<1>4. \A i \in 1 .. b - a + 1 : a + i - 1 \in 1 .. Len(q)
  OBVIOUS
<1> QED
  BY <1>2, <1>3, <1>4

LEMMA ShowsPart ==
  ASSUME NEW ds, NEW stack \in Stack, NEW locations, Shows(ds, stack, locations),
         NEW a \in Nat \ {0}, NEW b \in Nat, b <= Len(stack)
  PROVE  /\ SubSeq(stack, a, b) \in Stack
         /\ Shows(ds, SubSeq(stack, a, b), SubSeq(locations, a, b))
<1> DEFINE part == SubSeq(stack, a, b)
           lpart == SubSeq(locations, a, b)
<1>1. /\ locations \in Seq(Nat) /\ Len(locations) = Len(stack)
      /\ \A i \in 1 .. Len(stack) : Names(ds, locations[i]) = {stack[i]}
  BY DEF Shows
<1>2. /\ part \in Stack /\ Len(part) = IF a <= b THEN b - a + 1 ELSE 0
      /\ \A i \in 1 .. Len(part) : /\ part[i] = stack[a + i - 1]
                                   /\ a + i - 1 \in 1 .. Len(stack)
  BY SubSeqOf DEF Stack
<1>3. /\ lpart \in Seq(Nat) /\ Len(lpart) = IF a <= b THEN b - a + 1 ELSE 0
      /\ \A i \in 1 .. Len(lpart) : lpart[i] = locations[a + i - 1]
  BY <1>1, SubSeqOf
<1> HIDE DEF part, lpart
<1> QED
  BY <1>1, <1>2, <1>3 DEF Shows, part, lpart

LEMMA ShowsConcat ==
  ASSUME NEW ds, NEW a \in Stack, NEW b \in Stack, NEW la, NEW lb,
         Shows(ds, a, la), Shows(ds, b, lb)
  PROVE  a \o b \in Stack /\ Shows(ds, a \o b, la \o lb)
<1>1. /\ la \in Seq(Nat) /\ lb \in Seq(Nat) /\ Len(la) = Len(a) /\ Len(lb) = Len(b)
      /\ \A i \in 1 .. Len(a) : Names(ds, la[i]) = {a[i]}
      /\ \A i \in 1 .. Len(b) : Names(ds, lb[i]) = {b[i]}
  BY DEF Shows
<1>2. a \in Seq(STRING) /\ b \in Seq(STRING)
  BY DEF Stack
<1>3. /\ a \o b \in Seq(STRING) /\ Len(a \o b) = Len(a) + Len(b)
      /\ \A i \in 1 .. Len(a) + Len(b) :
           (a \o b)[i] = IF i <= Len(a) THEN a[i] ELSE b[i - Len(a)]
  BY <1>2, ConcatProperties
<1>4. /\ la \o lb \in Seq(Nat) /\ Len(la \o lb) = Len(la) + Len(lb)
      /\ \A i \in 1 .. Len(la) + Len(lb) :
           (la \o lb)[i] = IF i <= Len(la) THEN la[i] ELSE lb[i - Len(la)]
  BY <1>1, ConcatProperties
<1>5. Len(a) \in Nat /\ Len(b) \in Nat
  BY <1>2
<1>6. ASSUME NEW i \in 1 .. Len(a) + Len(b)
      PROVE  Names(ds, (la \o lb)[i]) = {(a \o b)[i]}
  <2>1. CASE i <= Len(a)
    <3>1. i \in 1 .. Len(a)
      BY <1>5, <2>1
    <3>2. (la \o lb)[i] = la[i] /\ (a \o b)[i] = a[i]
      BY <1>1, <1>3, <1>4, <2>1
    <3> QED
      BY <1>1, <3>1, <3>2
  <2>2. CASE ~(i <= Len(a))
    <3>1. i - Len(a) \in 1 .. Len(b)
      BY <1>5, <2>2
    <3>2. (la \o lb)[i] = lb[i - Len(a)] /\ (a \o b)[i] = b[i - Len(a)]
      BY <1>1, <1>3, <1>4, <2>2
    <3> QED
      BY <1>1, <3>1, <3>2
  <2> QED
    BY <2>1, <2>2
<1> QED
  BY <1>1, <1>3, <1>4, <1>6 DEF Shows, Stack

LEMMA FirstIs ==
  ASSUME NEW names \in Stack, NEW name
  PROVE  LET first == First(names, name)
         IN  /\ first \in 0 .. Len(names)
             /\ first = 0 => \A i \in 1 .. Len(names) : names[i] # name
             /\ first # 0 => /\ names[first] = name
                             /\ \A i \in 1 .. first - 1 : names[i] # name
<1> DEFINE at == {i \in DOMAIN names : names[i] = name}
           first == First(names, name)
<1>1. Len(names) \in Nat /\ DOMAIN names = 1 .. Len(names)
  BY DEF Stack
<1>2. first = IF at = {} THEN 0 ELSE CHOOSE i \in at : \A j \in at : i <= j
  BY Zenon DEF First
<1>3. CASE at = {}
  BY <1>1, <1>2, <1>3
<1>4. CASE at # {}
  <2>1. PICK c \in at : \A d \in at : c <= d
    <3>1. at \in SUBSET Nat
      BY <1>1
    <3> HIDE DEF at
    <3> QED
      BY <1>4, <3>1, LeastExists
  <2>2. first \in at /\ \A j \in at : first <= j
    <3> HIDE DEF at
    <3> QED
      BY <1>2, <1>4, <2>1
  <2> HIDE DEF first
  <2>3. first \in 1 .. Len(names) /\ names[first] = name
    BY <1>1, <2>2
  <2>4. ASSUME NEW i \in 1 .. first - 1, names[i] = name
        PROVE  FALSE
    <3>1. i \in at /\ ~(first <= i)
      BY <1>1, <2>3, <2>4
    <3> QED
      BY <2>2, <3>1
  <2> QED
    BY <2>3, <2>4 DEF first
<1> QED
  BY <1>3, <1>4

\* The frames that EvalIdx() counts are those above the evaluator.
LEMMA EvalIdxIs ==
  ASSUME NEW names \in Stack
  PROVE  /\ EvalIdx(names) \in 0 .. Len(names)
         /\ NativeFramesAboveEval(names, SubSeq(names, 1, EvalIdx(names)))
<1> DEFINE eval == First(names, "Rf_eval")
           above == IF eval > 1 THEN eval - 1 ELSE 1
           k == EvalIdx(names)
           n == Len(names)
           part == SubSeq(names, 1, k)
           rest == SubSeq(names, Len(part) + 1, n)
<1>1. /\ n \in Nat /\ names \in Seq(STRING) /\ eval \in 0 .. n
      /\ eval = 0 => \A i \in 1 .. n : names[i] # "Rf_eval"
      /\ eval # 0 => /\ names[eval] = "Rf_eval"
                     /\ \A i \in 1 .. eval - 1 : names[i] # "Rf_eval"
  BY FirstIs DEF Stack
<1>2. k = IF eval = 0 THEN n ELSE IF names[above] = "<?>" THEN above - 1 ELSE above
  BY Zenon DEF EvalIdx
<1> HIDE DEF eval, k, n
<1>3. \/ eval = 0 /\ k = n
      \/ eval = 1 /\ k = 1
      \/ eval > 1 /\ k = eval - 1 /\ names[eval - 1] # "<?>"
      \/ eval > 1 /\ k = eval - 2 /\ names[eval - 1] = "<?>"
  <2>1. CASE eval = 1
    BY <1>1, <1>2, <2>1
  <2>2. CASE eval > 1
    BY <1>1, <1>2, <2>2
  <2> QED
    BY <1>1, <1>2, <2>1, <2>2
<1>4. k \in 0 .. n
  BY <1>1, <1>3
<1>5. /\ part \in Seq(STRING) /\ Len(part) = k
      /\ \A i \in 1 .. k : part[i] = names[i]
  <2>1. k \in Nat /\ k <= n /\ 1 \in Nat \ {0}
    BY <1>1, <1>4
  <2>2. /\ part \in Seq(STRING) /\ Len(part) = IF 1 <= k THEN k - 1 + 1 ELSE 0
        /\ \A i \in 1 .. Len(part) : part[i] = names[1 + i - 1]
    BY <1>1, <2>1, SubSeqOf DEF n
  <2> HIDE DEF part
  <2>3. Len(part) = k
    BY <2>1, <2>2
  <2> QED
    BY <2>1, <2>2, <2>3
<1> HIDE DEF part
<1>6. /\ rest \in Seq(STRING) /\ Len(rest) = n - k
      /\ \A i \in 1 .. n - k : rest[i] = names[k + i]
  <2>1. k + 1 \in Nat \ {0} /\ n \in Nat /\ n <= n
    BY <1>1, <1>4
  <2>2. /\ rest \in Seq(STRING)
        /\ Len(rest) = IF k + 1 <= n THEN n - (k + 1) + 1 ELSE 0
        /\ \A i \in 1 .. Len(rest) : rest[i] = names[k + 1 + i - 1]
    BY <1>1, <1>5, <2>1, SubSeqOf DEF n
  <2> HIDE DEF rest
  <2>3. Len(rest) = n - k
    BY <1>1, <1>4, <2>2
  <2>4. \A i \in 1 .. n - k : k + 1 + i - 1 = k + i
    BY <1>1, <1>4
  <2> QED
    BY <2>2, <2>3, <2>4
<1> HIDE DEF rest
<1>7. IsPrefix(part, names)
  <2>1. SubSeq(part, 1, k) = part
    BY <1>1, <1>4, <1>5
  <2> QED
    BY <1>1, <1>4, <1>5, <2>1 DEF IsPrefix, part, n
<1>8. ToSet(part) = {names[i] : i \in 1 .. k}
  BY <1>5 DEF ToSet
<1>9. \/ /\ "Rf_eval" \notin ToSet(part)
         /\ \/ rest = << >>
            \/ Head(rest) = "Rf_eval" /\ part # << >> /\ Last(part) # "<?>"
            \/ Head(rest) = "<?>" /\ Len(rest) > 1 /\ rest[2] = "Rf_eval"
      \/ part = <<"Rf_eval">>
  <2>1. CASE eval = 0 /\ k = n
    <3>1. rest = << >>
      BY <1>1, <1>6, <2>1
    <3> QED
      BY <1>1, <1>8, <2>1, <3>1
  <2>2. CASE eval = 1 /\ k = 1
    BY <1>1, <1>5, <2>2
  <2>3. CASE eval > 1 /\ k = eval - 1 /\ names[eval - 1] # "<?>"
    <3>1. \A i \in 1 .. k : names[i] # "Rf_eval"
      BY <1>1, <2>3
    <3>2. 1 \in 1 .. n - k /\ k + 1 = eval /\ k \in 1 .. k
      BY <1>1, <2>3
    <3>3. rest[1] = "Rf_eval" /\ rest # << >>
      BY <1>1, <1>6, <2>3, <3>2
    <3>4. part # << >> /\ Last(part) # "<?>"
      BY <1>5, <2>3, <3>2 DEF Last
    <3>5. Head(rest) = rest[1]
      BY <1>6, <3>3
    <3> QED
      BY <1>8, <3>1, <3>3, <3>4, <3>5
  <2>4. CASE eval > 1 /\ k = eval - 2 /\ names[eval - 1] = "<?>"
    <3>1. \A i \in 1 .. k : names[i] # "Rf_eval"
      BY <1>1, <2>4
    <3>2. 1 \in 1 .. n - k /\ 2 \in 1 .. n - k /\ k + 1 = eval - 1 /\ k + 2 = eval
      BY <1>1, <2>4
    <3>3. rest[1] = "<?>" /\ rest[2] = "Rf_eval" /\ rest # << >> /\ Len(rest) > 1
      BY <1>1, <1>6, <2>4, <3>2
    <3>4. Head(rest) = rest[1]
      BY <1>6, <3>3
    <3> QED
      BY <1>8, <3>1, <3>3, <3>4
  <2> QED
    BY <1>3, <2>1, <2>2, <2>3, <2>4
<1> QED
  BY <1>4, <1>7, <1>9, Zenon DEF NativeFramesAboveEval, k, part, rest, n

LEMMA Patched ==
  ASSUME NEW ds, NEW r \in Stack, NEW native \in Stack, NEW rprof, NEW pprof,
         Shows(ds, r, rprof), Shows(ds, native, pprof)
  PROVE  PatchedStack(r, native, Resolved(ds, PatchLocations(ds, rprof, pprof)))
<1> DEFINE call == First(r, ".Call")
           k == EvalIdx(native)
<1>1. Resolved(ds, rprof) = r /\ Resolved(ds, pprof) = native
  BY ShownResolves
<1>2. Len(rprof) = Len(r) /\ Len(r) \in Nat
  BY DEF Shows, Stack
<1>3. PatchLocations(ds, rprof, pprof)
        = IF call = 0 THEN rprof
          ELSE SubSeq(rprof, 1, call - 1) \o SubSeq(pprof, 1, k)
               \o SubSeq(rprof, call + 1, Len(r))
  BY <1>1, <1>2, Zenon DEF PatchLocations
<1>4. /\ call \in 0 .. Len(r)
      /\ call = 0 => \A i \in 1 .. Len(r) : r[i] # ".Call"
      /\ call # 0 => r[call] = ".Call" /\ \A i \in 1 .. call - 1 : r[i] # ".Call"
  BY FirstIs
<1>5. /\ k \in 0 .. Len(native) /\ Len(native) \in Nat
      /\ NativeFramesAboveEval(native, SubSeq(native, 1, k))
  BY EvalIdxIs DEF Stack
<1> HIDE DEF call, k
<1>6. CASE call = 0
  <2>1. ".Call" \notin ToSet(r)
    BY <1>4, <1>6 DEF ToSet, Stack
  <2> QED
    BY <1>1, <1>3, <1>6, <2>1 DEF PatchedStack
<1>7. CASE call # 0
  <2> DEFINE a == SubSeq(r, 1, call - 1)
             b == SubSeq(native, 1, k)
             c == SubSeq(r, call + 1, Len(r))
             la == SubSeq(rprof, 1, call - 1)
             lb == SubSeq(pprof, 1, k)
             lc == SubSeq(rprof, call + 1, Len(r))
  <2>1. /\ call \in 1 .. Len(r) /\ call - 1 \in Nat /\ call - 1 <= Len(r)
        /\ call + 1 \in Nat \ {0} /\ Len(r) <= Len(r) /\ 1 \in Nat \ {0}
        /\ k \in Nat /\ k <= Len(native)
    BY <1>2, <1>4, <1>5, <1>7
  <2>2. /\ a \in Stack /\ Shows(ds, a, la)
        /\ c \in Stack /\ Shows(ds, c, lc)
    BY <1>2, <2>1, ShowsPart
  <2>3. b \in Stack /\ Shows(ds, b, lb)
    BY <1>5, <2>1, ShowsPart
  <2>4. /\ Len(a) = call - 1
        /\ \A i \in 1 .. Len(a) : a[i] = r[i]
    <3>1. /\ Len(a) = IF 1 <= call - 1 THEN call - 1 - 1 + 1 ELSE 0
          /\ \A i \in 1 .. Len(a) : a[i] = r[1 + i - 1]
      BY <2>1, SubSeqOf DEF Stack
    <3> HIDE DEF a
    <3> QED
      BY <2>1, <3>1
  <2> HIDE DEF a, b, c, la, lb, lc
  <2>5. a \o b \in Stack /\ Shows(ds, a \o b, la \o lb)
    BY <2>2, <2>3, ShowsConcat
  <2>6. (a \o b) \o c \in Stack /\ Shows(ds, (a \o b) \o c, (la \o lb) \o lc)
    BY <2>2, <2>5, ShowsConcat
  <2>7. Resolved(ds, PatchLocations(ds, rprof, pprof)) = (a \o b) \o c
    <3>1. PatchLocations(ds, rprof, pprof) = (la \o lb) \o lc
      BY <1>3, <1>7 DEF la, lb, lc
    <3> QED
      BY <2>6, <3>1, ShownResolves
  <2>8. ".Call" \notin ToSet(a)
    <3>1. \A i \in 1 .. Len(a) : a[i] # ".Call"
      BY <1>4, <1>7, <2>4
    <3>2. DOMAIN a = 1 .. Len(a)
      BY <2>2 DEF Stack
    <3> QED
      BY <3>1, <3>2 DEF ToSet
  <2>9. call \in DOMAIN r /\ r[call] = ".Call" /\ ".Call" \in ToSet(r)
    BY <1>4, <1>7, <2>1 DEF ToSet, Stack
  <2>10. \E i \in DOMAIN r, j \in 0 .. Len(native) :
           /\ r[i] = ".Call"
           /\ ".Call" \notin ToSet(SubSeq(r, 1, i - 1))
           /\ NativeFramesAboveEval(native, SubSeq(native, 1, j))
           /\ Resolved(ds, PatchLocations(ds, rprof, pprof))
                = SubSeq(r, 1, i - 1) \o SubSeq(native, 1, j) \o SubSeq(r, i + 1, Len(r))
    BY <1>5, <2>7, <2>8, <2>9, Zenon DEF a, b, c
  <2> QED
    BY <2>9, <2>10, Zenon DEF PatchedStack
<1> QED
  BY <1>6, <1>7

-----------------------------------------------------------------------------
(* The invariant.                                                          *)

LEMMA StacksOfRun ==
  ASSUME run \in Runs, missed \in {0, 1}
  PROVE  /\ run \in Seq([r : Stack, n : Stack]) /\ Len(run) \in Nat
         /\ RStacks \in Seq(Stack) /\ Len(RStacks) = Len(run)
         /\ \A t \in 1 .. Len(run) : RStacks[t] = run[t].r
         /\ NativeStacks \in Seq(Stack)
         /\ missed = 0 \/ run = << >> => Len(NativeStacks) = Len(run)
         /\ Len(NativeStacks) = Len(run) =>
              \A t \in 1 .. Len(run) : NativeStacks[t] = run[t].n
<1> DEFINE all == [t \in DOMAIN run |-> run[t].n]
<1>1. run \in Seq([r : Stack, n : Stack]) /\ Len(run) \in Nat
  BY CombineAssumption DEF Stack
<1>2. /\ DOMAIN run = 1 .. Len(run)
      /\ \A t \in 1 .. Len(run) : run[t] \in [r : Stack, n : Stack]
  <2>1. DOMAIN run = 1 .. Len(run)
    BY <1>1
  <2> DEFINE T == [r : Stack, n : Stack]
  <2>2. run \in Seq(T)
    BY <1>1
  <2> HIDE DEF T
  <2>3. \A t \in 1 .. Len(run) : run[t] \in T
    BY <2>2, ElementOfSeq
  <2> QED
    BY <2>1, <2>3 DEF T
<1>3. \A t \in 1 .. Len(run) : run[t].r \in Stack /\ run[t].n \in Stack
  BY <1>2
<1>4. /\ RStacks \in Seq(Stack) /\ Len(RStacks) = Len(run)
      /\ \A t \in 1 .. Len(run) : RStacks[t] = run[t].r
  BY <1>1, <1>2, <1>3 DEF RStacks
<1>5. /\ all \in Seq(Stack) /\ Len(all) = Len(run)
      /\ \A t \in 1 .. Len(run) : all[t] = run[t].n
  BY <1>1, <1>2, <1>3
<1>6. NativeStacks = SubSeq(all, missed + 1, Len(run))
  BY DEF NativeStacks
<1> HIDE DEF all
<1>7. /\ NativeStacks \in Seq(Stack)
      /\ Len(NativeStacks) = IF missed + 1 <= Len(run) THEN Len(run) - missed ELSE 0
      /\ \A i \in 1 .. Len(NativeStacks) : NativeStacks[i] = all[missed + i]
  <2>1. missed + 1 \in Nat \ {0} /\ Len(run) <= Len(all)
    BY <1>1, <1>5
  <2>2. /\ NativeStacks \in Seq(Stack)
        /\ Len(NativeStacks)
             = IF missed + 1 <= Len(run) THEN Len(run) - (missed + 1) + 1 ELSE 0
        /\ \A i \in 1 .. Len(NativeStacks) : NativeStacks[i] = all[missed + 1 + i - 1]
    BY <1>1, <1>5, <1>6, <2>1, SubSeqOf
  <2>3. \A i \in 1 .. Len(NativeStacks) : missed + 1 + i - 1 = missed + i
    OBVIOUS
  <2> QED
    BY <1>1, <2>2, <2>3
<1>8. missed = 0 \/ run = << >> => Len(NativeStacks) = Len(run)
  BY <1>1, <1>7
<1>9. Len(NativeStacks) = Len(run) => missed = 0 \/ Len(run) = 0
  BY <1>1, <1>7
<1>10. Len(NativeStacks) = Len(run) =>
         \A t \in 1 .. Len(run) : NativeStacks[t] = run[t].n
  BY <1>1, <1>5, <1>7, <1>9
<1> QED
  BY <1>1, <1>4, <1>7, <1>8, <1>10

\* The order in which the native samples may come.
Order(e) ==
  /\ e \in Seq(Stack) /\ Rearranged(NativeStacks, e)
  /\ (merging => Adjacent(NativeStacks)) => e = NativeStacks

Typed ==
  /\ run \in Runs /\ missed \in {0, 1} /\ merging \in BOOLEAN /\ step \in Steps
  /\ Rows(ds_rprof) /\ Rows(ds_pprof)

\* Before the R profile is expanded, and before the native one is.
Unexpanded ==
  step \in {"check", "shift", "expand"} =>
    /\ Tables(ds_rprof) /\ Carries(ds_rprof, RStacks) /\ Holds(ds_rprof, RStacks)
    /\ \A s \in 1 .. Len(RStacks) : ds_rprof.samples[s].value = 1
    /\ Countable(ds_pprof)

Numbered ==
  /\ step \in {"check", "shift"} =>
       Used(ds_pprof) /\ \E e : Order(e) /\ Tables(ds_pprof) /\ Holds(ds_pprof, e)
  /\ step = "expand" /\ ~OnlyNativeFrames =>
       \E e : Order(e) /\ Tables(ds_pprof) /\ Holds(ds_pprof, e)

\* The check lets no profile pass that lacks a tick.
Checked ==
  step \in {"shift", "expand", "combine", "patch", "done"} =>
    Len(NativeStacks) = Len(run)

Separated ==
  step \in {"expand", "combine"} /\ ~OnlyNativeFrames => Below(ds_rprof, ds_pprof)

Ready ==
  step = "combine" =>
    /\ Tables(ds_rprof) /\ Carries(ds_rprof, RStacks)
    /\ ~OnlyNativeFrames =>
         \E e : Order(e) /\ Tables(ds_pprof) /\ Carries(ds_pprof, e)

\* A sample of ds_combined has the R stack of its tick and the native stack
\* that this order puts there.
Joined(e) ==
  /\ DOMAIN samples = 1 .. Len(run)
  /\ Len(samples) = Len(run)
  /\ \A s \in 1 .. Len(run) : /\ Shows(ds_rprof, run[s].r, samples[s].rprof)
                              /\ Shows(ds_rprof, e[s], samples[s].pprof)

\* Without R frames, whatever the native ones became.
Frameless ==
  /\ DOMAIN samples = 1 .. Len(run)
  /\ \A s \in 1 .. Len(run) : samples[s].rprof = << >>

Result ==
  /\ Combined /\ ~OnlyNativeFrames => \E e : Order(e) /\ Joined(e)
  /\ Combined /\ OnlyNativeFrames => Frameless
  /\ step = "done" =>
       merged = [s \in DOMAIN samples |->
                   PatchLocations(ds_rprof, samples[s].rprof, samples[s].pprof)]

CombineInv ==
  /\ Typed /\ Unexpanded /\ Numbered /\ Checked /\ Separated /\ Ready /\ Result
  /\ FailsOnlyIfMissed

LEMMA InitInv == Init => CombineInv
<1> SUFFICES ASSUME Init PROVE CombineInv
  OBVIOUS
<1>1. Rows(Empty)
  BY DEF Rows, Empty
<1>2. missed \in {0, 1}
  BY DEF Init
<1> QED
  BY <1>1, <1>2
  DEF Init, CombineInv, Typed, Steps, Unexpanded, Numbered, Checked, Separated,
      Ready, Result, Combined, FailsOnlyIfMissed

\* The session is given: what its stacks are does not change.
LEMMA GivenStays ==
  ASSUME UNCHANGED given
  PROVE  /\ RStacks' = RStacks /\ NativeStacks' = NativeStacks
         /\ \A e : Order(e)' = Order(e)
         /\ OnlyNativeFrames' = OnlyNativeFrames
<1>1. run' = run /\ missed' = missed /\ merging' = merging
  BY DEF given
<1>2. RStacks' = RStacks /\ NativeStacks' = NativeStacks
  BY <1>1 DEF RStacks, NativeStacks
<1> QED
  BY <1>1, <1>2 DEF Order, OnlyNativeFrames

\* Once a statement has failed, what it left behind must only be well formed.
LEMMA FailedInv ==
  ASSUME CombineInv, UNCHANGED given, step' = "error", OnlyNativeFrames,
         Rows(ds_rprof') /\ Rows(ds_pprof')
  PROVE  CombineInv'
<1>1. run' = run /\ missed' = missed /\ merging' = merging
  BY DEF given
<1>2. OnlyNativeFrames'
  BY GivenStays
<1>3. Typed'
  BY <1>1 DEF CombineInv, Typed, Steps
<1> QED
  BY <1>2, <1>3
  DEF CombineInv, Unexpanded, Numbered, Checked, Separated, Ready, Result, Combined,
      FailsOnlyIfMissed

\* What OnlyNativeFrames says of the profiles.
LEMMA Unnumbered ==
  ASSUME run \in Runs, missed \in {0, 1}, Len(NativeStacks) = Len(run),
         Tables(ds_rprof), Carries(ds_rprof, RStacks),
         NEW e, Order(e), Tables(ds_pprof), Holds(ds_pprof, e), Used(ds_pprof)
  PROVE  ~OnlyNativeFrames /\ ds_rprof.locations = {} =>
           (ds_pprof.locations = {} /\ ds_pprof.functions = {})
<1> SUFFICES ASSUME ds_rprof.locations = {},
                    ds_pprof.locations # {} \/ ds_pprof.functions # {}
             PROVE  OnlyNativeFrames
  OBVIOUS
<1>1. /\ RStacks \in Seq(Stack) /\ Len(RStacks) = Len(run) /\ Len(run) \in Nat
      /\ \A t \in 1 .. Len(run) : RStacks[t] = run[t].r
      /\ \A t \in 1 .. Len(run) : NativeStacks[t] = run[t].n
      /\ DOMAIN run = 1 .. Len(run)
  BY StacksOfRun
<1>2. ASSUME NEW t \in 1 .. Len(run)
      PROVE  run[t].r = << >>
  <2>1. Shows(ds_rprof, RStacks[t], ds_rprof.samples[t].locations)
    BY <1>1 DEF Carries
  <2>2. RStacks[t] \in Seq(STRING)
    <3>1. RStacks[t] \in Stack
      BY <1>1, ElementOfSeq
    <3> QED
      BY <3>1 DEF Stack
  <2>3. \A id : Names(ds_rprof, id) = {}
    BY DEF Names
  <2>4. \A i \in 1 .. Len(RStacks[t]) : FALSE
    BY <2>1, <2>3 DEF Shows
  <2>5. RStacks[t] = << >>
    BY <2>2, <2>4
  <2> QED
    BY <1>1, <2>5
<1>3. \E t \in 1 .. Len(run) : run[t].n # << >>
  <2>1. PICK kept, B : /\ Groups(kept, B, e) /\ Carries(ds_pprof, kept)
    BY DEF Holds
  <2>2. PICK s \in DOMAIN ds_pprof.samples : ds_pprof.samples[s].locations # << >>
    BY DEF Used
  <2>3. /\ s \in 1 .. Len(kept) /\ Len(kept) \in Nat
        /\ Shows(ds_pprof, kept[s], ds_pprof.samples[s].locations)
    BY <2>1 DEF Carries, Groups
  <2>4. kept[s] # << >>
    BY <2>2, <2>3 DEF Shows
  <2>5. /\ B \in [0 .. Len(kept) -> Nat] /\ B[s - 1] < B[s] /\ B[Len(kept)] = Len(e)
        /\ \A t \in B[s - 1] + 1 .. B[s] : e[t] = kept[s]
    BY <2>1, <2>3 DEF Groups
  <2>6. B[s] \in Nat /\ B[s - 1] \in Nat
    <3>1. s \in 0 .. Len(kept) /\ s - 1 \in 0 .. Len(kept)
      BY <2>3
    <3> QED
      BY <2>5, <3>1
  <2>7. e[B[s]] = kept[s]
    BY <2>5, <2>6
  <2>8. B[s] \in 1 .. Len(e)
    <3>1. B[s] <= B[Len(kept)]
      BY <2>1, <2>3, GroupsGrow
    <3> QED
      BY <2>5, <2>6, <3>1
  <2>9. \E u \in 1 .. Len(e) : NativeStacks[u] = e[B[s]]
    <3> DEFINE here == {u \in 1 .. Len(e) : e[u] = e[B[s]]}
               there == {u \in 1 .. Len(e) : NativeStacks[u] = e[B[s]]}
    <3>1. Cardinality(here) = Cardinality(there)
      BY <2>8 DEF Order, Rearranged
    <3>2. B[s] \in here /\ IsFiniteSet(here)
      <4>1. IsFiniteSet(1 .. Len(e))
        BY FS_Interval DEF Order
      <4> QED
        BY <2>8, <4>1, FS_Subset
    <3>3. Cardinality(here) # 0
      <4> HIDE DEF here
      <4> QED
        BY <3>2, FS_EmptySet
    <3>4. there # {}
      <4> HIDE DEF here, there
      <4> QED
        BY <3>1, <3>3, FS_EmptySet
    <3> QED
      BY <3>4
  <2>10. Len(e) = Len(run)
    BY DEF Order, Rearranged
  <2> QED
    BY <1>1, <2>4, <2>7, <2>9, <2>10
<1> QED
  BY <1>1, <1>2, <1>3 DEF OnlyNativeFrames

LEMMA ReadInv ==
  ASSUME CombineInv, ReadProfiles
  PROVE  CombineInv'
<1>1. /\ step = "read" /\ step' = "check" /\ UNCHANGED given
      /\ ds_rprof' = Separate(RStacks)
      /\ ds_pprof' = IF merging THEN Merge(NativeStacks) ELSE Separate(NativeStacks)
  BY DEF ReadProfiles, Goto
<1>2. run \in Runs /\ missed \in {0, 1} /\ merging \in BOOLEAN
  BY DEF CombineInv, Typed
<1>3. RStacks \in Seq(Stack) /\ NativeStacks \in Seq(Stack)
  BY <1>2, StacksOfRun
<1>4. /\ Tables(ds_rprof') /\ Carries(ds_rprof', RStacks) /\ Holds(ds_rprof', RStacks)
      /\ \A s \in 1 .. Len(RStacks) : ds_rprof'.samples[s].value = 1
  BY <1>1, <1>3, SeparateHolds
<1>5. Used(ds_pprof') /\ \E e : Order(e) /\ Tables(ds_pprof') /\ Holds(ds_pprof', e)
  <2>1. CASE merging
    <3>1. PICK e : /\ Tables(Merge(NativeStacks)) /\ Holds(Merge(NativeStacks), e)
                   /\ Used(Merge(NativeStacks))
                   /\ e \in Seq(Stack) /\ Rearranged(NativeStacks, e)
                   /\ Adjacent(NativeStacks) => e = NativeStacks
      BY <1>3, MergeHolds
    <3> QED
      BY <1>1, <2>1, <3>1 DEF Order
  <2>2. CASE ~merging
    BY <1>1, <1>3, <2>2, SeparateHolds DEF Order
  <2> QED
    BY <2>1, <2>2
<1>6. Rows(ds_rprof') /\ Rows(ds_pprof')
  <2>1. PICK e : Tables(ds_pprof') /\ Holds(ds_pprof', e)
    BY <1>5
  <2>2. PICK kept : Carries(ds_pprof', kept)
    BY <2>1 DEF Holds
  <2> QED
    BY <1>4, <2>1, <2>2, RowsFrom
<1>7. Typed'
  BY <1>1, <1>2, <1>6 DEF Typed, Steps, given
<1>8. Unexpanded' /\ Numbered'
  <2>1. Countable(ds_pprof')
    BY <1>5, HoldsCountable
  <2> QED
    BY <1>1, <1>4, <1>5, <2>1, GivenStays DEF Unexpanded, Numbered
<1> QED
  BY <1>1, <1>7, <1>8
  DEF CombineInv, Checked, Separated, Ready, Result, Combined, FailsOnlyIfMissed

LEMMA CheckInv ==
  ASSUME CombineInv, CheckTotals
  PROVE  CombineInv'
<1>1. /\ step = "check" /\ UNCHANGED <<given, ds_rprof, ds_pprof, samples, merged>>
      /\ step' = IF /\ Total(ds_pprof) = Total(ds_rprof)
                    /\ \A s \in DOMAIN ds_rprof.samples : ds_rprof.samples[s].value = 1
                   THEN "shift" ELSE "error"
  BY DEF CheckTotals
<1>2. /\ Tables(ds_rprof) /\ Carries(ds_rprof, RStacks) /\ Holds(ds_rprof, RStacks)
      /\ \A s \in 1 .. Len(RStacks) : ds_rprof.samples[s].value = 1
      /\ Countable(ds_pprof) /\ Used(ds_pprof)
      /\ \E e : Order(e) /\ Tables(ds_pprof) /\ Holds(ds_pprof, e)
  BY <1>1 DEF CombineInv, Unexpanded, Numbered
<1>3. /\ run \in Runs /\ missed \in {0, 1} /\ merging \in BOOLEAN
      /\ Rows(ds_rprof) /\ Rows(ds_pprof)
  BY DEF CombineInv, Typed
<1>4. Total(ds_rprof) = Len(run) /\ Total(ds_pprof) = Len(NativeStacks)
  <2>1. PICK e : Order(e) /\ Holds(ds_pprof, e)
    BY <1>2
  <2>2. Total(ds_pprof) = Len(e) /\ Len(e) = Len(NativeStacks)
    BY <2>1, HoldsTotal DEF Order, Rearranged
  <2> QED
    BY <1>2, <1>3, <2>2, HoldsTotal, StacksOfRun
<1>5. \A s \in DOMAIN ds_rprof.samples : ds_rprof.samples[s].value = 1
  <2>1. ds_rprof.samples \in Seq(Sample) /\ Len(ds_rprof.samples) = Len(RStacks)
    BY <1>2 DEF Carries
  <2> QED
    BY <1>2, <2>1
<1>6. \/ step' = "shift" /\ Len(NativeStacks) = Len(run)
      \/ step' = "error" /\ missed > 0 /\ run # << >>
  <2>1. missed = 0 \/ run = << >> => Len(NativeStacks) = Len(run)
    BY <1>3, StacksOfRun
  <2>2. missed # 0 => missed > 0
    BY <1>3
  <2> QED
    BY <1>1, <1>4, <1>5, <2>1, <2>2
<1>7. /\ run' = run /\ missed' = missed /\ merging' = merging
      /\ ds_rprof' = ds_rprof /\ ds_pprof' = ds_pprof
      /\ RStacks' = RStacks /\ NativeStacks' = NativeStacks
      /\ \A e : Order(e)' = Order(e)
  BY <1>1, GivenStays DEF given
<1>8. Typed'
  BY <1>3, <1>6, <1>7 DEF Typed, Steps
<1>9. Unexpanded' /\ Numbered'
  BY <1>2, <1>6, <1>7 DEF Unexpanded, Numbered
<1>10. Checked' /\ FailsOnlyIfMissed'
  BY <1>6, <1>7 DEF Checked, FailsOnlyIfMissed
<1> QED
  BY <1>6, <1>8, <1>9, <1>10
  DEF CombineInv, Separated, Ready, Result, Combined

LEMMA ShiftInv ==
  ASSUME CombineInv, ShiftIds
  PROVE  CombineInv'
<1>1. /\ step = "shift" /\ UNCHANGED <<given, ds_rprof, samples, merged>>
      /\ ds_pprof' = Shifted(ds_pprof, ds_rprof)
      /\ \E ok \in Validated(ds_pprof') : step' = IF ok THEN "expand" ELSE "error"
  BY DEF ShiftIds, GotoIf, Goto
<1>2. /\ Tables(ds_rprof) /\ Carries(ds_rprof, RStacks) /\ Holds(ds_rprof, RStacks)
      /\ \A s \in 1 .. Len(RStacks) : ds_rprof.samples[s].value = 1
      /\ Countable(ds_pprof) /\ Used(ds_pprof)
      /\ \E e : Order(e) /\ Tables(ds_pprof) /\ Holds(ds_pprof, e)
  BY <1>1 DEF CombineInv, Unexpanded, Numbered
<1>3. /\ run \in Runs /\ missed \in {0, 1} /\ merging \in BOOLEAN
      /\ Rows(ds_rprof) /\ Rows(ds_pprof) /\ Len(NativeStacks) = Len(run)
  BY <1>1 DEF CombineInv, Typed, Checked
<1>4. PICK e : Order(e) /\ Tables(ds_pprof) /\ Holds(ds_pprof, e)
  BY <1>2
<1>5. Countable(ds_pprof') /\ Rows(ds_pprof')
  BY <1>1, <1>2, <1>3, RowsShifted
<1>6. ASSUME ~OnlyNativeFrames
      PROVE  /\ Tables(ds_pprof') /\ Below(ds_rprof, ds_pprof') /\ Holds(ds_pprof', e)
             /\ step' = "expand"
  <2>1. ds_rprof.locations = {} => (ds_pprof.locations = {} /\ ds_pprof.functions = {})
    BY <1>2, <1>3, <1>4, <1>6, Unnumbered
  <2>2. /\ Tables(ds_pprof') /\ Below(ds_rprof, ds_pprof') /\ Holds(ds_pprof', e)
    BY <1>1, <1>2, <1>4, <2>1, HoldsShifted
  <2>3. PICK kept : Carries(ds_pprof', kept)
    BY <2>2 DEF Holds
  <2>4. Validated(ds_pprof') = {TRUE}
    BY <2>2, <2>3, Passes
  <2> QED
    BY <1>1, <2>2, <2>4
<1>7. /\ run' = run /\ missed' = missed /\ merging' = merging /\ ds_rprof' = ds_rprof
      /\ RStacks' = RStacks /\ NativeStacks' = NativeStacks
      /\ OnlyNativeFrames' = OnlyNativeFrames
      /\ \A d : Order(d)' = Order(d)
  BY <1>1, GivenStays DEF given
<1>8. CASE step' = "expand"
  <2>1. Typed'
    BY <1>3, <1>5, <1>7, <1>8 DEF Typed, Steps
  <2>2. Unexpanded'
    BY <1>2, <1>5, <1>7, <1>8 DEF Unexpanded
  <2>3. Checked' /\ Separated' /\ Numbered'
    BY <1>3, <1>4, <1>6, <1>7, <1>8 DEF Checked, Separated, Numbered
  <2> QED
    BY <1>8, <2>1, <2>2, <2>3
    DEF CombineInv, Ready, Result, Combined, FailsOnlyIfMissed
<1>9. CASE step' = "error"
  <2>1. OnlyNativeFrames
    BY <1>6, <1>9
  <2> QED
    BY <1>1, <1>3, <1>5, <1>7, <1>9, <2>1, FailedInv
<1> QED
  BY <1>1, <1>8, <1>9

LEMMA ExpandInv ==
  ASSUME CombineInv, ExpandSamples
  PROVE  CombineInv'
<1>1. /\ step = "expand" /\ UNCHANGED <<given, samples, merged>>
      /\ ds_rprof' = Expanded(ds_rprof) /\ ds_pprof' = Expanded(ds_pprof)
      /\ \E r \in Validated(ds_rprof'), n \in Validated(ds_pprof') :
           step' = IF r /\ n THEN "combine" ELSE "error"
  BY DEF ExpandSamples, GotoIf, Goto
<1>2. /\ Tables(ds_rprof) /\ Holds(ds_rprof, RStacks) /\ Countable(ds_pprof)
      /\ ~OnlyNativeFrames =>
           \E e : Order(e) /\ Tables(ds_pprof) /\ Holds(ds_pprof, e)
  BY <1>1 DEF CombineInv, Unexpanded, Numbered
<1>3. /\ run \in Runs /\ missed \in {0, 1} /\ merging \in BOOLEAN /\ Rows(ds_pprof)
      /\ Len(NativeStacks) = Len(run)
      /\ ~OnlyNativeFrames => Below(ds_rprof, ds_pprof)
  BY <1>1 DEF CombineInv, Typed, Checked, Separated
<1>4. /\ Tables(ds_rprof') /\ Carries(ds_rprof', RStacks)
      /\ ds_rprof' = [samples |-> ds_rprof'.samples, locations |-> ds_rprof.locations,
                      functions |-> ds_rprof.functions]
  BY <1>1, <1>2, HoldsExpanded
<1>5. ASSUME ~OnlyNativeFrames
      PROVE  /\ Below(ds_rprof', ds_pprof') /\ step' = "combine"
             /\ \E e : Order(e) /\ Tables(ds_pprof') /\ Carries(ds_pprof', e)
  <2>1. PICK e : Order(e) /\ Tables(ds_pprof) /\ Holds(ds_pprof, e)
    BY <1>2, <1>5
  <2>2. /\ Tables(ds_pprof') /\ Carries(ds_pprof', e)
        /\ ds_pprof' = [samples |-> ds_pprof'.samples, locations |-> ds_pprof.locations,
                        functions |-> ds_pprof.functions]
    BY <1>1, <2>1, HoldsExpanded
  <2>3. /\ ds_rprof'.locations = ds_rprof.locations
        /\ ds_rprof'.functions = ds_rprof.functions
    BY <1>4
  <2>4. /\ ds_pprof'.locations = ds_pprof.locations
        /\ ds_pprof'.functions = ds_pprof.functions
    BY <2>2
  <2>5. Below(ds_rprof', ds_pprof')
    BY <1>3, <1>5, <2>3, <2>4 DEF Below
  <2>6. Validated(ds_rprof') = {TRUE} /\ Validated(ds_pprof') = {TRUE}
    BY <1>4, <2>2, Passes
  <2> QED
    BY <1>1, <2>1, <2>2, <2>5, <2>6
<1>6. Rows(ds_rprof') /\ Rows(ds_pprof')
  BY <1>1, <1>2, <1>3, <1>4, RowsFrom, RowsExpanded
<1>7. /\ run' = run /\ missed' = missed /\ merging' = merging
      /\ RStacks' = RStacks /\ NativeStacks' = NativeStacks
      /\ OnlyNativeFrames' = OnlyNativeFrames
      /\ \A d : Order(d)' = Order(d)
  BY <1>1, GivenStays DEF given
<1>8. CASE step' = "combine"
  <2>1. Typed'
    BY <1>3, <1>6, <1>7, <1>8 DEF Typed, Steps
  <2>2. Checked' /\ Separated'
    BY <1>3, <1>5, <1>7, <1>8 DEF Checked, Separated
  <2>3. Ready'
    BY <1>4, <1>5, <1>7, <1>8 DEF Ready
  <2> QED
    BY <1>8, <2>1, <2>2, <2>3
    DEF CombineInv, Unexpanded, Numbered, Result, Combined, FailsOnlyIfMissed
<1>9. CASE step' = "error"
  <2>1. OnlyNativeFrames
    BY <1>5, <1>9
  <2> QED
    BY <1>1, <1>6, <1>9, <2>1, FailedInv
<1> QED
  BY <1>1, <1>8, <1>9

LEMMA JoinInv ==
  ASSUME CombineInv, CombineDs
  PROVE  CombineInv'
<1>1. /\ step = "combine" /\ UNCHANGED <<given, ds_pprof, merged>>
      /\ IF SameLength
           THEN /\ samples' = [s \in DOMAIN ds_rprof.samples |->
                                 [rprof |-> ds_rprof.samples[s].locations,
                                  pprof |-> ds_pprof.samples[s].locations]]
                /\ ds_rprof' = United
                /\ \E ok \in Validated(ds_rprof') :
                     step' = IF ok THEN "patch" ELSE "error"
           ELSE step' = "error" /\ UNCHANGED <<samples, ds_rprof>>
  BY DEF CombineDs, GotoIf, Goto
<1>2. /\ Tables(ds_rprof) /\ Carries(ds_rprof, RStacks)
      /\ ~OnlyNativeFrames =>
           \E e : Order(e) /\ Tables(ds_pprof) /\ Carries(ds_pprof, e)
  BY <1>1 DEF CombineInv, Ready
<1>3. /\ run \in Runs /\ missed \in {0, 1} /\ merging \in BOOLEAN
      /\ Rows(ds_rprof) /\ Rows(ds_pprof) /\ Len(NativeStacks) = Len(run)
      /\ ~OnlyNativeFrames => Below(ds_rprof, ds_pprof)
  BY <1>1 DEF CombineInv, Typed, Checked, Separated
<1>4. United = [samples |-> ds_rprof.samples,
                locations |-> ds_rprof.locations \cup ds_pprof.locations,
                functions |-> ds_rprof.functions \cup ds_pprof.functions]
  BY DEF United
<1>5. /\ Len(run) \in Nat /\ Len(RStacks) = Len(run) /\ DOMAIN run = 1 .. Len(run)
      /\ \A t \in 1 .. Len(run) : RStacks[t] = run[t].r
      /\ DOMAIN ds_rprof.samples = 1 .. Len(run)
  <2>1. /\ run \in Seq([r : Stack, n : Stack]) /\ Len(RStacks) = Len(run)
        /\ \A t \in 1 .. Len(run) : RStacks[t] = run[t].r
    BY <1>3, StacksOfRun
  <2>2. ds_rprof.samples \in Seq(Sample) /\ Len(ds_rprof.samples) = Len(run)
    BY <1>2, <2>1 DEF Carries
  <2> QED
    BY <2>1, <2>2
<1>6. ASSUME ~OnlyNativeFrames
      PROVE  /\ SameLength /\ step' = "patch"
             /\ \E e : Order(e) /\ Joined(e)'
  <2>1. PICK e : Order(e) /\ Tables(ds_pprof) /\ Carries(ds_pprof, e)
    BY <1>2, <1>6
  <2>2. Len(e) = Len(run)
    BY <1>3, <2>1 DEF Order, Rearranged
  <2>3. SameLength
    BY <1>2, <1>5, <2>1, <2>2 DEF SameLength, Carries
  <2>4. /\ Tables(ds_rprof') /\ ds_rprof'.samples = ds_rprof.samples
        /\ \A stack, locations :
             Shows(ds_rprof, stack, locations) \/ Shows(ds_pprof, stack, locations)
               => Shows(ds_rprof', stack, locations)
    BY <1>1, <1>2, <1>3, <1>4, <1>6, <2>1, <2>3, UnitedShows
  <2>5. Carries(ds_rprof', RStacks)
    BY <1>2, <2>4 DEF Carries
  <2>6. Validated(ds_rprof') = {TRUE}
    BY <2>4, <2>5, Passes
  <2>7. step' = "patch"
    BY <1>1, <2>3, <2>6
  <2>8. DOMAIN samples' = 1 .. Len(run) /\ Len(samples') = Len(run)
    BY <1>1, <1>5, <2>3
  <2>9. ASSUME NEW s \in 1 .. Len(run)
        PROVE  /\ Shows(ds_rprof', run[s].r, samples'[s].rprof)
               /\ Shows(ds_rprof', e[s], samples'[s].pprof)
    <3>1. /\ samples'[s].rprof = ds_rprof.samples[s].locations
          /\ samples'[s].pprof = ds_pprof.samples[s].locations
      BY <1>1, <1>5, <2>3
    <3>2. /\ Shows(ds_rprof, run[s].r, ds_rprof.samples[s].locations)
          /\ Shows(ds_pprof, e[s], ds_pprof.samples[s].locations)
      BY <1>2, <1>5, <2>1, <2>2 DEF Carries
    <3> QED
      BY <2>4, <3>1, <3>2
  <2>10. run' = run
    BY <1>1 DEF given
  <2>11. Joined(e)'
    BY <2>8, <2>9, <2>10 DEF Joined
  <2> QED
    BY <2>1, <2>3, <2>7, <2>11
<1>7. ASSUME OnlyNativeFrames, SameLength
      PROVE  Frameless'
  <2>1. DOMAIN samples' = 1 .. Len(run) /\ run' = run
    BY <1>1, <1>5, <1>7 DEF given
  <2>2. ASSUME NEW s \in 1 .. Len(run)
        PROVE  samples'[s].rprof = << >>
    <3>1. samples'[s].rprof = ds_rprof.samples[s].locations
      BY <1>1, <1>5, <1>7
    <3>2. Shows(ds_rprof, << >>, ds_rprof.samples[s].locations)
      BY <1>2, <1>5, <1>7 DEF Carries, OnlyNativeFrames
    <3>3. /\ ds_rprof.samples[s].locations \in Seq(Nat)
          /\ Len(ds_rprof.samples[s].locations) = 0
      BY <3>2 DEF Shows
    <3> QED
      BY <3>1, <3>3
  <2> QED
    BY <2>1, <2>2 DEF Frameless
<1>8. Rows(ds_rprof') /\ Rows(ds_pprof')
  <2>1. Rows(United)
    <3>1. /\ United.samples = ds_rprof.samples
          /\ United.locations = ds_rprof.locations \cup ds_pprof.locations
          /\ United.functions = ds_rprof.functions \cup ds_pprof.functions
      BY <1>4
    <3> QED
      BY <1>3, <3>1 DEF Rows
  <2>2. ds_rprof' \in {United, ds_rprof} /\ ds_pprof' = ds_pprof
    BY <1>1
  <2> QED
    BY <1>3, <2>1, <2>2
<1>9. /\ run' = run /\ missed' = missed /\ merging' = merging /\ ds_pprof' = ds_pprof
      /\ NativeStacks' = NativeStacks /\ \A d : Order(d)' = Order(d)
      /\ OnlyNativeFrames' = OnlyNativeFrames
  BY <1>1, GivenStays DEF given
<1>10. CASE step' = "patch"
  <2>1. Typed'
    BY <1>3, <1>8, <1>9, <1>10 DEF Typed, Steps
  <2>2. SameLength
    BY <1>1, <1>10
  <2>3. Result'
    BY <1>6, <1>7, <1>9, <1>10, <2>2 DEF Result, Combined
  <2>4. Checked'
    BY <1>3, <1>9 DEF Checked
  <2> QED
    BY <1>10, <2>1, <2>3, <2>4
    DEF CombineInv, Unexpanded, Numbered, Separated, Ready, FailsOnlyIfMissed
<1>11. CASE step' = "error"
  <2>1. OnlyNativeFrames
    BY <1>6, <1>11
  <2> QED
    BY <1>1, <1>8, <1>11, <2>1, FailedInv
<1> QED
  BY <1>1, <1>10, <1>11

\* Both stacks of a joined sample resolve to the names that were sampled.
LEMMA JoinedResolves ==
  ASSUME run \in Runs, missed \in {0, 1}, Len(NativeStacks) = Len(run),
         NEW e, Order(e), Joined(e), NEW s \in DOMAIN samples
  PROVE  /\ s \in 1 .. Len(run) /\ run[s].r \in Stack /\ e[s] \in Stack
         /\ Resolves(ds_rprof, samples[s].rprof)
         /\ Resolved(ds_rprof, samples[s].rprof) = run[s].r
         /\ Resolves(ds_rprof, samples[s].pprof)
         /\ NativeNames(s) = e[s]
<1>1. s \in 1 .. Len(run)
  BY DEF Joined
<1>2. run[s].r \in Stack
  <2>1. /\ RStacks \in Seq(Stack) /\ Len(RStacks) = Len(run)
        /\ RStacks[s] = run[s].r
    BY <1>1, StacksOfRun
  <2> QED
    BY <1>1, <2>1, ElementOfSeq
<1>3. e[s] \in Stack
  <2>1. e \in Seq(Stack) /\ Len(e) = Len(run)
    BY DEF Order, Rearranged
  <2> QED
    BY <1>1, <2>1, ElementOfSeq
<1>4. /\ Shows(ds_rprof, run[s].r, samples[s].rprof)
      /\ Shows(ds_rprof, e[s], samples[s].pprof)
  BY <1>1 DEF Joined
<1> QED
  BY <1>1, <1>2, <1>3, <1>4, ShownResolves DEF NativeNames

LEMMA PatchInv ==
  ASSUME CombineInv, PatchCombinedDs
  PROVE  CombineInv'
<1>1. step = "patch" /\ UNCHANGED <<given, ds_rprof, ds_pprof, samples>>
  BY DEF PatchCombinedDs
<1>2. /\ run \in Runs /\ missed \in {0, 1} /\ merging \in BOOLEAN
      /\ Rows(ds_rprof) /\ Rows(ds_pprof) /\ Len(NativeStacks) = Len(run)
  BY <1>1 DEF CombineInv, Typed, Checked
<1>3. /\ ~OnlyNativeFrames => \E e : Order(e) /\ Joined(e)
      /\ OnlyNativeFrames => Frameless
  BY <1>1 DEF CombineInv, Result, Combined
<1>4. ASSUME NEW s \in DOMAIN samples
      PROVE  Patchable(ds_rprof, samples[s].rprof, samples[s].pprof)
  <2>1. CASE OnlyNativeFrames
    <3>1. samples[s].rprof = << >>
      BY <1>3, <2>1 DEF Frameless
    <3>2. Resolves(ds_rprof, << >>) /\ Resolved(ds_rprof, << >>) = << >>
      BY DEF Resolves, Resolved
    <3>3. First(<< >>, ".Call") = 0
      BY DEF First
    <3> QED
      BY <3>1, <3>2, <3>3 DEF Patchable
  <2>2. CASE ~OnlyNativeFrames
    <3>1. Resolves(ds_rprof, samples[s].rprof) /\ Resolves(ds_rprof, samples[s].pprof)
      BY <1>2, <1>3, <2>2, JoinedResolves
    <3> QED
      BY <3>1 DEF Patchable
  <2> QED
    BY <2>1, <2>2
<1>5. /\ step' = "done"
      /\ merged' = [s \in DOMAIN samples |->
                      PatchLocations(ds_rprof, samples[s].rprof, samples[s].pprof)]
  BY <1>4 DEF PatchCombinedDs
<1>6. /\ run' = run /\ missed' = missed /\ merging' = merging
      /\ ds_rprof' = ds_rprof /\ ds_pprof' = ds_pprof /\ samples' = samples
      /\ NativeStacks' = NativeStacks /\ \A d : Order(d)' = Order(d)
      /\ OnlyNativeFrames' = OnlyNativeFrames
  BY <1>1, GivenStays DEF given
<1>7. Typed'
  BY <1>2, <1>5, <1>6 DEF Typed, Steps
<1>8. Result'
  <2>1. (\A e : Joined(e)' = Joined(e)) /\ Frameless' = Frameless
    BY <1>6 DEF Joined, Frameless
  <2> QED
    BY <1>3, <1>5, <1>6, <2>1 DEF Result
<1>9. Checked'
  BY <1>2, <1>6 DEF Checked
<1> QED
  BY <1>5, <1>7, <1>8, <1>9
  DEF CombineInv, Unexpanded, Numbered, Separated, Ready, FailsOnlyIfMissed

LEMMA StutterInv ==
  ASSUME CombineInv, UNCHANGED vars
  PROVE  CombineInv'
<1>1. /\ UNCHANGED given /\ ds_rprof' = ds_rprof /\ ds_pprof' = ds_pprof
      /\ samples' = samples /\ merged' = merged /\ step' = step
  BY DEF vars
<1>2. /\ run' = run /\ missed' = missed /\ merging' = merging
      /\ RStacks' = RStacks /\ NativeStacks' = NativeStacks
      /\ \A e : Order(e)' = Order(e)
      /\ OnlyNativeFrames' = OnlyNativeFrames
  BY <1>1, GivenStays DEF given
<1>3. Typed' /\ Checked' /\ Separated' /\ FailsOnlyIfMissed'
  BY <1>1, <1>2 DEF CombineInv, Typed, Checked, Separated, FailsOnlyIfMissed
<1>4. Unexpanded' /\ Numbered' /\ Ready'
  BY <1>1, <1>2 DEF CombineInv, Unexpanded, Numbered, Ready
<1>5. Result'
  <2>1. (\A e : Joined(e)' = Joined(e)) /\ Frameless' = Frameless
    BY <1>1, <1>2 DEF Joined, Frameless
  <2> QED
    BY <1>1, <1>2, <2>1 DEF CombineInv, Result, Combined
<1> QED
  BY <1>3, <1>4, <1>5 DEF CombineInv

LEMMA CombineInvariance == Spec => []CombineInv
<1>1. CombineInv /\ [Next]_vars => CombineInv'
  BY ReadInv, CheckInv, ShiftInv, ExpandInv, JoinInv, PatchInv, StutterInv DEF Next
<1> QED
  BY InitInv, <1>1, PTL DEF Spec

-----------------------------------------------------------------------------
(* What the statements of combine_profiles() keep.                         *)

\* After every statement the tables of both profiles have their columns, every
\* sample its positive value and every location of a sample its row.
THEOREM RowsComplete == Spec => []TypeOK
<1>1. CombineInv => TypeOK
  BY DEF CombineInv, Typed, TypeOK
<1> QED
  BY <1>1, CombineInvariance, PTL

\* Unless no R stack has a frame, the renumbered and united tables mix no names up:
\* every sample of the combined
\* profile has the R stack of its tick, and every native stack is in it as often
\* as it was sampled.
THEOREM StacksNotMixed == Spec => []StacksSurvive
<1>1. ASSUME CombineInv PROVE StacksSurvive
  <2> SUFFICES ASSUME Combined, ~OnlyNativeFrames PROVE StacksSurvive
    BY DEF StacksSurvive
  <2>1. /\ run \in Runs /\ missed \in {0, 1} /\ Len(NativeStacks) = Len(run)
    BY <1>1 DEF CombineInv, Typed, Checked, Combined
  <2>2. PICK e : Order(e) /\ Joined(e)
    BY <1>1 DEF CombineInv, Result
  <2>3. /\ Len(samples) = Len(run) /\ DOMAIN samples = 1 .. Len(run)
        /\ Len(e) = Len(run) /\ Rearranged(NativeStacks, e)
    BY <2>1, <2>2 DEF Joined, Order, Rearranged
  <2>4. \A s \in DOMAIN samples :
          /\ Resolves(ds_rprof, samples[s].rprof)
          /\ Resolves(ds_rprof, samples[s].pprof)
          /\ Resolved(ds_rprof, samples[s].rprof) = run[s].r
          /\ NativeNames(s) = e[s]
    BY <2>1, <2>2, JoinedResolves
  <2>5. /\ DOMAIN run = 1 .. Len(run)
        /\ \A t \in 1 .. Len(run) : NativeStacks[t] = run[t].n
    BY <2>1, StacksOfRun
  <2>6. ASSUME NEW s \in DOMAIN samples
        PROVE  Cardinality({t \in DOMAIN samples : NativeNames(t) = NativeNames(s)})
                 = Cardinality({t \in DOMAIN run : run[t].n = NativeNames(s)})
    <3>1. {t \in DOMAIN samples : NativeNames(t) = NativeNames(s)}
            = {t \in 1 .. Len(e) : e[t] = e[s]}
      BY <2>3, <2>4
    <3>2. {t \in DOMAIN run : run[t].n = NativeNames(s)}
            = {t \in 1 .. Len(e) : NativeStacks[t] = e[s]}
      BY <2>3, <2>4, <2>5
    <3>3. s \in 1 .. Len(e)
      BY <2>3
    <3> QED
      BY <2>3, <3>1, <3>2, <3>3 DEF Rearranged
  <2> QED
    BY <2>3, <2>4, <2>6 DEF StacksSurvive
<1> QED
  BY <1>1, CombineInvariance, PTL

\* If some R stack has a frame, the native stack of a sample is that of its own
\* tick unless pprof merges equal stacks and these were not sampled in one piece.
THEOREM PairedUnlessMerged == Spec => []PairedIfAdjacent
<1>1. ASSUME CombineInv PROVE PairedIfAdjacent
  <2> SUFFICES ASSUME Combined, ~OnlyNativeFrames, merging => EqualStacksAdjacent
               PROVE  \A s \in DOMAIN samples : NativeNames(s) = run[s].n
    BY DEF PairedIfAdjacent
  <2>1. /\ run \in Runs /\ missed \in {0, 1} /\ Len(NativeStacks) = Len(run)
    BY <1>1 DEF CombineInv, Typed, Checked, Combined
  <2>2. PICK e : Order(e) /\ Joined(e)
    BY <1>1 DEF CombineInv, Result
  <2>3. /\ DOMAIN run = 1 .. Len(run)
        /\ \A t \in 1 .. Len(run) : NativeStacks[t] = run[t].n
    BY <2>1, StacksOfRun
  <2>4. EqualStacksAdjacent => Adjacent(NativeStacks)
    BY <2>1, <2>3 DEF EqualStacksAdjacent, Adjacent
  <2>5. e = NativeStacks
    BY <2>2, <2>4 DEF Order
  <2>6. \A s \in DOMAIN samples : s \in 1 .. Len(run) /\ NativeNames(s) = e[s]
    BY <2>1, <2>2, JoinedResolves
  <2> QED
    BY <2>3, <2>5, <2>6
<1> QED
  BY <1>1, CombineInvariance, PTL

\* No comparison, validation, binding of a column or lookup of combine_profiles()
\* fails unless the native profile lacks a tick of the R profile or no R stack has
\* a frame.
THEOREM FailsForMissing == Spec => []FailsOnlyIfMissed
<1>1. CombineInv => FailsOnlyIfMissed
  BY DEF CombineInv
<1> QED
  BY <1>1, CombineInvariance, PTL

\* Every stack of the result is the R stack with the innermost .Call replaced by
\* the native frames above the evaluator.
THEOREM CallsPatched == Spec => []CallsReplaced
<1>1. ASSUME CombineInv PROVE CallsReplaced
  <2> SUFFICES ASSUME step = "done", NEW s \in DOMAIN samples
               PROVE  PatchedStack(run[s].r, NativeNames(s),
                                   Resolved(ds_rprof, merged[s]))
    BY DEF CallsReplaced
  <2>1. /\ run \in Runs /\ missed \in {0, 1} /\ Len(NativeStacks) = Len(run)
    BY <1>1 DEF CombineInv, Typed, Checked
  <2>2. merged[s] = PatchLocations(ds_rprof, samples[s].rprof, samples[s].pprof)
    BY <1>1 DEF CombineInv, Result
  <2>3. CASE ~OnlyNativeFrames
    <3>1. PICK e : Order(e) /\ Joined(e)
      BY <1>1, <2>3 DEF CombineInv, Result, Combined
    <3>2. /\ s \in 1 .. Len(run) /\ run[s].r \in Stack /\ e[s] \in Stack
          /\ NativeNames(s) = e[s]
      BY <2>1, <3>1, JoinedResolves
    <3>3. /\ Shows(ds_rprof, run[s].r, samples[s].rprof)
          /\ Shows(ds_rprof, e[s], samples[s].pprof)
      BY <3>1, <3>2 DEF Joined
    <3> QED
      BY <2>2, <3>2, <3>3, Patched
  \* An empty stack has no .Call and is left alone.
  <2>4. CASE OnlyNativeFrames
    <3>1. s \in 1 .. Len(run) /\ samples[s].rprof = << >>
      BY <1>1, <2>4 DEF CombineInv, Result, Combined, Frameless
    <3>2. run[s].r = << >>
      BY <2>1, <2>4, <3>1, StacksOfRun DEF OnlyNativeFrames
    <3>3. Resolved(ds_rprof, << >>) = << >> /\ First(<< >>, ".Call") = 0
      BY DEF Resolved, First
    <3>4. Resolved(ds_rprof, merged[s]) = << >>
      BY <2>2, <3>1, <3>3 DEF PatchLocations
    <3>5. ".Call" \notin ToSet(<< >>)
      BY DEF ToSet
    <3> QED
      BY <3>2, <3>4, <3>5 DEF PatchedStack
  <2> QED
    BY <2>3, <2>4
<1> QED
  BY <1>1, CombineInvariance, PTL
=============================================================================
