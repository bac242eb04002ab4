----------------------------- MODULE MCCombine -----------------------------
(* Instances of Combine for TLC.                                           *)
EXTENDS Combine

RSide == {<< >>, <<"f">>, <<".Call", "f">>, <<"g", ".Call", "f", ".Call">>}
NativeSide == {<< >>, <<"c", "f">>, <<"Rf_eval", "main">>,
               <<"<?>", "Rf_eval">>, <<"c", "<?>", "Rf_eval", "c", "Rf_eval">>,
               <<"<?>", "c", "Rf_eval">>}

Tick == [r : RSide, n : NativeSide]
FewNative == {<<"c", "f">>, <<"c", "<?>", "Rf_eval", "c", "Rf_eval">>}
SmallTick == [r : RSide \ {<< >>}, n : FewNative]

\* Every pair of ticks, the ones without any R frame included, and longer runs of
\* fewer stacks.
ShortRuns == UNION {[1 .. k -> Tick] : k \in 0 .. 2}
             \cup UNION {[1 .. k -> SmallTick] : k \in 3 .. 4}
=============================================================================
