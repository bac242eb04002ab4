---------------------------- MODULE JointSession ----------------------------
(***************************************************************************)
(* What a joint profiling session promises, with no signal, handler or     *)
(* file in sight.  A session collects R samples (Rprof's file) and native  *)
(* samples (the pprof file).  It may collect R samples alone for a while,  *)
(* but once it collects jointly it never again collects one half of a      *)
(* sample, as long as its owner holds on to it; and once it is over neither*)
(* file grows.  At most one session collects at any time.                  *)
(***************************************************************************)
EXTENDS Naturals, Sequences

CONSTANTS Sessions,   \* the calls of start_profiler()
          Ticks       \* the expirations of the profiling timer

VARIABLES phase,      \* "new", "ronly", "joint", "orphan" or "over"
          held,       \* the session that its owner can stop: one or none
          rsamples,   \* the ticks in the session's R profile
          nsamples    \* the ticks in the session's native profile

vars == <<phase, held, rsamples, nsamples>>

Collecting == {"ronly", "joint", "orphan"}

Init == /\ phase = [s \in Sessions |-> "new"]
        /\ held = {}
        /\ rsamples = [s \in Sessions |-> << >>]
        /\ nsamples = [s \in Sessions |-> << >>]

\* A new session supersedes the one that was collecting.
Begin(s) ==
  /\ phase[s] = "new"
  /\ phase' = [t \in Sessions |-> IF t = s THEN "ronly"
                                  ELSE IF phase[t] \in Collecting THEN "over"
                                  ELSE phase[t]]
  /\ UNCHANGED <<held, rsamples, nsamples>>

Engage(s) ==
  /\ phase[s] = "ronly"
  /\ phase' = [phase EXCEPT ![s] = "joint"]
  /\ UNCHANGED <<held, rsamples, nsamples>>

Hold(s) ==
  /\ phase[s] = "joint"
  /\ held' = {s}
  /\ UNCHANGED <<phase, rsamples, nsamples>>

\* An owner who is interrupted may let go of a session that still collects.
End(S) ==
  /\ phase' = [s \in Sessions |-> IF s \in S THEN "over" ELSE phase[s]]
  /\ held' \in {held, {}}
  /\ UNCHANGED <<rsamples, nsamples>>

\* Nobody can stop it any more, and its native half is gone.
Orphan(s) ==
  /\ phase[s] = "joint"
  /\ s \notin held
  /\ phase' = [phase EXCEPT ![s] = "orphan"]
  /\ UNCHANGED <<held, rsamples, nsamples>>

SampleR(s, k) ==
  /\ phase[s] \in {"ronly", "orphan"}
  /\ rsamples' = [rsamples EXCEPT ![s] = Append(@, k)]
  /\ UNCHANGED <<phase, held, nsamples>>

SampleBoth(s, k) ==
  /\ phase[s] = "joint"
  /\ rsamples' = [rsamples EXCEPT ![s] = Append(@, k)]
  /\ nsamples' = [nsamples EXCEPT ![s] = Append(@, k)]
  /\ UNCHANGED <<phase, held>>

Next == \/ \E s \in Sessions : Begin(s) \/ Engage(s) \/ Hold(s) \/ Orphan(s)
        \/ \E S \in SUBSET Sessions : End(S)
        \/ \E s \in Sessions, k \in Ticks : SampleR(s, k) \/ SampleBoth(s, k)

Spec == Init /\ [][Next]_vars
=============================================================================
