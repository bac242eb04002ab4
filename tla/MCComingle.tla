----------------------------- MODULE MCComingle -----------------------------
(* Instances of Comingle for TLC.                                          *)
EXTENDS Comingle

\* Rprof() can always create its file: chain_everything lets it fail.
Uninterrupted == EnvEvents \ {"interrupt", "rprof_open"}
=============================================================================
