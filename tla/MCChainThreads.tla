--------------------------- MODULE MCChainThreads ---------------------------
(* Instances of ChainThreads for TLC.                                      *)
EXTENDS ChainThreads

OneWorker == {"worker"}
Restarts == {"restart", "ofs_open", "user_rprof"}
Orderly == {}
=============================================================================
