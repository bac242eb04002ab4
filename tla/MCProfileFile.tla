--------------------------- MODULE MCProfileFile ---------------------------
(* Instances of ProfileFile for TLC.  0 and 1 are also the words of the      *)
(* trailer.                                                                  *)
EXTENDS ProfileFile

LowAddresses == {0, 1}
=============================================================================
