--------------------------- MODULE MCStackSample ---------------------------
(* An instance of StackSample for TLC: a function that may call any, itself  *)
(* included; one without a frame; one with a frame that calls none; and one  *)
(* whose prologue and epilogue callunrollinfo does not know.                 *)
EXTENDS StackSample

Bytes ==   <<144, 255, 208,                               \* the start-up code
             144, 144,
             85, 137, 229, 116, 2, 255, 208, 93, 195,     \* calls, or not
             144, 195,                                    \* has no frame
             85, 137, 229, 144, 93, 195,
             85, 144, 137, 229, 255, 208, 93, 144, 195,   \* not as expected
             144, 144>>
At(offsets) == {65536 + i : i \in offsets}
Entries == At({5, 14, 16, 22})
WithReturn == At({5, 13, 14, 15, 16, 21, 22, 29, 30})
WithPointer == At({6, 17, 23, 24})
WithFrame == At({8, 10, 12, 19, 20, 26, 28})
ProgramAddresses == 65536 .. 65536 + 32 \cup {0}
=============================================================================
