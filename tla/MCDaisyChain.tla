---------------------------- MODULE MCDaisyChain ----------------------------
(* Instances of DaisyChain for TLC: the environments the runs use.         *)
EXTENDS DaisyChain

Everything == EnvEvents
Nothing == {}
OnlyOfsFails == {"ofs_open"}
=============================================================================
