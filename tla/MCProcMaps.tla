----------------------------- MODULE MCProcMaps -----------------------------
(* Instances of ProcMaps for TLC.  Without blanks and name a line has 13     *)
(* characters.                                                               *)
EXTENDS ProcMaps

MappingOf(start, blanks, name) ==
  [start |-> <<start>>, end |-> <<"f">>, flags |-> <<"r-xp">>,
   offset |-> <<"0">>, major |-> <<"0">>, minor |-> <<"1">>,
   inode |-> <<"1">>, blanks |-> blanks,
   filename |-> SubSeq(<<"n", "f", "-", "f", Blank, "n">>, 1, name)]

\* In a buffer of 17 characters and the sentinel: unnamed ones with and without
\* a blank; lines that fit with room to spare, or with none; and too long ones,
\* of which some are short enough once the blanks are gone.
At(start, shapes) == {MappingOf(start, s[1], s[2]) : s \in shapes}
AllShapes == {<<0, 0>>, <<1, 0>>, <<1, 1>>, <<3, 1>>, <<2, 2>>, <<3, 2>>, <<1, 6>>}
FewShapes == {<<0, 0>>, <<1, 1>>, <<3, 2>>}

Files == {<< >>} \cup {<<a>> : a \in At("1", AllShapes)}
         \cup {<<a, b>> : a \in At("1", FewShapes),
                          b \in At("2", FewShapes \cup {<<1, 6>>})}
         \cup {<<a, b, c>> : a \in At("1", {<<3, 2>>}), b \in At("2", FewShapes),
                             c \in At("3", {<<1, 1>>})}
=============================================================================
