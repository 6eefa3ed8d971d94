----------------------------- MODULE MCAlgebra ------------------------------
EXTENDS Algebra

MCSchemas == [R |-> <<"a", "b">>, S |-> <<"c">>]
MCType    == [a |-> "NUMBER", b |-> "STRING", c |-> "NUMBER", z |-> "NUMBER"]
MCRowsOf  == [R |-> << <<2, 1>>, <<1, 2>> >>, S |-> << <<1>>, <<1>> >>]
MCIndexes == {<<"R", "a">>}
MCRenames == {<<"S", "c", "z">>}

Select(src, attr, op, val, list) ==
  [Query("select", src, "T", list) EXCEPT !.attr = attr, !.op = op, !.val = val]
Join(src, attr, src2, attr2, list) ==
  [Query("join", src, "T", list) EXCEPT !.attr = attr, !.src2 = src2, !.attr2 = attr2]

\* R has no attribute z
MCQueries ==
  {Query("project", "R", "T", <<>>), Query("project", "R", "T", <<"b", "z">>),
   Select("R", "a", "EQ", 1, <<>>), Select("R", "a", "NE", 1, <<"b">>),
   Select("R", "a", "EQ", Text, <<>>),
   Join("R", "a", "S", "c", <<>>), Join("R", "a", "S", "c", <<"b">>)}

\* what happens to be in the memory of the RecBuffer: the code of a full disk, or
\* a number that is no block's
MCHanded  == {E_DISKFULL, 9000}
MCNoBlock == {9000}

\* a relation of one attribute joined with itself
MCSelfSchemas == [S |-> <<"c">>]
MCSelfRowsOf  == [S |-> << <<1>>, <<2>> >>]
MCSelfQueries == {Join("S", "c", "S", "c", <<>>)}
=============================================================================
