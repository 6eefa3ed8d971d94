---------------------------- MODULE MCBPlusTree -----------------------------
EXTENDS BPlusTree

\* eight records with even values, so that the tree soon has three levels, and
\* more records that fall between, before and behind them
MCRecs    == 1 .. 17
MCEven    == [i \in 1 .. 8 |-> 2 * i]
MCRows    == {<<>>, MCEven, Reverse(MCEven)}
MCNewRecs == {1, 9, 11, 15, 17}

\* every record has a value of its own
MCDistinct == [r \in MCRecs |-> r]

\* the uninitialised header field does not say STRING
MCNumeric == {[v \in MCRecs |-> v]}

\* six records with the same value and one with a larger one
MCFewRecs   == 1 .. 7
MCNone      == {<<>>}
MCDuplicate == [r \in MCFewRecs |-> IF r = 7 THEN 7 ELSE 5]
MCFiveSeven == {[v \in {5, 7} |-> v]}

\* strings such as "ad" < "bc" < "cb" < "da": read as a number, as happens
\* when the header field does not say STRING, they descend
MCStrings == {[v \in MCRecs |-> v], [v \in MCRecs |-> -v]}
=============================================================================
