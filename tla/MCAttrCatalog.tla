--------------------------- MODULE MCAttrCatalog ----------------------------
EXTENDS AttrCatalog

NoRelations(rels) ==
  [list |-> <<[s \in Slot |-> IF s <= OwnSlots THEN OwnRec ELSE NoRec]>>,
   firstBlk |-> [r \in rels |-> NotCreated]]

\* the catalogs fill the first block; A has a block of its own, or shares one
\* with an attribute of B, before, behind or between those of B
MCRel       == {"A", "B"}
MCNumAttrs  == [A |-> 1, B |-> 2]
MCFilled    == {"A"}
MCIndexed   == {<<"A", 1>>}
MCDatabases == {NoRelations(MCRel)}

\* the second block of the catalog, between operations
MCEvicted == {<<"idle", 1>>}

\* on a full disk: the error code by chance, a number beyond the disk, a block
MCHanded  == {E_DISKFULL, 9000, 1}
MCNoBlock == {9000}

\* What these commands of an earlier session leave behind: create A, X and C,
\* drop X, create B, which fills the slot of X, and X again, insert into B and
\* index its first attribute, drop A.
MCFourRel      == {"A", "B", "C", "X"}
MCFourNumAttrs == [A |-> 1, B |-> 2, C |-> 2, X |-> 1]
MCFourFilled   == {"B", "X"}
MCFourIndexed  == {<<"B", 1>>}
MCEarlier ==
  {[list |-> <<<<OwnRec, OwnRec>>,
               <<NoRec, [Rec("B", 1) EXCEPT !.root = 7]>>,
               <<Rec("C", 1), Rec("C", 2)>>,
               <<Rec("B", 2), Rec("X", 1)>>>>,
    firstBlk |-> [A |-> NotCreated, B |-> 4, C |-> -1, X |-> -1]]}
=============================================================================
