--------------------------- MODULE MCDiskSession ----------------------------
EXTENDS DiskSession

CONSTANTS r1, r2

MCRel      == {r1, r2}
MCNumAttrs == [r \in MCRel |-> IF r = r1 THEN 1 ELSE 2]

\* one relation is enough for a session that is killed
MCOneRel      == {r1}
MCOneNumAttrs == [r \in MCOneRel |-> 2]
=============================================================================
