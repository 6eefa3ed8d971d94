--------------------------- MODULE MCStaticBuffer ---------------------------
(***************************************************************************)
(* Small instances of StaticBuffer for TLC.                                *)
(***************************************************************************)
EXTENDS StaticBuffer, TLC

CONSTANTS v1, v2

MCValues == {v1, v2}
MCLeafOnly == {"IND_LEAF"}
MCRecOnly == {"REC"}
MCEntryIndex == {0, 1, 2}
MCGarbageOutside == {-7, 9000}
MCGarbageAny == {-7, 1, 9000}
MCSymmetry == Permutations(MCValues)
=============================================================================
