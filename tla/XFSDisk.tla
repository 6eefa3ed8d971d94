------------------------------ MODULE XFSDisk -------------------------------
(***************************************************************************)
(* The disk file as the XFS interface edits it: the block allocation map,  *)
(* linked lists of record blocks with slot maps, and the two catalogs.     *)
(* XFS has no buffer: every function opens the file, changes it and closes *)
(* it, so an operation is an operator from a disk to a disk.               *)
(*                                                                         *)
(* The record count and the last block in ATTRIBUTECAT's own entry are     *)
(* left out: nothing reads them and the code does not keep them right.     *)
(* Every attribute is a NUMBER.                                            *)
(***************************************************************************)
EXTENDS Integers, SequencesExt

CONSTANTS
  Rel,        \* the names a user may give to relations
  Temp,       \* TEMP, the name the interface keeps for itself
  Attr,       \* attribute names
  Val,        \* attribute values
  Free,       \* an unoccupied slot, or a free entry of the open relation table
  LastBlock,  \* DISK_BLOCKS - 1
  RelSlots,   \* slots of the relation catalog block (20)
  AttrSlots,  \* slots of an attribute catalog block (20)
  CatAttrs,   \* attributes of each catalog (6)
  RecSlots    \* RecSlots[n]: slots of a block for records of n attributes

ASSUME DiskAssumption ==
  /\ Val \subseteq Int
  /\ LastBlock \in Nat /\ LastBlock > 5
  /\ RelSlots \in Nat /\ RelSlots > 2
  /\ CatAttrs \in Nat \ {0} /\ AttrSlots \in Nat /\ AttrSlots > 2 * CatAttrs
  /\ \A n \in DOMAIN RecSlots : RecSlots[n] \in Nat \ {0}

RELCAT_BLOCK  == 4
ATTRCAT_BLOCK == 5
RELCAT  == "RELATIONCAT"
ATTRCAT == "ATTRIBUTECAT"

None     == -1
Block    == RELCAT_BLOCK .. LastBlock
Relation == Rel \cup {Temp}

-----------------------------------------------------------------------------
(* Blocks.  A disk d has d.map[b], the type of block b, and d.blk[b].      *)

\* a block of zero bytes
Zero == <<>>

RecBlock(lblock, slots) ==
  [lblock |-> lblock, rblock |-> None, numEntries |-> 0,
   slots |-> [s \in 0 .. slots - 1 |-> Free]]

GetFreeBlock(d) ==
  LET unused == {b \in Block : d.map[b] = "UNUSED_BLK"}
  IN  IF unused = {} THEN None ELSE Min(unused)

SetBlock(d, b, type, content) ==
  [d EXCEPT !.map[b] = type, !.blk[b] = content]

DeleteBlock(d, b) == SetBlock(d, b, "UNUSED_BLK", Zero)

\* the list of blocks that starts with block b
Chain(d, b) ==
  LET from[x \in Block \cup {None}] ==
        IF x = None THEN <<>> ELSE <<x>> \o from[d.blk[x].rblock]
  IN  from[b]

Occupied(d, b) == {s \in DOMAIN d.blk[b].slots : d.blk[b].slots[s] # Free}

\* the slots of the blocks of a list
SlotsOf(d, first) ==
  LET from[b \in Block \cup {None}] ==
        IF b = None THEN <<>>
        ELSE [i \in 1 .. Cardinality(DOMAIN d.blk[b].slots) |-> [block |-> b, slot |-> i - 1]]
               \o from[d.blk[b].rblock]
  IN  from[first]

\* linear_search with PRJCT, called until it fails: the records of a list
LinearScan(d, first) ==
  SelectSeq(SlotsOf(d, first), LAMBDA at : d.blk[at.block].slots[at.slot] # Free)

GetRecord(d, at) == d.blk[at.block].slots[at.slot]
SetRecord(d, at, rec) == [d EXCEPT !.blk[at.block].slots[at.slot] = rec]

\* block new becomes the last block of a list, after block tail
AppendBlock(d, tail, new) ==
  [SetBlock(d, new, "REC", RecBlock(tail, Cardinality(DOMAIN d.blk[tail].slots)))
     EXCEPT !.blk[tail].rblock = new]

\* the first free slot of a list, or the first slot of a new last block
GetFreeSlot(d, first) ==
  LET slot(free, tail, new) ==
        CASE free # <<>> -> [ret |-> "SUCCESS", disk |-> d, at |-> free[1]]
          [] free = <<>> /\ tail = RELCAT_BLOCK -> [ret |-> "E_MAXRELATIONS"]
          [] free = <<>> /\ tail # RELCAT_BLOCK /\ new = None -> [ret |-> "E_DISKFULL"]
          [] OTHER -> [ret |-> "SUCCESS", disk |-> AppendBlock(d, tail, new),
                       at |-> [block |-> new, slot |-> 0]]
  IN  slot(SelectSeq(SlotsOf(d, first), LAMBDA at : d.blk[at.block].slots[at.slot] = Free),
           Last(SlotsOf(d, first)).block, GetFreeBlock(d))

-----------------------------------------------------------------------------
(* Catalog entries.                                                        *)

RelRec(r, n, first) ==
  [rel |-> r, nAttrs |-> n, nRecs |-> 0, first |-> first, last |-> first]
AttrRec(r, a, offset) == [rel |-> r, attr |-> a, root |-> None, offset |-> offset]

RelCatIds(d, r)  ==
  SelectSeq(LinearScan(d, RELCAT_BLOCK), LAMBDA at : GetRecord(d, at).rel = r)
AttrCatIds(d, r) ==
  SelectSeq(LinearScan(d, ATTRCAT_BLOCK), LAMBDA at : GetRecord(d, at).rel = r)

Exists(d, r)            == RelCatIds(d, r) # <<>>
GetRelCatEntry(d, r)    == GetRecord(d, RelCatIds(d, r)[1])
SetRelCatEntry(d, r, e) == SetRecord(d, RelCatIds(d, r)[1], e)

\* the entries of a relation in the order the catalog is scanned
AttrEntries(d, r) ==
  LET ids == AttrCatIds(d, r) IN [i \in DOMAIN ids |-> GetRecord(d, ids[i])]

AttrNames(d, r) == LET es == AttrEntries(d, r) IN {es[i].attr : i \in DOMAIN es}

\* getAttrCatEntry by name and by offset
GetAttrCatEntry(d, r, a) ==
  SelectSeq(AttrEntries(d, r), LAMBDA e : e.attr = a)[1]
AttrAt(d, r, offset) ==
  SelectSeq(AttrEntries(d, r), LAMBDA e : e.offset = offset)[1]

SetRootBlock(d, r, a, root) ==
  LET at == SelectSeq(AttrCatIds(d, r), LAMBDA x : GetRecord(d, x).attr = a)[1]
  IN  SetRecord(d, at, [GetRecord(d, at) EXCEPT !.root = root])

-----------------------------------------------------------------------------
(* FDISK.                                                                  *)

\* createDisk zeroes the file, formatDisk writes the map
FormattedBlocks ==
  [map |-> [b \in Block |-> IF b \in {RELCAT_BLOCK, ATTRCAT_BLOCK} THEN "REC" ELSE "UNUSED_BLK"],
   blk |-> [b \in Block |-> Zero]]

\* add_disk_metainfo: the catalogs describe themselves
FormattedDisk ==
  LET own(s) == AttrRec(IF s < CatAttrs THEN RELCAT ELSE ATTRCAT, s, s % CatAttrs)
  IN  [FormattedBlocks EXCEPT
        !.blk[RELCAT_BLOCK] =
          [RecBlock(None, RelSlots) EXCEPT
             !.numEntries = 2,
             !.slots[0] = [RelRec(RELCAT, CatAttrs, RELCAT_BLOCK) EXCEPT !.nRecs = 2],
             !.slots[1] = RelRec(ATTRCAT, CatAttrs, ATTRCAT_BLOCK)],
        !.blk[ATTRCAT_BLOCK] =
          [RecBlock(None, AttrSlots) EXCEPT
             !.numEntries = 2 * CatAttrs,
             !.slots = [s \in 0 .. AttrSlots - 1 |->
                          IF s < 2 * CatAttrs THEN own(s) ELSE Free]]]
=============================================================================
