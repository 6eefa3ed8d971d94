----------------------------- MODULE XFSAccess ------------------------------
(***************************************************************************)
(* The block access and schema layers of the XFS interface: inserting,     *)
(* searching, deleting and renaming through the catalogs, and the indexes  *)
(* kept with them.  Every operator takes the disk and gives a result with  *)
(* the code's return value and the disk as the call leaves it.             *)
(***************************************************************************)
EXTENDS XFSBPlusTree

CONSTANTS
  Bad,   \* a line of a file that is not a record of the relation
  Lost   \* the disk file after its start has been overwritten:

\* the first record of a relation goes to a new block.  On a full disk the
\* missing check of getFreeRecBlock's -1 makes ba_insert write a header over
\* the start of the file: the allocation map no longer has the catalogs as
\* record blocks, and no command finds a relation any more.

Done(d)        == [ret |-> "SUCCESS", disk |-> d]
Fails(ret, d)  == [ret |-> ret, disk |-> d]

-----------------------------------------------------------------------------
(* ba_insert *)

\* record and header
WriteRecord(d, at, rec) == [SetRecord(d, at, rec) EXCEPT !.blk[at.block].numEntries = @ + 1]

\* ba_insert into a catalog, which has a block and no index; slot is what
\* getFreeSlot returned
InsertRelCatEntry(d, slot, rec) ==
  IF slot.ret # "SUCCESS" THEN Fails(slot.ret, d)
  ELSE Done([WriteRecord(slot.disk, slot.at, rec) EXCEPT
               !.blk[RELCAT_BLOCK].slots[0].nRecs = @ + 1])

InsertAttrCatEntry(d, slot, rec) ==
  IF slot.ret # "SUCCESS" THEN Fails(slot.ret, d)
  ELSE Done(WriteRecord(slot.disk, slot.at, rec))

\* what bPlusInsert returns is not looked at, and a tree that found no block
\* has taken itself out of the catalog
InsertIntoIndex(d, r, e, val, at) ==
  LET with(t) == SetRootBlock(t.disk, r, e.attr, t.root)
  IN  IF e.root = None THEN d ELSE with(BPlusInsert(d, e.root, val, at))

\* the loop over the attributes
InsertIntoIndexes(d, r, rec, at) ==
  FoldLeft(LAMBDA acc, offset :
             InsertIntoIndex(acc, r, AttrAt(acc, r, offset), rec[offset + 1], at),
           d, [i \in DOMAIN rec |-> i - 1])

\* record, header and relation catalog entry, then the indexes
StoreRecord(d, r, e, at, rec) ==
  InsertIntoIndexes(SetRelCatEntry(WriteRecord(d, at, rec), r,
                                   [e EXCEPT !.nRecs = @ + 1, !.last = at.block]),
                    r, rec, at)

\* slot is what getFreeSlot returned
InsertSlot(d, r, e, slot, rec) ==
  IF slot.ret # "SUCCESS" THEN Fails(slot.ret, d)
  ELSE Done(StoreRecord(slot.disk, r, e, slot.at, rec))

\* e is the relation's catalog entry, new the first free block
InsertInto(d, r, e, new, rec) ==
  LET into(d1, first) == InsertSlot(d, r, [e EXCEPT !.first = first], GetFreeSlot(d1, first), rec)
  IN  CASE e.first = None /\ new = None -> Fails("LOST", Lost)
        [] e.first = None /\ new # None ->
             into(SetBlock(d, new, "REC", RecBlock(None, RecSlots[e.nAttrs])), new)
        [] OTHER -> into(d, e.first)

BaInsert(d, r, rec) == InsertInto(d, r, GetRelCatEntry(d, r), GetFreeBlock(d), rec)

\* one call per record, up to the first that fails
InsertAll(d, r, recs) ==
  FoldLeft(LAMBDA acc, rec :
             IF acc.ret # "SUCCESS" THEN acc
             ELSE IF rec = Bad THEN Fails("FAILURE", acc.disk)
             ELSE BaInsert(acc.disk, r, rec),
           Done(d), recs)

-----------------------------------------------------------------------------
(* ba_search called until it fails *)

LinearHits(d, r, a, op, v) ==
  LET offset == GetAttrCatEntry(d, r, a).offset
  IN  SelectSeq(LinearScan(d, GetRelCatEntry(d, r).first),
                LAMBDA at : Holds(op, GetRecord(d, at)[offset + 1], v))

BaSearch(d, r, a, op, v) ==
  LET root == GetAttrCatEntry(d, r, a).root
  IN  IF root = None THEN LinearHits(d, r, a, op, v) ELSE IndexScan(d, root, op, v, <<>>)

Records(d, ids) == [i \in DOMAIN ids |-> GetRecord(d, ids[i])]

AllRecords(d, r) == Records(d, LinearScan(d, GetRelCatEntry(d, r).first))

-----------------------------------------------------------------------------
(* ba_delete *)

\* an attribute catalog block that becomes empty is unlinked and released
DeleteAttrCatEntry(d, at) ==
  LET d1 == [SetRecord(d, at, Free) EXCEPT !.blk[at.block].numEntries = @ - 1]
      b  == d1.blk[at.block]
      d2 == [d1 EXCEPT !.blk[b.lblock].rblock = b.rblock]
      d3 == IF b.rblock = None THEN d2 ELSE [d2 EXCEPT !.blk[b.rblock].lblock = b.lblock]
  IN  IF b.numEntries > 0 THEN d1 ELSE DeleteBlock(d3, at.block)

\* mutant: the header of the catalog's block is not counted down
DeleteRelCatEntryUncounted(d, at) ==
  [SetRecord(d, at, Free) EXCEPT !.blk[RELCAT_BLOCK].slots[0].nRecs = @ - 1]

DeleteRelCatEntry(d, at) ==
  [SetRecord(d, at, Free) EXCEPT
     !.blk[RELCAT_BLOCK].numEntries = @ - 1,
     !.blk[RELCAT_BLOCK].slots[0].nRecs = @ - 1]

\* mutant: the indexes of a deleted relation are not destroyed
DeleteAttributesKeepTrees(d, r, n) ==
  FoldLeft(LAMBDA acc, i :
             LET ids == AttrCatIds(acc, r)
             IN  IF ids = <<>> THEN acc ELSE DeleteAttrCatEntry(acc, ids[1]),
           d, [i \in 1 .. n |-> i])

\* the first attribute found is deleted, as often as there are attributes
DeleteAttributes(d, r, n) ==
  FoldLeft(LAMBDA acc, i :
             LET ids == AttrCatIds(acc, r)
             IN  IF ids = <<>> THEN acc
                 ELSE DeleteAttrCatEntry(BPlusDestroy(acc, GetRecord(acc, ids[1]).root), ids[1]),
           d, [i \in 1 .. n |-> i])

DeleteRecordBlocks(d, first) ==
  FoldLeft(LAMBDA acc, b : DeleteBlock(acc, b), d, Chain(d, first))

\* on a lost disk the relation is not found
BaDelete(d, r) ==
  IF d = Lost \/ ~Exists(d, r) THEN Fails("E_RELNOTEXIST", d)
  ELSE LET e == GetRelCatEntry(d, r)
       IN  Done(DeleteRelCatEntry(
                  DeleteAttributes(DeleteRecordBlocks(d, e.first), r, e.nAttrs),
                  RelCatIds(d, r)[1]))

\* a relation whose records or attributes did not all find room is deleted
OrDelete(res, r) ==
  IF res.ret = "SUCCESS" THEN res ELSE Fails(res.ret, BaDelete(res.disk, r).disk)

-----------------------------------------------------------------------------
(* Renaming *)

BaRenameRel(d, old, new) ==
  CASE Exists(d, new) -> Fails("E_RELEXIST", d)
    [] ~Exists(d, new) /\ ~Exists(d, old) -> Fails("E_RELNOTEXIST", d)
    [] OTHER ->
         LET rename(acc, at) == SetRecord(acc, at, [GetRecord(acc, at) EXCEPT !.rel = new])
         IN  Done(FoldLeft(rename, d, RelCatIds(d, old) \o AttrCatIds(d, old)))

BaRenameAttr(d, r, old, new) ==
  CASE ~Exists(d, r) -> Fails("E_RELNOTEXIST", d)
    [] Exists(d, r) /\ new \in AttrNames(d, r) -> Fails("E_ATTREXIST", d)
    [] Exists(d, r) /\ new \notin AttrNames(d, r) /\ old \notin AttrNames(d, r) ->
         Fails("E_ATTRNOTEXIST", d)
    [] OTHER ->
         LET at == SelectSeq(AttrCatIds(d, r), LAMBDA x : GetRecord(d, x).attr = old)[1]
         IN  Done(SetRecord(d, at, [GetRecord(d, at) EXCEPT !.attr = new]))

-----------------------------------------------------------------------------
(* createRel and the indexes *)

\* one record per attribute, up to the first that finds no room; entry is
\* what inserting the relation's own record returned
InsertAttributes(entry, r, attrs) ==
  FoldLeft(LAMBDA acc, i :
             IF acc.ret # "SUCCESS" THEN acc
             ELSE InsertAttrCatEntry(acc.disk, GetFreeSlot(acc.disk, ATTRCAT_BLOCK),
                                     AttrRec(r, attrs[i], i - 1)),
           entry, [i \in DOMAIN attrs |-> i])

\* the relation's record and those of its attributes
InsertSchema(d, r, attrs) ==
  InsertAttributes(InsertRelCatEntry(d, GetFreeSlot(d, RELCAT_BLOCK),
                                     RelRec(r, Len(attrs), None)),
                   r, attrs)

\* mutant: the relation is not deleted again
CreateRelKept(d, r, attrs) ==
  IF Exists(d, r) THEN Fails("E_RELEXIST", d) ELSE InsertSchema(d, r, attrs)

\* a relation catalog that is full has no record to delete again
CreateRel(d, r, attrs) ==
  CASE Exists(d, r) -> Fails("E_RELEXIST", d)
    [] ~Exists(d, r) /\ Cardinality(ToSet(attrs)) < Len(attrs) -> Fails("E_DUPLICATEATTR", d)
    [] OTHER -> OrDelete(InsertSchema(d, r, attrs), r)

\* the constructor reads slots 0 .. numEntries - 1 of each record block
SlotsToIndex(d, first) ==
  SelectSeq(SlotsOf(d, first), LAMBDA at : at.slot < d.blk[at.block].numEntries)

\* one bPlusInsert per record; a tree that finds no block is destroyed
BuildTree(d, first, offset, new) ==
  FoldLeft(LAMBDA acc, at :
             IF acc.root = None THEN acc
             ELSE BPlusInsert(acc.disk, acc.root, GetRecord(acc.disk, at)[offset + 1], at),
           [disk |-> SetBlock(d, new, "IND_LEAF", Leaf(None, None, None, <<>>)), root |-> new],
           SlotsToIndex(d, first))

\* the BPlusTree constructor
CreateIndex(d, r, a) ==
  LET e           == GetAttrCatEntry(d, r, a)
      built(tree) == [ret  |-> IF tree.root = None THEN "E_DISKFULL" ELSE "SUCCESS",
                      disk |-> SetRootBlock(tree.disk, r, a, tree.root)]
  IN  CASE a \notin AttrNames(d, r) -> Fails("E_ATTRNOTEXIST", d)
        [] a \in AttrNames(d, r) /\ e.root # None -> Done(d)
        [] a \in AttrNames(d, r) /\ e.root = None /\ GetFreeBlock(d) = None ->
             Fails("E_DISKFULL", d)
        [] OTHER -> built(BuildTree(d, GetRelCatEntry(d, r).first, e.offset, GetFreeBlock(d)))

DropIndex(d, r, a) ==
  LET root == GetAttrCatEntry(d, r, a).root
  IN  CASE a \notin AttrNames(d, r) -> Fails("E_ATTRNOTEXIST", d)
        [] a \in AttrNames(d, r) /\ root = None -> Fails("E_NOINDEX", d)
        [] OTHER -> Done(SetRootBlock(BPlusDestroy(d, root), r, a, None))
=============================================================================
