# NITCbase in TLA+

NITCbase is a small relational database: one process, one thread, one disk file of
8192 blocks of 2048 bytes, a buffer of 32 frames, two catalogs that are relations
themselves, and B+ tree indexes. A second program, the XFS interface, works on the same
disk file with code of its own. This directory holds TLA+ models of both, the TLC
configurations that check them on small instances, and TLAPS proofs about the buffer,
the session, the B+ tree, the attribute catalog, the queries and the indexes. All paths
below are relative to `src/DBMS/NITCbase/mynitcbase/` unless they start with `src/`.

## 1. The system

`main` builds three objects on its stack and hands control to the command loop:

    Disk disk_run;  StaticBuffer buffer;  OpenRelTable cache;
    return FrontendInterface::handleFrontend(argc, argv);

They are destroyed in the opposite order when the loop returns. Calls go strictly
downward: Frontend → Algebra, Schema → Block access, B+ tree → Cache → Buffer → Disk.
The layers share state through static members, and nothing calls back.

| component | state | operations |
|---|---|---|
| Disk (`Disk_Class/`) | the disk file and its run copy | constructor: copy in; destructor: copy out; `readBlock`, `writeBlock` on the run copy |
| Buffer (`Buffer/`) | `metainfo`, `blocks` (frames), `blockAllocMap` | load, replace, dirty bit, flush in the destructor; through `BlockBuffer` and its subclasses: header, record, slot map and entry reads and writes, allocation, release |
| Cache (`Cache/`) | the open relation table; relation cache and attribute cache entries with dirty flags, search indexes, `rootBlock` | open, close with write-back, get and set of entries and search indexes |
| Block access (`BlockAccess/`) | none of its own: record blocks, slot maps, block lists | `linearSearch`, `search`, `insert`, `project`, `renameRelation`, `renameAttribute`, `deleteRelation` |
| B+ tree (`BPlusTree/`) | index blocks | create, search, insert with splits, destroy |
| Schema (`Schema/`) | none | create, drop, open, close, rename, create and drop an index |
| Algebra (`Algebra/`) | none | insert, select, project, join: target relations made, filled, closed |
| Frontend (`Frontend/`) | the relation named `temp` | composite commands |
| Frontend interface (`FrontendInterface/`) | none | regular expressions, command dispatch, text I/O |

The XFS interface (`src/DBMS/NITCbase/XFS_Interface/`) is a program of its own. It has no
buffer and no run copy: each of its functions opens the disk file, changes it and closes
it. A command runs to its end before the next is read. Its parts:

| component | state | operations |
|---|---|---|
| XFS disk and block access (`Disk.cpp`, `block_access.cpp`) | the disk file: allocation map, record blocks with slot maps in linked lists, the two catalogs | format; free block, free slot, catalog entries; insert, search, delete, rename a relation or an attribute |
| XFS B+ tree (`BPlusTree.cpp`) | index blocks in the disk file | create from the records, insert with splits, search and go on, destroy |
| XFS schema and open relation table (`schema.cpp`, `OpenRelTable.cpp`) | the open relation table in memory | create and drop relations and indexes, open, close |
| XFS algebra (`algebra.cpp`) | none | insert from the command or a file, project, select, join |
| XFS commands (`interface.cpp`, `external_fs_commands.cpp`) | the relation named `temp` | dispatch, composite queries, import, export, dump |

### What is hard

There are no threads. The difficulty lies in state that exists several times, at
different ages, and in steps that must not be separated:

* **Copies of a block.** A block is in the disk file, in the run copy, and in a frame.
  A frame that was released keeps its block number and its bytes, and the search for a
  block ignores the free flag, so a stale copy may exist beside the live one. The
  entries of index blocks are written with a dirty bit set for *another* block.
* **Copies of a count.** The record count of an open relation is in the cache; the one
  in the catalog is stale until the relation is closed. Both catalogs count themselves.
* **Ends of a session.** What happened becomes permanent only when three destructors
  have run in order; the process can be killed at any point before that.
* **Index surgery.** A split changes two blocks, their parent, the parent link of every
  moved child, perhaps a new root, and can fail for lack of a block at any level.
* **Searches that survive changes.** A search index is a position kept between calls
  while blocks, trees and relations change under it.
* **Uninitialised values.** Several outcomes depend on what the stack happened to hold.
* **Commands undone halfway** (XFS). A command writes to the disk file as it goes; when
  it finds no block, slot or table entry in the middle, it must take back the catalog
  records, record blocks, trees and table entries it has made, and nothing else.

What makes the components correct:

* *Buffer*: a read returns what was last written, whatever was evicted, released or
  reloaded in between; ending the session writes every latest content.
* *Session*: the saved database is always the one some session ended with; the catalogs
  describe the blocks.
* *B+ tree*: a search returns exactly the records that satisfy its condition; no index
  block leaks or is freed twice; an insertion ends.
* *Record files and catalogs*: a slot is occupied exactly if it holds a record the count
  knows; an operation that fails leaves nothing behind; a search visits each record once.
* *Algebra*: a target relation holds exactly the result and is closed, or is gone.
* *XFS*: catalogs, allocation map, trees and open relations agree with each other after
  every command, and a command changes the named tables as a whole or not at all.

`PROJECT.json` lists every hazard at its line with the properties that cover it.

## 2. Modules

| module | kind | models | lines of code behind it |
|---|---|---|---|
| `BlockStore` | abstract | blocks that are allocated, written, read, released | what the buffer promises |
| `StaticBuffer` | detailed, implements `BlockStore` | frames, replacement, dirty bits, allocation map, every `BlockBuffer` operation | `Buffer/*.cpp` |
| `StaticBuffer_proofs` | proofs | type correctness, frame safety, flush, refinement | |
| `SessionStore` | abstract | a session starts from the saved database and saves all of its changes or none | what `main` promises |
| `DiskSession` | detailed, implements `SessionStore` | constructors, destructors, cached counts, catalogs, the two files, crashes | `main.cpp`, `Disk.cpp`, `OpenRelTable.cpp`, parts of `BlockAccess.cpp`, `Schema.cpp` |
| `DiskSession_proofs` | proofs | type correctness, consistency during a session and on the disk file, refinement | |
| `BPlusTree` | detailed | index creation, insertion with splits, failure, destruction, search | `BPlusTree.cpp` |
| `SequenceLemmas` | proofs | subsequences, insertion and halves of a sequence, the least element of a set of numbers | |
| `BPlusTree_inv` | proofs | the inductive invariant of the tree, what it says of `Subtree`, and that every step keeps it | |
| `BPlusTree_proofs` | proofs | the theorems about the tree: parents, keys, depths, blocks; the chain of leaves and searches | |
| `AttrCatalog` | detailed | the attribute catalog's block list: creation, unwinding, `deleteRelation` and its search | `BlockAccess.cpp`, parts of `Schema.cpp`, `BPlusTree.cpp`, `OpenRelTable.cpp` |
| `AttrCatalog_proofs` | proofs | the blocks, the list, the records and their owners through every operation; the theorems | |
| `Algebra` | detailed | every command on relations: queries, search indexes, targets, temporary relations, open relation table, cached index roots | `Algebra.cpp`, `Frontend.cpp`, `Schema.cpp`, `AttrCacheTable.cpp`, parts of `BlockAccess.cpp`, `BPlusTree.cpp` |
| `Algebra_proofs` | proofs | what queries leave open and what they leave changed | |
| `AlgebraIndex_proofs` | proofs | records fit their relations, indexes list their records | |
| `XFSStore` | abstract | named tables, each a list of attributes and a bag of rows; what each command does to them | what the XFS commands promise |
| `XFSDisk` | operators | allocation map, block lists, slots, catalog entries, formatting | `XFS_Interface/Disk.cpp`, parts of `block_access.cpp` |
| `XFSBPlusTree` | operators, extends `XFSDisk` | insertion, search, destruction of a tree | `XFS_Interface/BPlusTree.cpp` |
| `XFSAccess` | operators, extends `XFSBPlusTree` | `ba_insert`, `ba_search`, `ba_delete`, renaming, `createRel`, indexes | `block_access.cpp`, `schema.cpp`, parts of `algebra.cpp` |
| `XFS` | detailed, extends `XFSAccess`, implements `XFSStore` | open relation table, algebra, one action per command | `OpenRelTable.cpp`, `algebra.cpp`, `interface.cpp`, parts of `external_fs_commands.cpp` |
| `MCStaticBuffer`, `MCDiskSession`, `MCBPlusTree`, `MCAttrCatalog`, `MCAlgebra`, `MCXFS` | instances | | |

`DiskSession` stands on what `StaticBuffer` is shown to provide: a read through the
buffer returns the last write (`mem`), and any block may reach the run copy early
(`Evict`). `BPlusTree` stands on the same fact and works on block contents directly.
`AttrCatalog` stands on it for blocks that have an owner. It also reads blocks that have
been released, about which `StaticBuffer` promises nothing, so it keeps which of them a
frame still has, and the run copy that a read finds once none has. `Algebra` is the top of
the pile and stands on all of them: blocks read back what was written, a one-leaf index
is a sorted list, a creation that is seen to fail is undone.

### StaticBuffer

One action is one call of a public operation; there is one thread. The bytes of a block
are one value. `Loaded(b, k)` is `loadBlockAndGetBufferPtr` called `k` times in a row,
since most operations call it directly and again through `getHeader`. Notable points that follow the code and not its comments:

* `getBufferNum` returns the lowest frame with the block number, *free or not*.
* `releaseBlock` frees the frame and keeps its number, so `StaleBehindLive` is needed:
  whenever an abandoned copy of an owned block exists, the live frame lies below it.
* `AllocateAt` takes a frame without looking whether the block is still in one, and
  then looks it up again twice.
* `SetEntry(b, i, v)` writes block `b` and marks block `i` dirty. Callers write the
  header of `b` first (`BeginFill`) and fill at most two blocks at a time (`filling`);
  `FillingDirty` is why nothing is lost. `filling` and `handle` are the only variables
  without a static member behind them: the state of a caller's local objects.
* `NewBlockDiskFull`: `getFreeBlock` reads an `int` it never assigned (`Garbage`).
* `ReadReleased`: `deleteRelation` goes on reading a block it has released. Mostly a frame
  still carries it. When a tree of two levels was destroyed in between, none may (finding
  4), and the read loads an unused block into a live frame: the constant `ReleasedAway`
  says whether that is included.
* The timestamps of free frames are incremented by the code and never read while the
  frame is free; the model leaves them alone.

### DiskSession

An image of the database is `map` (relations that own record blocks), `relcat` (counts
in catalog records), `attrcat` and `rows` (records in record blocks). There are three
images: `mem` (read through the buffer), `run` (run copy), `file` (disk file); `copied`
says how much of `file` has been written while `~Disk` copies. `pc` is the point `main`
has reached. The dirty flag of a fresh cache entry is uninitialised in the code and
any Boolean here. The order of `~OpenRelTable` (open relations, attribute catalog,
relation catalog) is in the guards of `CloseNext`. The twelve attributes of the
catalogs themselves are the constant `CATALOG_ATTRS`.

### BPlusTree

One action is one call of one function, so an insertion is a sequence of steps
(`pc` names the next call); `findLeafToInsert` takes one step per level. Leaves hold
record numbers, internal blocks keys and children (`rChild` of an entry and `lChild` of
the next are the same bytes, as in the code). Searches are operators, evaluated between
insertions, which is when the program searches: `Found(op, v)` is what repeated calls of
`bPlusSearch` return, with the places where the code gives up early. `Unwind` is the
disk-full path: it frees the tree and the part that is not linked to it yet.
`lblock` is kept as the code leaves it (wrong after a split); nothing reads it.

### AttrCatalog

The list of blocks is rebuilt from the links (`Catalog`), never stored. One step of
`FindSlot` and of `linearSearch` handles one block; `DeleteAttr` is the rest of the loop
body of `deleteRelation`: free the slot, unlink and release the block if it is empty
(`FreeSlot`), destroy the index (`bPlusDestroy`). Several buffer calls make up such a
step, so the blocks are a record `u` that helpers pass on (`Load`, `Store`, `New`,
`releaseBlock`).

There are no frames, only what they can make a difference to. `mem` is what a read
returns, `run` the run copy. For a block with an owner `mem` is what was written last,
which is what `StaticBuffer` is shown to provide for any number of frames. A released
block is another matter: its bytes are in a frame until that frame is taken (`held`).
Whenever a block is brought in, any of the held frames may be the one that is taken
(`Replaced`), and from then on a read of the released block returns what `run` has. `run`
is written when a frame is replaced (`Evict`) or the session ends (`Restart`). So nothing
is assumed about how many frames there are or which of them the code would choose.

On a full disk `insert` gets a block number from an `int` nobody assigned. `Handed` is
the set of numbers it may be:

* `E_DISKFULL`, by chance: `createRel` notices and drops the relation (`ExtendListFull`).
* Any other number `g` (`ExtendListLost`): the last block is linked to it and the record
  counted. If `g` is no block's, the record is stored nowhere; if it is, that block is
  initialised again. `lost` is set, and since the next walk along the list reads a header
  that was never loaded, nothing is followed after that.

A relation is opened only to receive its first record or an index, within one step. The
relation catalog is one block that the program uses all the time; it is left out, and so
is the block of the allocation map, which is never in a frame.

`SearchBlockPresent` is the link to `StaticBuffer`, whose `ReleasedInFrame` says that a
released block is read only while a frame carries it: here the search relies on that.

### Algebra

`pc` says where the running command is: `call` (the algebra function is about to start),
`scan` and `match` (the outer and the inner loop), `back` (it has returned to the front
end), `done`. A query of two functions (`Composite`) runs `First(query)` into `temp` or
`temp_relation` and then `Second(query)`, a projection. One step of `project`, `select`
and `joinInner` is one turn of the loop: the next hit of the search and its insertion
into the target. Commands that are a single call are one step; those of them that fail
change nothing and are left out (so `Insert` has the tests of `Algebra::insert`, `Suits`,
in its guard).

A full disk has two outcomes, as in `AttrCatalog`. If the unassigned block number happens
to be `E_DISKFULL` (`Noticed`), the insertion fails and the target is closed and deleted.
Otherwise (`Overlooked`) the insertion succeeds, the record is stored nowhere, the
relation's indexes get the record id of no block (`insertLost`), and the function goes
on: if this was its last record, it reports success. The same goes for the block of an
attribute record of the target (`PrepareTarget`) and for the root of a new index
(`bPlusCreateLost`). After that (`lost`) nothing more is inserted and no command begins,
because each would walk into that number.

Such a step makes several calls, so the database is a record `u` with the relations, the
indexes and the open relation table. Records are numbered in block order (nothing deletes
a record), so a search index is a position: 0 when it is reset. `closeRel` writes the
roots from the attribute cache into the catalog, and `deleteRel` destroys the indexes the
catalog knows of; between the two the cache alone is right. What the code does with
results is kept: projection on a list reports success whatever happens
(`SingleReturns`), the target of a join stays open (`joinOuter`), and `temp` stays behind
when the second half of a selection fails (`SecondReturns`). `renameRel` refuses every
relation (`Schema/Schema.cpp:46`) and is no action. `project` does not look at what
`getAttrCatEntry` returns for a name of its list (`Algebra/Algebra.cpp:438`): where there
is no such attribute, the offset is uninitialised, and the value in the target is any of
`Garbage` (`Listed`).

An index is the list of its records in key order. `bPlusCreate` enters them one by one
(`Leaf`), `insert` enters the new record (`Entered`), both behind equal values.

### XFS

A command of the XFS interface runs to its end before the next one is read, and nothing
else runs meanwhile, so a command is one action of `XFS`, and the functions it calls are
operators that take a disk and return what the code returns and the disk as they leave
it (`[ret, disk]`, with the root or the open relation table where these change too). The
disk `d` is `d.map` (block types) and `d.blk` (contents). The state is `disk` and `table`.
Two more variables, which no action reads, keep the command with its operands (`cmd`) and
what it told the user (`ret`) for the last command that succeeded or left a trace.

`XFSStore` has the same two. For each command and its operands there is one result if it
succeeds (`Succeeds`): `Create` makes an empty table, `Import` one with the rows of the
file, `Select` and `Join` exactly the answer of that query. A command that says it has
failed leaves nothing (`Fails`), with two exceptions: `INSERT` from a file keeps the lines
before the one that failed, and an `IMPORT` that fails with "openRel failed", and only
that, leaves an empty relation.

* `XFSDisk`: a list of record blocks is followed through `rblock` (`Chain`, `SlotsOf`).
  `GetFreeSlot` is the first free slot of the list or slot 0 of a block appended to it.
  RELATIONCAT has one block; ATTRIBUTECAT grows and shrinks.
* `XFSBPlusTree`: an insertion goes down to a leaf and up again as far as it has to split
  (`InsertIntoParent`). When a block is missing, `NoRoom` destroys the whole tree and the
  part not linked to it, and the root becomes `None`. An entry goes into the parent where
  the split child is found, not by its value as in `mynitcbase`, so equal values do no
  harm here. `BPlusSearch` goes on behind its last hit, across leaves.
* `XFSAccess`: `BaInsert` gives a relation its first block, stores the record, counts it,
  and inserts into each index; what an index insertion returns is not looked at.
  `BaDelete` deletes attribute records one by one, with the tree of each, and unlinks an
  attribute catalog block that becomes empty. `OrDelete` is the way back of `createRel`,
  of queries and of `importRelation`.
* `XFS`: `FillTarget` is the second half of every query: open the target, insert, close,
  and delete it when a record finds no room. `ProjectTemp` is the second half of a query
  with a list: through the relation `temp`, which is closed and deleted however it ends.

Three things the code does and the model follows:

* The first record of a relation on a full disk: `getFreeRecBlock` returns -1, which is
  not tested (`XFS_Interface/block_access.cpp:37`), and the header is written over the
  start of the file. The disk is `Lost` from then on, until FDISK.
* `deleteRelCatEntry` takes the number of attributes from RELATIONCAT's own record
  (`XFS_Interface/block_access.cpp:945`), so the record count of ATTRIBUTECAT goes down by
  six whatever the relation had. Nothing reads that count; `XFSDisk` leaves it out.
* An import that finds the open relation table full leaves the empty relation it has
  created (`XFS_Interface/external_fs_commands.cpp:317`) and says "openRel failed", the one
  case in which `XFSStore` allows that.

## 3. Runs

| run | module, cfg | states | shows |
|---|---|---|---|
| `buffer_cache` | `MCStaticBuffer`, `BufferCache.cfg` | 66 thousand | all buffer invariants, the refinement of `BlockStore`, and that only current contents reach the run copy |
| `disk_full` (violation) | `MCStaticBuffer`, `DiskFull.cfg` | | a full disk is not reported as `E_DISKFULL` |
| `session` | `MCDiskSession`, `Session.cfg` | 367 thousand | catalogs describe the blocks; the disk file is always consistent; a session saves all or nothing; liveness: an exit saves |
| `session_killed` (violation) | `MCDiskSession`, `SessionKilled.cfg` | | a kill during the final copy loses the previous state |
| `btree` | `MCBPlusTree`, `BPlusTree.cfg` | 134 thousand | searches are complete, no block leaks, links and order are right, an insertion ends |
| `btree_duplicates` (violation) | `MCBPlusTree`, `BPlusTreeDuplicates.cfg` | | equal values can make a search miss records |
| `attr_catalog` | `MCAttrCatalog`, `AttrCatalog.cfg` | 1.6 million | the catalog has exactly the records it should, its list is linked, nothing leaks, a creation that is seen to fail is undone, until a record is lost on a full disk |
| `attr_catalog_indexed` (violation) | `MCAttrCatalog`, `AttrCatalogIndexed.cfg` | | dropping a relation with an index of two levels can leave catalog records behind |
| `algebra` | `MCAlgebra`, `Algebra.cfg` | 2.4 million | queries return exactly what they should whatever ran before them, failed ones leave nothing behind, indexes agree with their relations, until a record is lost on a full disk; other relations and what is open are right even then |
| `algebra_unknown` (violation) | `MCAlgebra`, `AlgebraUnknown.cfg` | | a projection on an unknown name succeeds |
| `algebra_self_join` (violation) | `MCAlgebra`, `AlgebraSelfJoin.cfg` | | the join of a relation with itself never gets past the first record |
| `xfs` | `MCXFS`, `XFS.cfg` | 71 thousand | catalogs, allocation map, trees and open relations agree after every command; an indexed search finds what a scan finds; each command does to the tables what `XFSStore` says of it |

Six runs pass; the six marked "violation" each refute one statement of the
repository (section 5).

Three more configurations show what the passing runs leave out. They are not among the runs
of `PROJECT.json`, and TLC stops at each within seconds with the invariant violated:

| module, cfg | invariant | shows |
|---|---|---|
| `MCAttrCatalog`, `AttrCatalogFull.cfg` | `CreatedWhole` | on a full disk a creation succeeds with attributes that have no record |
| `MCAlgebra`, `AlgebraFull.cfg` | `AnswerWhole` | on a full disk a query succeeds with records of its answer missing |
| `MCBPlusTree`, `BPlusTreeStrings.cfg` | `KeysAscend` | string keys are ordered as numbers |

### Bounds, and why they are enough

* *Buffer*: two frames and three client blocks force an eviction on every switch to a
  third block, and an abandoned copy above or below the live one. Two values tell a
  stale content from a current one. `EntryIndex` = {0, 1, 2} contains the map block,
  owned blocks, and block numbers equal and different from the one written. `MaxStamp`
  = 4 lets two live frames differ in age in both directions and by more than one load.
  The theorems hold for every value of these constants.
* *Session*: two relations with one and two attributes, so that one can be open while
  the other is created or dropped; one record each, so that the count of a relation
  differs between cache and catalog and the relation owns a block or not.
  `MAX_OPEN` = 4
  leaves two slots for them. The number of sessions is not bounded.
* *Tree*: leaves of 3 and internal blocks of 2 (63 and 100 in the code; odd and even as
  there, since the splits depend on it). Eight initial records in ascending or descending
  order give three levels, and up to five more fall before, between and behind them in
  any order. `Taken` is the number of blocks others own and makes the disk run full at a
  leaf split, an internal split, or a new root, with and without a part not yet linked.
* *Catalog*: blocks of two slots (20 in the code) with the first one full, relations of
  one and two attributes: a drop empties the last block, a middle block, two blocks or
  none, in the block where the search stands or behind it. Four blocks besides the
  relation catalog make every allocation fail somewhere: at the first or second
  attribute of a creation, with records already stored or not. `Handed` has the error
  code, a number beyond the disk and a block in use. Frames of released blocks may be
  replaced at any read. `Evicted` bounds the other write-backs to the catalog's second
  block between operations: the age of the run copy of a block matters only once it is
  released and out of its frame, and this block is the one that drops release.
* *Algebra*: two relations of two records, inserted in descending order of the indexed
  attribute, so that index order and record order differ; the second relation has the
  same value twice, so that a join finds two partners for one record and none for the
  other. The queries are each function alone and both combinations, over an indexed and
  a plain attribute, with a value of the wrong type. Blocks of one
  slot and five blocks fill the disk at every point of a query, and each time it is
  noticed or not (`Handed` has the error code and a number of no block). Four open relations for
  five names (`R`, `S`, `T`, `temp`, `temp_relation`): the table is full as soon as a
  `temp` was left behind. Any number of commands, and any query after any other, so the
  search indexes a query starts from are those of every earlier one.
* *XFS*: every sequence of five commands that change something (`MaxCommands`), from the
  formatted disk, from a disk with two relations and seven rows in one of them, and from
  that disk with an index whose root is full. Thirteen blocks (`LastBlock` = 16) with four
  to one records each (`MCRecSlots`), three slots in a block of the attribute catalog,
  five in the relation catalog, leaves of 3 and internal blocks of 2. Five commands then
  reach: a disk full in the middle of a creation, a query, an import and a split; the
  split of an internal block and a new root; an attribute catalog block that empties in
  the middle of its list, and holes that the next relation fills; a relation catalog full
  with three relations and `temp`; an open relation table (`MAX_OPEN` = 5, two of them the
  catalogs') full before and in the middle of a query; the overwritten disk. The values
  contain equal keys on both sides of a separator.

### Assumptions of the runs that pass

* *Garbage is no block number* (`Garbage` = {-7, 9000} in `BufferCache.cfg`): on a full
  disk the uninitialised `int` does not hold the number of a block. `DiskFull.cfg` drops
  this; then an owned block can be initialised a second time and even `BlockStore` is
  not implemented. The theorems state it as the hypothesis `GarbageOutside`.
* *A released block is read from a frame* (`ReleasedAway` = FALSE in `BufferCache.cfg`).
  `AttrCatalog` shows this for indexes of one leaf, and `AttrCatalogIndexed.cfg` that it
  fails for larger ones. With TRUE, TLC finds `OneLiveFrame` violated: an unused block is
  then in a live frame. The theorems state it as the hypothesis `ReleasedInFrame`.
* *Disk full in the tree*: a failed allocation leaves the `E_DISKFULL` the caller tests
  for. That is one of the outcomes the uninitialised member can have. With another the
  tree is linked to a number of no block, and no further call on it is defined; what the
  callers then report is in `AttrCatalog` and `Algebra`.
* *Disk full elsewhere*: nothing is assumed in `AttrCatalog` and `Algebra` about what the
  uninitialised member holds, except that in `Algebra` it is not the number of a block
  (`AlgebraAssumption`); with such a number any other relation could be overwritten, which
  `DiskFull.cfg` shows for the buffer and `AttrCatalog` follows to the end of the command.
  `CatalogExact`, `ListLinked`, `NoLeak`, `ResultExact` and `IndexExact` speak of the time
  before a record is lost. `AttrCatalogFull.cfg` and `AlgebraFull.cfg` show what it is like
  afterwards.
* *Tree keys*: distinct values of a NUMBER attribute, with a header field that does not
  happen to say STRING. `BPlusTreeDuplicates.cfg` and
  `BPlusTreeStrings.cfg` drop one condition each.
* *Indexes of one leaf* (`Leaves` = 1 in `AttrCatalog.cfg` and `AttrCatalogFull.cfg`):
  indexed relations have at most 63 records. `AttrCatalogIndexed.cfg` has an index of two leaves under a root; it
  starts from `MCEarlier`, the disk an earlier session of ordinary commands leaves, listed
  in `MCAttrCatalog`. `Consistent` says what such disks have in common; TLC evaluates it for
  those of both configurations (`DatabasesAssumption`).
* *Queries* (`Algebra.cfg`): the two sources of a join differ (`AlgebraSelfJoin.cfg` drops
  that), the catalogs are no sources, an index fits one leaf, and a relation has at most
  six attributes, which is what `linearSearch` has room for
  (`BlockAccess/BlockAccess.cpp:54`). One query lists a name that is no attribute. It
  has no right answer, so `ResultExact` says nothing of it; `AlgebraUnknown.cfg` shows that
  it is not refused. That it does no harm to other relations is part of `OthersKept`
  (`Garbage` = {9} stands for what the column then has). A garbage offset that ends the
  program is not modelled.
* *XFS*: NUMBER attributes; the catalogs are no operands; the program is not killed between
  two writes of one command; and no NITCbase session runs on the same file meanwhile.
* *Kills* happen while the user works or the cache and the buffer are written out
  (`CrashPoints`); a kill during the final copy is the violation run.

### Fairness

`StaticBuffer`, `AttrCatalog`, `Algebra` and `XFS` have none: they have no liveness claims.
`DiskSession` has `WF(Destructors)`: when the command loop has returned, `main` runs the
destructors one after the other and waits for nothing. A kill may still happen, and
`ExitSaves` allows for it. `BPlusTree` has `WF(InsertStep)`: an insertion is
straight-line code with loops, and nothing can be run in between. No strong fairness is
assumed, nor any fairness for the user's commands.

## 4. Proofs

`StaticBuffer_proofs` proves for every number of blocks (at least one), frames (at least
two), map blocks, values and timestamps, under `BufferAssumption` and the two hypotheses
`GarbageOutside` and `ReleasedInFrame` (see the assumptions above):

* `TypeCorrect`: `Spec => []TypeOK`.
* `LiveFrameUnique`, `StaleCopiesSafe`, `CleanFramesSafe`, `FillingStaysDirty`: `OneLiveFrame`,
  `StaleBehindLive`, `CleanMatchesDisk`, `FillingDirty`.
* `FlushLosesNothing`: `FlushComplete`, what the destructor would leave on the disk.
* `Refinement`: `Spec => ImplementsBlockStore`.

The inductive invariant `Inv` is the conjunction of `TypeOK`, the four frame invariants
and two facts that no run states because they only matter for the induction: live
frames have distinct, non-negative timestamps (`Stamped`), and while a single index block
is being filled its frame is the one used last (`FillingRecent`). None of the parts is
inductive alone:

* An eviction is harmless only if clean frames agree with the run copy (`CleanMatchesDisk`).
* That survives `SetEntry`, which does not mark the block it writes, because the block is
  dirty already (`FillingDirty`).
* `FillingDirty` survives the load of the second block of a split because with two frames
  or more the victim is the oldest frame, and the first block's frame is the youngest
  (`FillingRecent`, `Stamped`).
* All of it speaks of *the* frame of a block, hence `OneLiveFrame`; and every store goes
  through `getBufferNum`, which would pick an abandoned copy without `StaleBehindLive`.
* `StaleBehindLive` holds because a block is allocated into the lowest free frame: the
  abandoned copy is free at that time, so the chosen frame is that copy or lies below it.

There is a lemma for each helper (`getBufferNum`, `setDirtyBit`, `Touch`, `Grab`,
`WriteBack`, `Loaded`) and one for each action.

`DiskSession_proofs` proves for every finite set of relations with any numbers of
attributes and records, every size of the open relation table and any number of sessions,
under `SessionAssumption` and `KillsBeforeCopy` (no kill during the final copy, which
`SessionKilled.cfg` shows to be needed):

* `TypeCorrect`: `Spec => []TypeOK`.
* `CatalogsDescribe`: `SessionConsistent`. The counts the two catalogs keep of themselves
  are cardinalities; `InsertConsistent`, `CreateConsistent` and `DeleteConsistent` compute
  how each user action changes them, with the library's facts about finite sets.
* `SavedCorrect`: `SavedConsistent`, the disk file after any sessions and kills.
* `Refinement`: `Spec => ImplementsSessionStore`, a session commits all changes or none.

The inductive invariant `IInv` adds to these properties what they rest on:

* `Entries`: an open entry has a catalog record, and agrees with it unless it is dirty.
  Without it `closeRel` of a clean entry could lose a count (`WriteBackOk` shows that no
  write-back changes `Current`, whatever the uninitialised dirty flags are).
* `CacheAt`: the catalogs are open while the user works, and nothing is open once the
  buffer is flushed, so that then `Current` is `mem` (`AllClosed`).
* `Flushed`: the parts `~StaticBuffer` has written are in the run copy and stay there. With
  all parts written, the run copy describes the same database (`RunAfterFlush`), although
  the blocks of relations that own none were not written.
* `Copying`: what `~Disk` copies is a consistent run copy.

For the refinement, `StoreStep` and `Stutter` restate the steps of `SessionStore` in terms
of the mapped variables; there is a lemma for each action, and `StoreNext` connects them
to `Store!Next`.

`BPlusTree_proofs` proves for every number of blocks, every odd capacity of leaves and even
capacity of internal blocks, and any records, insertions and blocks owned by others, under
`TreeAssumption` and `RowsAssumption` and the two hypotheses `Distinct` (no value occurs
twice) and `Numeric` (`insertIntoInternal` compares as the leaves do):

* `TypeCorrect`: `Spec => []TypeOK`; entries never overflow a block.
* `ParentsAgree`, `KeysSorted`: `ParentLinks`, `KeysAscend`.
* `HeightBalanced`: `Balanced`, all leaves at one depth.
* `NoneLost`: `NoOrphans`, for trees of any height and a disk that runs full at any split.
* `SearchesComplete`: `SearchComplete`, every search finds exactly what it should, for each
  of the six operators.
* `ChainComplete`: `LeavesLinked`, the chain has all leaves in the order of the tree.

The hypotheses are those of the run `btree`, and each is needed: with equal values TLC finds
`SearchComplete` violated, and with keys compared in another order `KeysAscend` (finding 3
and `BPlusTreeStrings.cfg`). `RowsAssumption` says that a
relation has a record once: a record is a slot.

None of the properties is inductive, since they speak of the tree between insertions. `IInv`
in `BPlusTree_inv` describes it at each step of one. It says that there are a function
`level`, the height of a block above the leaves, and a function `range`, the values that
searches take to a block, such that (`Tree`):

* A leaf has level 0, its records ascend and have values in its range (`LeafOk`).
* The keys of an internal block ascend within its range and cut it into the ranges of its
  children (`Slice`), which are one level lower and point back to it (`InternalOk`, `ChildOk`).
* Every index block is a child of its parent, except the root and, during a split, the new
  right half (`Roots`, `HasParent`).
* During a split, the entry for the level above is a value inside one slice of the parent's
  range: the left half has what is not above it (`Cut`), the right half what is
  (`SplitOk`). This is what makes the place that the code finds by value the place where
  the split child is (`PlaceIs`), and it fails for equal values.
* The record on its way is in no leaf yet (`RecordsOnce`) and its value is in the range of the
  block that `findLeafToInsert` has reached, so it is in order wherever it is put.

The existence of the two functions is kept as they change: a leaf split halves one range, an
internal split one range and its children's parents, a new root adds a level. Lemmas on
sequences say what the insertion of an entry and the cut of a full block do to keys and
children (`RisingInsert`, `EntryDivides`, `HalvesAre`, `KidsHalvesAre`).

`Subtree`, what `bPlusDestroy` visits, is a recursive function, and `NoneLost` needs two
inductions over it, on levels. Both are done by a least counterexample (`LeastNumber`): that
the function has a value everywhere (`ReleasedHasSolution` gives one, `SubtreeIs` unfolds it
on index blocks), and that every index block lies below one of the roots (`Whole`). Until
an insertion has linked the right half, `Whole` covers the tree and that half together,
which is exactly what `Unwind` releases.

`Depths` is a recursive function too. That it has a value is shown by the singletons of
`level`, and that its value is these by a third least counterexample (`DepthsIs`).

`SearchesComplete` and `ChainComplete` need a second invariant, `JInv`, kept by every step from a state with
`IInv` (`NextLinked`):

* `Linked`: some sequence lists all leaves as `rblock` links them, each value in an earlier
  leaf is smaller than each in a later one, and only a leaf that is alone may be empty. That
  a new record keeps this order rests on `NoGap`: a leaf's range has no hole that another
  block fills.
* `RecordsIn`: the records whose insertion is complete are in leaves.
* `KeysFound`: every key is the value of a record in a leaf. Hence the largest value of a range
  is stored, unless the range goes to the end (`Ended`).

`Ended` is what makes the early exits of a search sound: a search that gives up at the end
of its first leaf would miss a hit in the next, if the leaf it started in could hold nothing
as large as what it looks for. The proof takes the searches in two groups. NE, LT and LE start in the
first leaf (`StartSmallest`). EQ, GE and GT look for values from some `w` on (`Aims`) and start in
the leaf whose range has `w` (`StartLarger`); a search for values above the largest finds
nothing (`FoundNone`). The way down and the chain, recursive functions, are unfolded by least
counterexamples (`StartIn`, `ChainIs`), and `FoundAll` reduces what a search returns to: it does
not give up before a hit.

`ChainComplete` compares `Linked`'s list with the one `LeavesLinked` puts together from the
children of each block. By a least counterexample on levels (`ListIs`), what is listed below a
block is a segment of the list, and its leaves take exactly the block's range. The segments of
two children are apart since a key is between their values (`SegmentsApart`), and nothing is
between them since the block's range has no gap (`SegmentsAdjacent`); `FlattenIs` joins them.

`Algebra_proofs` proves for any relations, records, indexes and queries, every number of
blocks and of slots in them, and every size of the open relation table and of the relation
catalog, under `AlgebraAssumption`:

* `OpenRestored`: `TargetsClosed`, what is open after a query, whichever of its functions
  failed at whichever record.
* `FailureUndone`: `OthersKept`, the relations a function leaves as the query found them.

Both hold for every outcome of a full disk: if it is noticed, the target is undone; if it is
not, the function goes on and may succeed with records missing, but touches no other
relation and closes what it would close.

`TargetsClosed` speaks of the end of a query alone. The inductive invariant `IInv` says for
each `pc` what is open and what has changed since the query began:

* `Called`, `Failed`: nothing but what was open (`Base`: with the temporary relation, once
  the second function reads it), and nothing changed but the temporary relation (`Temps`).
  `Called` no longer holds when a loss happened while the target was being prepared; then
  no step follows (`Stuck`).
* `Filling`: the target as well, which was neither open nor in the catalog before. Deleting
  it on a failure therefore restores the state before it, and no relation of the user goes.
* `Succeeded`: the target is closed, or open after a join.
* `OpenExist`: open relations exist. Thus a target that `createRel` accepts is not open, and
  `deleteRel` of the closed target is not refused.
* `Running`: the second function of a query runs on a temporary relation that was not open
  when the query began, so closing and deleting it in the end restores what was open.

There is a lemma for each call (`CreateCall` to `IndexCall`), one for each step of a
function that reduces it to one of six outcomes (`Refused`, `Prepared`, `Stuck`, `Extended`,
`Undone`, `Closed`), and one for each outcome and each step of the front end.

`AlgebraIndex_proofs` proves under the same assumption:

* `RecordsFit`: `TypeOK`. Every record of every relation, of targets and temporary
  relations too, has a value for each attribute, and the open relation table never holds
  more than it has entries.
* `IndexesExact`: `IndexExact`, for any indexes, made before or after their relation is
  filled, while it is closed and opened, renamed, joined and dropped, until something is
  lost on a full disk: then an index has the record id of a record that is stored nowhere.

The invariant is `JInv`, on top of `IInv`. Once something is lost, only the part of it that
`RecordsFit` needs is kept (`Over` and, for a function that is still running, `LostStep`):

* `InOrder`: the database is `Sound`, which says of each relation alone (`Local`) that its
  records fit, that its entry in the open relation table points into it, that the trees
  with its name are those it knows (`Known`: from the cache while it is open), and that
  each of them lists its records (`Lists`). A call touches one relation (`OneChanges`), so
  there is one lemma for each (`SoundCreate` to `SoundReset`).
* `Ready`: while a target fills, the sources are open, the attributes of the condition
  exist, and the target has as many attributes as the records that go into it have values
  (`Width`). Nothing tests that when they are inserted: that it holds follows from how the
  target was created, several steps earlier.
* `AtRow`: the outer record of a join exists while the inner loop runs.
* `Fits`: a selection that has closed its target leaves an entry of the open relation table
  free. The front end opens the temporary relation again without asking (`FirstReturns`),
  and without this part the table could overflow there.

That `Leaf`, the records entered one by one, lists all of them is an induction over their
number, done by a least counterexample as well (`LeafLists`); its step is `EnteredLists`:
behind all values that are not larger is the right place.

`AttrCatalog_proofs` proves for every number of blocks, any number of slots, relations and
attributes, any set `Evicted` of write-backs, any set `Handed` of numbers on a full disk, and
every `Consistent` disk to start from, under `CatalogAssumption`, `DatabasesAssumption` and the
hypothesis `OneLeaf`:

* `TypeCorrect`: `Spec => []TypeOK`.
* `CatalogIsExact`: `CatalogExact`, through creations that are seen to fail at any record, drops,
  indexes and restarts.
* `ListIsLinked`, `NothingLeaks`: `ListLinked`, `NoLeak`.
* `SearchFindsItsBlock`: `SearchBlockPresent`. The search in a released block is harmless as
  long as nothing is brought in between that could take its frame. With indexes of one leaf
  nothing is: the leaf is released unread, and the next thing read is the block itself.

No theorem assumes anything about frames: at each read any of the frames with released bytes
may be replaced. `OneLeaf` is needed: with an index of two levels `bPlusDestroy` loads blocks
between two steps of the search, and TLC finds `CatalogExact` violated (finding 4). The
properties themselves end where a record is lost on a full disk (`lost`); what is proved up to
there includes the unwinding of `createRel` when the full disk is noticed.

The properties speak of what lies between operations, and `Catalog` of the bytes a walk along
the links comes to. The invariant `IInv` says that there are a list `L`, the bytes `D` of the
blocks and the records `K` at their places such that (`Holds`):

* `Coherent`: only of released blocks may the bytes be replaced, so those of the others are
  what was written last.
* `List`: the blocks of `L` are linked both ways, and none but the first is empty. It holds
  in the middle of a drop as well.
* `Catalogued`: each attribute has one record (`Complete`), save that the relation being created
  has those inserted so far, and the one being dropped those not yet found.
* `Accounts`: each block has one owner. The record block of a relation being dropped is
  gone already, and its indexes go one by one.
* `Counted`: during a drop the cached count is too high by the records already gone.
* `Position`: where `createRel` or `deleteRel` stands. The search either stands in a block of
  the list and finds all remaining records of its relation from there (`Finds`), or in a
  released one whose bytes a frame still has, whose slots are all free and whose old link
  leads to the place from which it finds them (`InReleased`). The latter is the heart of the proof: it is why a drop misses
  no record although it reads a block it has given back.

The lemmas come in layers: the blocks (`ReplacedOk`, `ReadOk`, `StoreOk`, `NewOk`, `releaseOk`); the list
(`WriteSlot`, `AppendBlock`, `RemoveBlock`); one for each action (`FindSlotOk` to
`CreateIndexOk`). `CatalogIs` shows that the walk along the links, a recursive function,
comes to `L` (by a least counterexample). `InitOk` shows that every `Consistent` disk satisfies
`IInv`, and `LostOk` that nothing follows a loss.

Model-checked only: the XFS modules, what queries return (`ResultExact`), all liveness (the
prover does not support fairness; of the tree, this is `InsertEnds`), and `WritesBackContent`.
The searches of `XFSBPlusTree` are in part RECURSIVE operators, which the prover does not take.

## 5. Findings

1. **Disk full is not reported** (`Buffer/BlockBuffer.cpp:329`). `free` is read
   unassigned, and the constructors copy the member `blockNum` to itself instead of the
   local result. Run `disk_full`.
2. **The final copy is not atomic** (`Disk_Class/Disk.cpp:32`). The disk file is truncated
   before it is rewritten, against the comment at :10-11. Run `session_killed`.
3. **Equal values corrupt a tree** (`BPlusTree/BPlusTree.cpp:610`). The entry for a split
   child is placed by value and not where the child is. Run `btree_duplicates`.
4. **A drop can lose its place** (`BlockAccess/BlockAccess.cpp:696`). The search for the
   relation's catalog records goes on in a released block; if `bPlusDestroy` has taken
   its frame, it follows an old link. Run `attr_catalog_indexed`.
5. **A self-join does not advance** (`Algebra/Algebra.cpp:632`). Both loops use the search
   index of the same relation, and the inner one resets it. Run `algebra_self_join`.
6. **A projection on an unknown name succeeds** (`Algebra/Algebra.cpp:438`). The comment at
   :432 says that it returns `E_ATTRNOTEXIST`; the return value of `getAttrCatEntry` is not
   tested and the offset is not initialised. Run `algebra_unknown`.

Without a run of their own:

* **String indexes are ordered as numbers** (`BPlusTree/BPlusTree.cpp:610`).
  `insertIntoInternal` passes an uninitialised header field where the attribute type
  belongs. `BPlusTreeStrings.cfg` reaches an internal block whose keys descend, against the
  comment at :598-599.
* **Finding 1 loses records.** In `createRel` the comparison with `E_DISKFULL`
  (`BlockAccess/BlockAccess.cpp:343`) fails, and the unwinding that
  `Schema/Schema.cpp:154-156` describes is not reached (`AttrCatalogFull.cfg`). In a query
  likewise, against `Algebra/Algebra.cpp:298-302` (`AlgebraFull.cfg`).

## 6. What is not modelled

* Bytes and layout of blocks, headers and records; the buffer's values stand for them.
  Timestamps do not wrap (2^31 loads).
* In the session: the disk running full, a full relation catalog (`E_MAXRELATIONS`), the
  cached index roots (they are in `Algebra`), renames, and slots inside record blocks; a
  relation's record blocks are one part of the image.
* In the catalog: record blocks beyond a relation's first, indexes that grow, searches other
  than that of `deleteRelation`.
* What follows a record lost on a full disk: the walk that comes next reads an
  uninitialised header, and anything may happen.
* In the algebra: the blocks of the attribute catalog (a creation on a full disk may or
  may not find room in them), and failing commands other than queries.
* In the tree: several indexes of one relation, which share nothing but the disk.
* In XFS: strings and type mismatches, the catalogs as sources of queries (their records have
  types of their own), the commands that only print or export, batch files, and a kill in
  the middle of a command: nothing in the program recovers from one.
* XFS and a session of NITCbase on the same file at once: the session works on its run
  copy and overwrites what XFS did. No line arranges who may use the file.
* Failing `fopen` of the disk files, and any failure of the file system. In XFS, `getRecord`
  returns `E_FREESLOT` without closing the file it has opened
  (`src/DBMS/NITCbase/XFS_Interface/block_access.cpp:688`); that a process runs out of
  file handles is not modelled.
* Frontend interface (text), `temp.cpp` (an old tree that the Makefile does not compile),
  batch files.

## 7. Plan

Done, in this order: the buffer with its abstract store and its proofs, since
everything rests on it; the session, where the layers meet; the B+ tree; the attribute
catalog; the algebra with the front end; the XFS interface with its abstract store; the
proofs about the session; the proofs about queries; the proofs about the tree; the proofs
about indexes; the proofs about the attribute catalog; the proofs about searches of the tree.

Next:

1. An abstract specification of `Algebra`, in which a query is one step that either adds
   exactly its target or changes nothing, and the refinement from the loops.
2. `XFS`: strings, and the catalogs as sources of queries.
3. `AttrCatalog`: `renameRelation` over both catalogs, if `renameRel` is ever opened to it,
   and indexes that grow while the catalog does.
4. `BPlusTree`: a full disk that is not noticed, as `AttrCatalog` and `Algebra` have it.
