---------------------------- MODULE AttrCatalog -----------------------------
(***************************************************************************)
(* The attribute catalog as a list of record blocks: createRel inserts a   *)
(* record per attribute, deleteRel searches for them, frees their slots,   *)
(* unlinks and releases the blocks that become empty and destroys the      *)
(* indexes.  The search goes on from the slot it stopped at, also when the *)
(* block of that slot has just been released.  StaticBuffer shows that a    *)
(* block with an owner reads as it was last written, whatever is replaced; *)
(* of a released block it promises that only while a frame still has its   *)
(* bytes: a later read returns what the run copy has.  So there are no     *)
(* frames here, only what they may still hold; any number of frames will   *)
(* do from three on, which keep a block and its two neighbours.            *)
(***************************************************************************)
EXTENDS Integers, SequencesExt

CONSTANTS
  DISK_BLOCKS,      \* blocks; the first is the first of the attribute catalog
  SLOTS,            \* slots of an attribute catalog block (20)
  OwnSlots,         \* slots of the first block that hold the catalogs' attributes (12)
  Rel, NumAttrs,    \* user relations, and how many attributes each has
  Filled,           \* bound: the relations that get records
  Indexed,          \* bound: the <<relation, attribute>> that get an index
  Evicted,          \* bound: the <<pc, block>> at which a block with an owner leaves its frame
  Leaves,           \* leaves of an index: one, or two below a root
  Handed,           \* what a RecBuffer has as blockNum if no block is unused
  Databases         \* what the disk may hold when the first session starts

NotCreated == -2
E_DISKFULL == -96

Block     == 0 .. DISK_BLOCKS - 1
BlockOrNo == Block \cup {-1}
Slot      == 1 .. SLOTS
First     == 0

ASSUME CatalogAssumption ==
  /\ DISK_BLOCKS \in Nat \ {0}
  /\ SLOTS \in Nat /\ OwnSlots \in 1 .. SLOTS
  /\ Rel \cap {"free", "own", "none"} = {} /\ NumAttrs \in [Rel -> Nat \ {0}]
  /\ Filled \subseteq Rel /\ Indexed \subseteq Filled \X Nat
  /\ \A p \in Indexed : p[2] \in 1 .. NumAttrs[p[1]]
  /\ Leaves \in 1 .. 2
  /\ Handed \subseteq Int

VARIABLES
  mem,      \* mem[b]: the bytes a read of block b returns
  run,      \* run[b]: the bytes of block b in the run copy
  alloc,    \* alloc[b]: the type of block b
  held,     \* the released blocks whose bytes a frame still has
  firstBlk, \* firstBlk[r]: the record block of relation r, -1, or NotCreated
  numRecs,  \* the record count of the attribute catalog in the cache
  pc,       \* "idle", "insert", "search", "delete"
  cur,      \* the relation that is created or dropped
  attr,     \* the attribute to insert next
  prev,     \* prevBlockNum in insert
  at,       \* the block and slot insert or linearSearch stands at
  deleted,  \* numberOfAttributesDeleted
  lost      \* a record was inserted on a full disk, into no block or another's

buffer == <<mem, run, alloc, held>>
vars   == <<mem, run, alloc, held, firstBlk, numRecs, pc, cur, attr, prev, at, deleted, lost>>

\* a slot is free, or has the record of an attribute, or one that is never
\* searched for: an attribute of the catalogs
NoRec     == [rel |-> "free", attr |-> 0, root |-> -1]
OwnRec    == [rel |-> "own", attr |-> 0, root |-> -1]
Rec(r, a) == [rel |-> r, attr |-> a, root |-> -1]

\* the bytes of a block: header links, slots, children.  Blocks of user
\* relations and leaves of indexes have no slot the search would match
Plain == [lblock |-> -1, rblock |-> -1, slots |-> [s \in Slot |-> NoRec], kids |-> {}]

-----------------------------------------------------------------------------
(* The blocks as a record u, so that one step can make several calls.       *)

Buf == [mem |-> mem, run |-> run, alloc |-> alloc, held |-> held]

SetBuf(u) == mem' = u.mem /\ run' = u.run /\ alloc' = u.alloc /\ held' = u.held

NextUnused(u) == Min({b \in Block : u.alloc[b] = "UNUSED_BLK"})

\* loadBlockAndGetBufferPtr gives a released block a frame like any other
Load(u, b) == IF u.alloc[b] # "UNUSED_BLK" THEN u ELSE [u EXCEPT !.held = @ \cup {b}]

Store(u, b, v) == [Load(u, b) EXCEPT !.mem[b] = v]

New(u, t, v) ==
  LET b == NextUnused(u)
  IN [u EXCEPT !.mem[b] = v, !.alloc[b] = t, !.held = @ \ {b}]

\* its frame is free for the next block, and has the bytes until then
releaseBlock(u, b) == [u EXCEPT !.alloc[b] = "UNUSED_BLK", !.held = @ \cup {b}]

Unused == {b \in Block : alloc[b] = "UNUSED_BLK"}

\* blocks are brought into frames, some of them into those of released blocks,
\* of which the bytes of the run copy remain
Replaced(u) ==
  {[u EXCEPT !.held = h, !.mem = [b \in Block |-> IF b \in u.held \ h THEN u.run[b] ELSE @[b]]] :
     h \in SUBSET u.held}

\* block b is read: the frame that has it stays
Read(u, b) == {Load(w, b) : w \in {x \in Replaced(u) : b \in u.held => b \in x.held}}

\* mutated: the leaf is read before it is released
bPlusDestroyReads(u, b) ==
  IF b = -1 THEN {u} ELSE {releaseBlock(w, b) : w \in Read(u, b)}

\* the root above leaves is read, and released with them
DestroyRoot(u, b) ==
  {FoldSet(LAMBDA c, w : releaseBlock(w, c), w0, u.mem[b].kids \cup {b}) : w0 \in Read(u, b)}

\* a leaf is released unread
bPlusDestroy(u, b) ==
  CASE b = -1 -> {u}
    [] b # -1 /\ u.alloc[b] = "IND_LEAF"     -> {releaseBlock(u, b)}
    [] b # -1 /\ u.alloc[b] = "IND_INTERNAL" -> DestroyRoot(u, b)
    [] OTHER -> {u}

-----------------------------------------------------------------------------
(* The block list.                                                         *)

\* the blocks from the first one on, linked by rblock
Catalog ==
  LET link[i \in 1 .. DISK_BLOCKS] ==
        IF i = 1 THEN First
        ELSE LET b == link[i - 1] IN IF b = -1 THEN -1 ELSE mem[b].rblock
  IN [i \in 1 .. Cardinality({j \in 1 .. DISK_BLOCKS : link[j] # -1}) |-> link[i]]

\* where the records of relation r are
Places(r) ==
  {p \in ToSet(Catalog) \X Slot : mem[p[1]].slots[p[2]].rel = r}

\* where that of attribute a is
Place(r, a) == CHOOSE p \in Places(r) : mem[p[1]].slots[p[2]].attr = a

\* the blocks of an index with the given root, in the order of createIndex
Tree(root) == IF Leaves = 1 THEN {root} ELSE root - 2 .. root

\* the records of attributes of relations in a list of blocks
AttrRec        == [rel : Rel, attr : Nat, root : BlockOrNo]
Recorded(list) == {p \in (1 .. Len(list)) \X Slot : list[p[1]][p[2]] \in AttrRec}

\* what a disk holds after a session: no block but the first is empty, each
\* relation has a record of each of its attributes, each block one owner
Consistent(d) ==
  LET records    == Recorded(d.list)
      rec(p)     == d.list[p[1]][p[2]]
      indexed    == {p \in records : rec(p).root # -1}
      created(r) == d.firstBlk[r] # NotCreated
      behind     == Len(d.list) .. DISK_BLOCKS - 1
  IN
  /\ d.list \in Seq([Slot -> {NoRec, OwnRec} \cup AttrRec]) /\ Len(d.list) \in 1 .. DISK_BLOCKS
  /\ d.firstBlk \in [Rel -> behind \cup {-1, NotCreated}]
  /\ \A p \in (1 .. Len(d.list)) \X Slot : rec(p) = OwnRec <=> p[1] = 1 /\ p[2] <= OwnSlots
  /\ \A i \in 2 .. Len(d.list) : \E s \in Slot : d.list[i][s] # NoRec
  /\ \A p \in records : created(rec(p).rel) /\ rec(p).attr \in 1 .. NumAttrs[rec(p).rel]
  /\ \A p, q \in records : rec(p).rel = rec(q).rel /\ rec(p).attr = rec(q).attr => p = q
  /\ \A r \in Rel : created(r) =>
       \A a \in 1 .. NumAttrs[r] : \E p \in records : rec(p).rel = r /\ rec(p).attr = a
  /\ \A q, r \in Rel : d.firstBlk[q] \in behind /\ d.firstBlk[q] = d.firstBlk[r] => q = r
  /\ \A p \in indexed :
       /\ Tree(rec(p).root) \subseteq behind \ {d.firstBlk[r] : r \in Rel}
       /\ \A q \in indexed \ {p} : Tree(rec(p).root) \cap Tree(rec(q).root) = {}

ASSUME DatabasesAssumption == \A d \in Databases : Consistent(d)

Roots(list) == {list[i][s].root : i \in DOMAIN list, s \in Slot} \ {-1}

BytesOf(list, b) ==
  CASE b < Len(list) ->
         [Plain EXCEPT !.slots  = list[b + 1],
                       !.lblock = b - 1,
                       !.rblock = IF b + 1 < Len(list) THEN b + 1 ELSE -1]
    [] Leaves = 2 /\ b \in Roots(list)     -> [Plain EXCEPT !.kids = {b - 2, b - 1}]
    [] Leaves = 2 /\ b + 2 \in Roots(list) -> [Plain EXCEPT !.rblock = b + 1]
    [] OTHER -> Plain

TypeOf(list, first, b) ==
  CASE b < Len(list) \/ b \in {first[r] : r \in Rel} -> "REC"
    [] b >= Len(list) /\ Leaves = 2 /\ b \in Roots(list) -> "IND_INTERNAL"
    [] b \in UNION {Tree(x) : x \in Roots(list)} /\ ~(Leaves = 2 /\ b \in Roots(list)) -> "IND_LEAF"
    [] OTHER -> "UNUSED_BLK"

\* the disk for a list of blocks (slots of blocks 0, 1, ...) and record blocks
Image(list, first) ==
  [run |-> [b \in Block |-> BytesOf(list, b)], alloc |-> [b \in Block |-> TypeOf(list, first, b)]]

Init ==
  /\ \E d \in Databases :
       /\ run = Image(d.list, d.firstBlk).run
       /\ alloc = Image(d.list, d.firstBlk).alloc
       /\ firstBlk = d.firstBlk
  /\ mem = run /\ held = {}
  /\ numRecs = Cardinality({p \in Block \X Slot : run[p[1]].slots[p[2]] # NoRec})
  /\ pc = "idle" /\ cur = "none" /\ attr = 0
  /\ prev = -1 /\ at = <<-1, 1>> /\ deleted = 0 /\ lost = FALSE

\* createRel or deleteRelation returns
Return ==
  /\ pc' = "idle" /\ cur' = "none" /\ attr' = 0
  /\ prev' = -1 /\ at' = <<-1, 1>> /\ deleted' = 0

-----------------------------------------------------------------------------
(* createRel                                                               *)

CreateRel(r) ==
  /\ pc = "idle" /\ firstBlk[r] = NotCreated
  /\ firstBlk' = [firstBlk EXCEPT ![r] = -1]
  /\ pc' = "insert" /\ cur' = r /\ attr' = 1
  /\ prev' = -1 /\ at' = <<First, 1>>
  /\ UNCHANGED <<buffer, numRecs, deleted, lost>>

\* the record is stored: the next attribute, or the end
Stored ==
  /\ numRecs' = numRecs + 1
  /\ UNCHANGED firstBlk
  /\ IF attr = NumAttrs[cur]
     THEN Return
     ELSE /\ attr' = attr + 1
          /\ prev' = -1 /\ at' = <<First, 1>>
          /\ UNCHANGED <<pc, cur, deleted>>

\* insert looks for a free slot in the next block of the list
FindSlot ==
  LET b     == at[1]
      block == mem[b]
      free  == {s \in Slot : block.slots[s] = NoRec}
  IN
  /\ pc = "insert" /\ b # -1
  /\ \/ /\ free # {}
        /\ \E u \in Read(Buf, b) :
             SetBuf(Store(u, b, [block EXCEPT !.slots[Min(free)] = Rec(cur, attr)]))
        /\ Stored
     \/ /\ free = {}
        /\ \E u \in Read(Buf, b) : SetBuf(u)
        /\ prev' = b /\ at' = <<block.rblock, 1>>
        /\ UNCHANGED <<firstBlk, numRecs, pc, cur, attr, deleted>>
  /\ UNCHANGED lost

\* the end of the list: a new block is linked behind the last one
ExtendList ==
  LET new == [Plain EXCEPT !.lblock = prev, !.slots[1] = Rec(cur, attr)] IN
  /\ pc = "insert" /\ at[1] = -1 /\ Unused # {}
  /\ \E w \in Replaced(Buf) :
       LET u == New(w, "REC", new) IN
       SetBuf(Store(u, prev, [u.mem[prev] EXCEPT !.rblock = NextUnused(Buf)]))
  /\ Stored
  /\ UNCHANGED lost

\* deleteRelation resets the search and goes through the list
BeginSearch(r) ==
  /\ pc' = "search" /\ cur' = r /\ attr' = 0
  /\ prev' = -1 /\ at' = <<First, 1>> /\ deleted' = 0

\* no block is unused: if the block number handed out happens to be the code
\* E_DISKFULL, createRel drops the relation again
ExtendListFull ==
  /\ pc = "insert" /\ at[1] = -1 /\ Unused = {} /\ E_DISKFULL \in Handed
  /\ BeginSearch(cur)
  /\ UNCHANGED <<buffer, firstBlk, numRecs, lost>>

\* any other number is used: the last block is linked to it and the record
\* counted, in no block or in place of what block g had
ExtendListLost(g) ==
  LET new == [Plain EXCEPT !.lblock = prev, !.slots[1] = Rec(cur, attr)]
      u   == IF g \in Block THEN Store(Buf, g, new) ELSE Buf
  IN
  /\ pc = "insert" /\ at[1] = -1 /\ Unused = {} /\ g \in Handed \ {E_DISKFULL}
  /\ SetBuf(Store(u, prev, [u.mem[prev] EXCEPT !.rblock = g]))
  /\ Stored
  /\ lost' = TRUE

-----------------------------------------------------------------------------
(* deleteRelation                                                          *)

\* the record blocks are read for their links and released
DropRel(r) ==
  /\ pc = "idle" /\ firstBlk[r] # NotCreated
  /\ IF firstBlk[r] = -1
     THEN UNCHANGED buffer
     ELSE \E u \in Read(Buf, firstBlk[r]) : SetBuf(releaseBlock(u, firstBlk[r]))
  /\ BeginSearch(r)
  /\ UNCHANGED <<firstBlk, numRecs, lost>>

\* linearSearch in one block of the list, from the slot it stands at
linearSearch ==
  LET b    == at[1]
      hits == {s \in Slot : s >= at[2] /\ mem[b].slots[s].rel = cur}
  IN
  /\ pc = "search" /\ b # -1
  /\ \E u \in Read(Buf, b) : SetBuf(u)
  /\ \/ /\ hits # {}
        /\ pc' = "delete" /\ at' = <<b, Min(hits)>>
     \/ /\ hits = {}
        /\ at' = <<mem[b].rblock, 1>>
        /\ UNCHANGED pc
  /\ UNCHANGED <<firstBlk, numRecs, cur, attr, prev, deleted, lost>>

\* mutated: the right neighbour keeps its link to the block
UnlinkOneWay(u, block) ==
  Store(u, block.lblock, [u.mem[block.lblock] EXCEPT !.rblock = block.rblock])

\* the neighbours of an empty block are linked to each other
Unlink(u, block) ==
  LET v == Store(u, block.lblock, [u.mem[block.lblock] EXCEPT !.rblock = block.rblock])
  IN IF block.rblock = -1 THEN v
     ELSE Store(v, block.rblock, [v.mem[block.rblock] EXCEPT !.lblock = block.lblock])

\* mutated: the empty block is taken out of the list and not released
FreeSlotKeep(u, b, s) ==
  LET block == [u.mem[b] EXCEPT !.slots[s] = NoRec]
      v     == Store(u, b, block)
  IN IF \E t \in Slot : block.slots[t] # NoRec THEN v ELSE Unlink(v, block)

\* a freed slot; a block without records is unlinked and released
FreeSlot(u, b, s) ==
  LET block == [u.mem[b] EXCEPT !.slots[s] = NoRec]
      v     == Store(u, b, block)
  IN IF \E t \in Slot : block.slots[t] # NoRec
     THEN v
     ELSE releaseBlock(Unlink(v, block), b)

\* mutated: the search goes on two slots behind the record
DeleteAttrSkip ==
  /\ pc = "delete"
  /\ \E w \in Read(Buf, at[1]) :
       \E u \in bPlusDestroy(FreeSlot(w, at[1], at[2]),
                            mem[at[1]].slots[at[2]].root) : SetBuf(u)
  /\ deleted' = deleted + 1
  /\ pc' = "search" /\ at' = <<at[1], at[2] + 2>>
  /\ UNCHANGED <<firstBlk, numRecs, cur, attr, prev, lost>>

\* the slot is freed, the block released if that was its last record, then
\* the index goes; the search goes on behind the slot
DeleteAttr ==
  /\ pc = "delete"
  /\ \E w \in Read(Buf, at[1]) :
       \E u \in bPlusDestroy(FreeSlot(w, at[1], at[2]),
                            mem[at[1]].slots[at[2]].root) : SetBuf(u)
  /\ deleted' = deleted + 1
  /\ pc' = "search" /\ at' = <<at[1], at[2] + 1>>
  /\ UNCHANGED <<firstBlk, numRecs, cur, attr, prev, lost>>

\* mutated: the records found are not taken off the count
DropEndsCount ==
  /\ pc = "search" /\ at[1] = -1
  /\ firstBlk' = [firstBlk EXCEPT ![cur] = NotCreated]
  /\ Return
  /\ UNCHANGED <<buffer, numRecs, lost>>

\* nothing is found any more: the relation record goes, the counts are set
DropEnds ==
  /\ pc = "search" /\ at[1] = -1
  /\ firstBlk' = [firstBlk EXCEPT ![cur] = NotCreated]
  /\ numRecs' = numRecs - deleted
  /\ Return
  /\ UNCHANGED <<buffer, lost>>

-----------------------------------------------------------------------------
(* What else takes blocks, and the end of a session.                       *)

\* the first record of a relation; bound: with a block for it (for a full disk
\* see Algebra)
FirstRecord(r) ==
  /\ pc = "idle" /\ r \in Filled /\ firstBlk[r] = -1 /\ Unused # {}
  /\ \E u \in Replaced(Buf) : SetBuf(New(u, "REC", Plain))
  /\ firstBlk' = [firstBlk EXCEPT ![r] = NextUnused(Buf)]
  /\ UNCHANGED <<numRecs, pc, cur, attr, prev, at, deleted, lost>>

\* openRel, createIndex and closeRel, which stores the root; bound: with blocks
\* for the index
CreateIndex(r, a) ==
  LET p     == Place(r, a)
      block == mem[p[1]]
  IN
  /\ pc = "idle" /\ <<r, a>> \in Indexed /\ firstBlk[r] \in Block
  /\ block.slots[p[2]].root = -1
  /\ Cardinality(Unused) >= IF Leaves = 1 THEN 1 ELSE 3
  /\ \E u \in Replaced(Buf) :
       LET k1   == NextUnused(u)
           v    == New(u, "IND_LEAF", Plain)
           k2   == NextUnused(v)
           w    == New(v, "IND_LEAF", Plain)
           tree == IF Leaves = 1 THEN v
                   ELSE Store(New(w, "IND_INTERNAL", [Plain EXCEPT !.kids = {k1, k2}]),
                              k1, [Plain EXCEPT !.rblock = k2])
           root == IF Leaves = 1 THEN k1 ELSE NextUnused(w)
       IN SetBuf(Store(tree, p[1], [block EXCEPT !.slots[p[2]].root = root]))
  /\ UNCHANGED <<firstBlk, numRecs, pc, cur, attr, prev, at, deleted, lost>>

\* a dirty frame is written to the run copy
Evict(b) ==
  /\ <<pc, b>> \in Evicted /\ alloc[b] # "UNUSED_BLK" /\ run[b] # mem[b]
  /\ run' = [run EXCEPT ![b] = mem[b]]
  /\ UNCHANGED <<mem, alloc, held, firstBlk, numRecs, pc, cur, attr, prev, at, deleted, lost>>

\* ~StaticBuffer writes the dirty frames; the next one reads the file
Restart ==
  LET image == [b \in Block |-> IF alloc[b] # "UNUSED_BLK" THEN mem[b] ELSE run[b]] IN
  /\ pc = "idle"
  /\ mem' = image /\ run' = image /\ held' = {}
  /\ UNCHANGED <<alloc, firstBlk, numRecs, pc, cur, attr, prev, at, deleted, lost>>

Step == FindSlot \/ ExtendList \/ ExtendListFull \/ linearSearch \/ DeleteAttr \/ DropEnds

\* bound: nothing is followed once a record is lost, for the walk that comes
\* next reads a header that was never loaded
Next ==
  \/ ~lost /\ \E r \in Rel : CreateRel(r) \/ DropRel(r) \/ FirstRecord(r)
  \/ ~lost /\ \E p \in Indexed : CreateIndex(p[1], p[2])
  \/ ~lost /\ \E b \in Block : Evict(b)
  \/ ~lost /\ \E g \in Handed : ExtendListLost(g)
  \/ ~lost /\ (Step \/ Restart)
  \/ lost /\ UNCHANGED vars

Spec == Init /\ [][Next]_vars

-----------------------------------------------------------------------------
(* Properties.                                                             *)

Created == {r \in Rel : firstBlk[r] # NotCreated}

\* Every variable has its type.
TypeOK ==
  /\ held \in SUBSET Block
  /\ alloc \in [Block -> {"UNUSED_BLK", "REC", "IND_LEAF", "IND_INTERNAL"}]
  /\ firstBlk \in [Rel -> BlockOrNo \cup {NotCreated}]
  /\ numRecs \in Nat /\ deleted \in Nat
  /\ pc \in {"idle", "insert", "search", "delete"}
  /\ at \in BlockOrNo \X (1 .. SLOTS + 1) /\ prev \in BlockOrNo /\ lost \in BOOLEAN

\* "Deleting attribute catalog entries corresponding the relation"
\* (BlockAccess.cpp:597): between operations the catalog has one record for
\* each attribute of each relation and no other, and its count says how many,
\* as long as no record was lost on a full disk.
CatalogExact ==
  pc = "idle" /\ ~lost =>
    /\ \A r \in Rel \ Created : Places(r) = {}
    /\ \A r \in Created :
         /\ Cardinality(Places(r)) = NumAttrs[r]
         /\ {mem[p[1]].slots[p[2]].attr : p \in Places(r)} = 1 .. NumAttrs[r]
    /\ numRecs = OwnSlots + Cardinality(UNION {Places(r) : r \in Created})

\* Between operations the blocks of the list are linked both ways, and none
\* but the first is empty, as long as no record was lost on a full disk.
ListLinked ==
  pc = "idle" /\ ~lost =>
    \A i \in 1 .. Len(Catalog) - 1 :
      LET block == mem[Catalog[i + 1]] IN
      block.lblock = Catalog[i] /\ \E s \in Slot : block.slots[s] # NoRec

\* Between operations each allocated block is in the catalog's list, is the
\* record block of a relation or belongs to an index, and only to one of them,
\* as long as no record was lost on a full disk.
NoLeak ==
  LET catalog == ToSet(Catalog)
      records == {firstBlk[r] : r \in Rel} \ {-1, NotCreated}
      roots   == {mem[p[1]].slots[p[2]].root :
                    p \in UNION {Places(r) : r \in Created}} \ {-1}
      trees   == roots \cup UNION {mem[b].kids : b \in roots}
  IN pc = "idle" /\ ~lost =>
       /\ Block \ Unused = catalog \cup records \cup trees
       /\ catalog \cap records = {} /\ (catalog \cup records) \cap trees = {}

\* What the buffer relies on (ReleasedInFrame in StaticBuffer): the search stands
\* in a block that has an owner, or in one whose bytes a frame still holds.
SearchBlockPresent ==
  pc = "search" /\ at[1] # -1 => alloc[at[1]] = "REC" \/ at[1] \in held

\* "if attribute catalog insert fails: delete the relation by calling
\* deleteRel(targetrel) of schema layer return E_DISKFULL" (Schema.cpp:154): a
\* relation that is there between operations has a record of each attribute.
CreatedWhole ==
  pc = "idle" =>
    \A r \in Created : \A a \in 1 .. NumAttrs[r] :
      \E b \in Block, s \in Slot :
        alloc[b] = "REC" /\ mem[b].slots[s].rel = r /\ mem[b].slots[s].attr = a
=============================================================================
