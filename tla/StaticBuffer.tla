---------------------------- MODULE StaticBuffer ----------------------------
(***************************************************************************)
(* The buffer layer: StaticBuffer (frames, replacement, dirty bits, block  *)
(* allocation map) and the BlockBuffer family of objects through which     *)
(* record and index blocks are read, written, allocated and released.      *)
(* The program has one thread, so one action is one call of a public       *)
(* operation.  The bytes of a block are a value: a write makes it any      *)
(* other value.                                                            *)
(***************************************************************************)
EXTENDS Integers

CONSTANTS
  DISK_BLOCKS,                \* number of blocks of the disk
  BLOCK_ALLOCATION_MAP_SIZE,  \* blocks 0 .. this - 1 hold the map itself
  BUFFER_CAPACITY,            \* number of frames
  Values, NoContent,          \* see BlockStore
  NewTypes,                   \* block types the clients allocate
  EntryIndex,                 \* indexNum arguments of setEntry
  Garbage,                    \* what an uninitialised int may hold
  ReleasedAway,               \* may a released block be read that is in no frame?
  MaxStamp                    \* bound: largest timestamp explored

E_DISKFULL == -96

ClientType == {"REC", "IND_INTERNAL", "IND_LEAF"}
BlockType  == ClientType \cup {"UNUSED_BLK", "BMAP"}
IndexType  == {"IND_INTERNAL", "IND_LEAF"}

ASSUME BufferAssumption ==
  /\ DISK_BLOCKS \in Nat \ {0}
  /\ BLOCK_ALLOCATION_MAP_SIZE \in Nat
  /\ BUFFER_CAPACITY \in Nat /\ BUFFER_CAPACITY > 1
  /\ NoContent \notin Values
  /\ NewTypes \subseteq ClientType
  /\ EntryIndex \subseteq Nat
  /\ Garbage \subseteq Int
  /\ ReleasedAway \in BOOLEAN
  /\ MaxStamp \in Nat

VARIABLES
  metainfo,        \* metainfo[f]: free flag, dirty bit, block and timestamp
  blocks,          \* blocks[f]: the bytes in frame f
  blockAllocMap,   \* blockAllocMap[b]: the type of block b
  disk,            \* disk[b]: the bytes of block b in the run copy
  filling,         \* index blocks between setHeader and the last setEntry
  handle           \* blockNum of the object just constructed, or NoHandle

vars == <<metainfo, blocks, blockAllocMap, disk, filling, handle>>

Block    == 0 .. DISK_BLOCKS - 1
MapBlock == 0 .. BLOCK_ALLOCATION_MAP_SIZE - 1
Frames   == 0 .. BUFFER_CAPACITY - 1

E_BLOCKNOTINBUFFER == -1
NoHandle == -1

Owned(b) == blockAllocMap[b] \in ClientType
Unused   == {b \in Block : blockAllocMap[b] = "UNUSED_BLK"}

-----------------------------------------------------------------------------
(* Frames.                                                                 *)

Live(f) == ~metainfo[f].free

\* getBufferNum: the lowest frame that carries b, free or not
getBufferNum(m, b) ==
  IF \E f \in Frames : m[f].blockNum = b
  THEN CHOOSE f \in Frames :
         /\ m[f].blockNum = b
         /\ \A g \in Frames : m[g].blockNum = b => f <= g
  ELSE E_BLOCKNOTINBUFFER

setDirtyBit(m, b) ==
  IF getBufferNum(m, b) = E_BLOCKNOTINBUFFER
  THEN m
  ELSE [m EXCEPT ![getBufferNum(m, b)].dirty = TRUE]

\* k loads of the block in frame f.  The code ages free frames as well, but
\* reads the age of a frame only when none is free: theirs stays put here.
Touch(m, f, k) ==
  [g \in Frames |->
     CASE g = f                  -> [m[g] EXCEPT !.timeStamp = 0]
       [] g # f /\ m[g].free     -> m[g]
       [] g # f /\ ~m[g].free    -> [m[g] EXCEPT !.timeStamp = @ + k]]

\* mutated: the search does not stop at the first free frame
ReplaceableLast(f) ==
  \/ /\ metainfo[f].free
     /\ \A g \in Frames : metainfo[g].free => g <= f
  \/ \A g \in Frames :
       /\ Live(g)
       /\ metainfo[g].timeStamp <= metainfo[f].timeStamp
       /\ metainfo[g].timeStamp = metainfo[f].timeStamp => f <= g

\* the frame getFreeBuffer hands out: the lowest free one, and only when no
\* frame is free the one that was not used for longest
Replaceable(f) ==
  \/ /\ metainfo[f].free
     /\ \A g \in Frames : metainfo[g].free => f <= g
  \/ \A g \in Frames :
       /\ Live(g)
       /\ metainfo[g].timeStamp <= metainfo[f].timeStamp
       /\ metainfo[g].timeStamp = metainfo[f].timeStamp => f <= g

\* getFreeBuffer(b), when it hands out frame f, which is then loaded k - 1
\* times more: the metadata and the run copy
Grab(f, b, k) ==
  [Touch(metainfo, f, k) EXCEPT
     ![f] = [free |-> FALSE, dirty |-> FALSE, blockNum |-> b, timeStamp |-> 0]]

\* mutated: the victim is not written back, or a free frame is as well
WriteBackNever(f) == disk
WriteBackFree(f) ==
  IF metainfo[f].blockNum # -1 /\ metainfo[f].dirty
  THEN [disk EXCEPT ![metainfo[f].blockNum] = blocks[f]]
  ELSE disk

\* the dirty frame that is replaced is written to the run copy first
WriteBack(f) ==
  IF Live(f) /\ metainfo[f].dirty
  THEN [disk EXCEPT ![metainfo[f].blockNum] = blocks[f]]
  ELSE disk

\* what k calls of loadBlockAndGetBufferPtr on block b may leave behind
Loaded(b, k) ==
  IF getBufferNum(metainfo, b) # E_BLOCKNOTINBUFFER
  THEN {[frame |-> getBufferNum(metainfo, b),
         meta  |-> Touch(metainfo, getBufferNum(metainfo, b), k),
         bytes |-> blocks,
         run   |-> disk]}
  ELSE {[frame |-> f,
         meta  |-> Grab(f, b, k),
         bytes |-> [blocks EXCEPT ![f] = WriteBack(f)[b]],
         run   |-> WriteBack(f)] : f \in {g \in Frames : Replaceable(g)}}

Bounded == \A f \in Frames : metainfo'[f].timeStamp <= MaxStamp

-----------------------------------------------------------------------------
(* The start of a session: empty frames, some client blocks on the disk.   *)

Init ==
  /\ metainfo = [f \in Frames |-> [free |-> TRUE, dirty |-> FALSE,
                                   blockNum |-> -1, timeStamp |-> -1]]
  /\ blocks = [f \in Frames |-> NoContent]
  /\ blockAllocMap \in [Block -> NewTypes \cup {"UNUSED_BLK", "BMAP"}]
  /\ \A b \in Block : blockAllocMap[b] = "BMAP" <=> b \in MapBlock
  /\ disk \in [Block -> Values \cup {NoContent}]
  /\ \A b \in Block : disk[b] \in Values <=> Owned(b)
  /\ filling = {}
  /\ handle = NoHandle

\* getHeader and getEntry load the block once, getRecord and getSlotMap twice
Read(b, k) ==
  /\ filling = {} /\ Owned(b)
  /\ \E o \in Loaded(b, k) :
       metainfo' = o.meta /\ blocks' = o.bytes /\ disk' = o.run
  /\ Bounded
  /\ handle' = NoHandle
  /\ UNCHANGED <<blockAllocMap, filling>>

\* load b k times, write v to it and set the dirty bit of block d
StoreInto(b, k, v, d) ==
  /\ \E o \in Loaded(b, k) :
       /\ metainfo' = setDirtyBit(o.meta, d)
       /\ blocks' = [o.bytes EXCEPT ![o.frame] = v]
       /\ disk' = o.run
  /\ Bounded
  /\ handle' = NoHandle
  /\ UNCHANGED blockAllocMap

\* mutated: the dirty bit is set by slot number, as setEntry does
WriteDirtySlot(b, k, v) ==
  /\ filling = {} /\ Owned(b)
  /\ StoreInto(b, k, v, 0)
  /\ UNCHANGED filling

\* setHeader loads the block once, setRecord and setSlotMap twice
Write(b, k, v) ==
  /\ filling = {} /\ Owned(b)
  /\ StoreInto(b, k, v, b)
  /\ UNCHANGED filling

\* mutated: setHeader leaves the dirty bit of the block alone
BeginFillClean(b, v) ==
  /\ Owned(b) /\ blockAllocMap[b] \in IndexType
  /\ filling = {} \/ \E c \in Block : filling = {c} /\ c # b
  /\ StoreInto(b, 1, v, 0)
  /\ filling' = filling \cup {b}

\* setHeader on an index block whose entries are about to be rewritten: one
\* block on an insertion or a new root, the two halves when a block is split
BeginFill(b, v) ==
  /\ Owned(b) /\ blockAllocMap[b] \in IndexType
  /\ filling = {} \/ \E c \in Block : filling = {c} /\ c # b
  /\ StoreInto(b, 1, v, b)
  /\ filling' = filling \cup {b}

\* IndLeaf::setEntry and IndInternal::setEntry write entry i of block b and
\* then set the dirty bit of block number i
SetEntry(b, i, v) ==
  /\ b \in filling
  /\ StoreInto(b, 1, v, i)
  /\ UNCHANGED filling

EndFill ==
  /\ filling # {}
  /\ filling' = {}
  /\ UNCHANGED <<metainfo, blocks, blockAllocMap, disk, handle>>

\* mutated: the allocation map gets the character the constructor was given
AllocateAtChar(b, t, v) ==
  \E f \in Frames :
    LET n == getBufferNum(Grab(f, b, 1), b) IN
    /\ Replaceable(f)
    /\ metainfo' = setDirtyBit(Touch(Grab(f, b, 1), n, 2), b)
    /\ blocks' = [blocks EXCEPT ![n] = v]
    /\ disk' = WriteBack(f)
    /\ blockAllocMap' = [blockAllocMap EXCEPT ![b] = "L"]
    /\ handle' = b

\* getFreeBlock once `free` is chosen: a frame is taken although b may still
\* be in one, and setHeader and setBlockType each look b up again
AllocateAt(b, t, v) ==
  \E f \in Frames :
    LET n == getBufferNum(Grab(f, b, 1), b) IN
    /\ Replaceable(f)
    /\ metainfo' = setDirtyBit(Touch(Grab(f, b, 1), n, 2), b)
    /\ blocks' = [blocks EXCEPT ![n] = v]
    /\ disk' = WriteBack(f)
    /\ blockAllocMap' = [blockAllocMap EXCEPT ![b] = t]
    /\ handle' = b

\* RecBuffer(), IndLeaf(), IndInternal(): take the lowest unused block
NewBlock(t, v) ==
  /\ filling = {}
  /\ \E b \in Unused : (\A c \in Unused : b <= c) /\ AllocateAt(b, t, v)
  /\ Bounded
  /\ UNCHANGED filling

\* The same constructors when no block is unused.  getFreeBlock never assigns
\* `free`: if what it holds is a block number that block is taken, otherwise
\* nothing is allocated and the object keeps the blockNum it happens to hold.
NewBlockDiskFull(t, v) ==
  /\ filling = {} /\ Unused = {}
  /\ \E g \in Garbage :
       \/ g \in Block /\ AllocateAt(g, t, v)
       \/ /\ g \notin Block
          /\ handle' \in Garbage
          /\ UNCHANGED <<metainfo, blocks, blockAllocMap, disk>>
  /\ Bounded
  /\ UNCHANGED filling

\* mutated: the frame of the released block is not freed
releaseBlockKeep(b) ==
  /\ filling = {} /\ Owned(b)
  /\ blockAllocMap' = [blockAllocMap EXCEPT ![b] = "UNUSED_BLK"]
  /\ handle' = NoHandle
  /\ UNCHANGED <<metainfo, blocks, disk, filling>>

\* the frame, if there is one, becomes free and keeps block number and bytes
releaseBlock(b) ==
  LET f == getBufferNum(metainfo, b) IN
  /\ filling = {} /\ Owned(b)
  /\ metainfo' = IF f = E_BLOCKNOTINBUFFER
                 THEN metainfo
                 ELSE [metainfo EXCEPT ![f].free = TRUE]
  /\ blockAllocMap' = [blockAllocMap EXCEPT ![b] = "UNUSED_BLK"]
  /\ handle' = NoHandle
  /\ UNCHANGED <<blocks, disk, filling>>

\* deleteRelation releases an attribute catalog block while its search is
\* positioned there; the next linearSearch reads the block once more, from the
\* frame it was released from or, when a search in an index has taken that frame
\* in between, from the run copy: the unused block is then in a live frame
ReadReleased(b, k) ==
  /\ filling = {} /\ b \in Unused
  /\ ReleasedAway \/ \E f \in Frames : metainfo[f].blockNum = b
  /\ \E o \in Loaded(b, k) :
       metainfo' = o.meta /\ blocks' = o.bytes /\ disk' = o.run
  /\ Bounded
  /\ handle' = NoHandle
  /\ UNCHANGED <<blockAllocMap, filling>>

Next ==
  \/ \E b \in Block, k \in 1 .. 2 : Read(b, k) \/ ReadReleased(b, k)
  \/ \E b \in Block, k \in 1 .. 2, v \in Values : Write(b, k, v)
  \/ \E b \in Block, v \in Values : BeginFill(b, v)
  \/ \E b \in Block, i \in EntryIndex, v \in Values : SetEntry(b, i, v)
  \/ EndFill
  \/ \E t \in NewTypes, v \in Values : NewBlock(t, v) \/ NewBlockDiskFull(t, v)
  \/ \E b \in Block : releaseBlock(b)

Spec == Init /\ [][Next]_vars

-----------------------------------------------------------------------------
(* Properties.                                                             *)

\* What a read of b returns: the bytes of the frame getBufferNum finds, or
\* else those of the run copy.
BytesOf(b) ==
  IF getBufferNum(metainfo, b) # E_BLOCKNOTINBUFFER
  THEN blocks[getBufferNum(metainfo, b)]
  ELSE disk[b]

Content(b) == IF Owned(b) THEN BytesOf(b) ELSE NoContent

\* The run copy after ~StaticBuffer: frames are written in order of their
\* number, those that are free or clean are skipped.
DirtyFramesAny(b) ==   \* mutated: free frames are written too
  {f \in Frames : metainfo[f].dirty /\ metainfo[f].blockNum = b}

DirtyFrames(b) ==
  {f \in Frames : Live(f) /\ metainfo[f].dirty /\ metainfo[f].blockNum = b}

AfterFlush(b) ==
  IF DirtyFrames(b) = {}
  THEN disk[b]
  ELSE blocks[CHOOSE f \in DirtyFrames(b) : \A g \in DirtyFrames(b) : g <= f]

FrameInfo == [free : BOOLEAN, dirty : BOOLEAN,
              blockNum : Block \cup {-1}, timeStamp : Int]

\* Every variable has its type; the map blocks stay map blocks, and at most
\* two index blocks are being filled.
TypeOK ==
  /\ metainfo \in [Frames -> FrameInfo]
  /\ blocks \in [Frames -> Values \cup {NoContent}]
  /\ blockAllocMap \in [Block -> BlockType]
  /\ disk \in [Block -> Values \cup {NoContent}]
  /\ filling = {} \/ \E b, c \in Block : filling = {b, c}
  /\ handle \in Block \cup Garbage \cup {NoHandle}

\* A block is in at most one live frame, and only a block some client owns
\* is: no block has two copies that can drift apart.
OneLiveFrame ==
  \A f \in Frames : Live(f) =>
    /\ metainfo[f].blockNum \in Block
    /\ Owned(metainfo[f].blockNum)
    /\ \A g \in Frames :
         Live(g) /\ metainfo[g].blockNum = metainfo[f].blockNum => g = f

\* A frame keeps its block number when it is freed, and getBufferNum does not
\* look at the free flag.  When the block has an owner again, its live frame
\* is a lower one, so the search never stops at the abandoned bytes.
StaleBehindLive ==
  \A f \in Frames :
    metainfo[f].free /\ metainfo[f].blockNum \in Block
                     /\ Owned(metainfo[f].blockNum)
      => \E g \in Frames : /\ g < f /\ Live(g)
                           /\ metainfo[g].blockNum = metainfo[f].blockNum

\* A live frame whose dirty bit is off holds what the run copy holds, so
\* replacing it without a write loses nothing.  setEntry sets the bit of a
\* block other than the one it writes.
CleanMatchesDisk ==
  \A f \in Frames :
    Live(f) /\ ~metainfo[f].dirty => blocks[f] = disk[metainfo[f].blockNum]

\* An index block between its setHeader and its last setEntry stays in a live
\* dirty frame: that is what makes the wrong block number in setEntry harmless.
FillingDirty ==
  \A b \in filling :
    \E f \in Frames :
      Live(f) /\ metainfo[f].blockNum = b /\ metainfo[f].dirty

\* Ending the session at any moment writes the latest content of every owned
\* block to the run copy.
FlushComplete == \A b \in Block : Owned(b) => AfterFlush(b) = Content(b)

\* The run copy of a block changes only to the content the block has, never to
\* the bytes of a frame that was released or belongs to another block.
WritesBackContent ==
  [][\A b \in Block : disk'[b] # disk[b] => disk'[b] = Content(b)]_vars

\* "if no block is free, return E_DISKFULL" (BlockBuffer.cpp:336) and "otherwise
\* set the error code returned as the block number" (BlockBuffer.cpp:40).
DiskFullReported ==
  [][Unused = {} /\ handle' \notin {handle, NoHandle} => handle' = E_DISKFULL]_vars

\* What an uninitialised int holds is not the number of a block.  Needed: the
\* block numbers getFreeBlock picks up on a full disk have owners.
GarbageOutside == Garbage \cap Block = {}

\* A released block is read again only from a frame.  AttrCatalog shows it for
\* indexes of one block (SearchBlockPresent), and that it fails for larger ones.
ReleasedInFrame == ~ReleasedAway

\* The buffer, whatever it evicts and reloads, is a store of blocks.
Store == INSTANCE BlockStore WITH
           kind    <- blockAllocMap,
           content <- [b \in Block |-> Content(b)]

ImplementsBlockStore == Store!Spec
=============================================================================
