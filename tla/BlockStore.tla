----------------------------- MODULE BlockStore -----------------------------
(***************************************************************************)
(* What the buffer layer promises its clients (record blocks, index        *)
(* blocks): a set of numbered blocks that can be allocated, written, read  *)
(* and released.  No frames, no replacement, no dirty bits, no disk:       *)
(* StaticBuffer implements this module.  A read of a block returns         *)
(* content[b] and changes nothing, so it is not an action of its own.      *)
(***************************************************************************)
EXTENDS Integers

CONSTANTS
  DISK_BLOCKS,   \* number of blocks of the disk
  Values,        \* what a block may contain, as far as a client can tell
  NoContent      \* the content of a block no client owns

VARIABLES
  kind,      \* kind[b]: the type of block b
  content    \* content[b]: what was last written to block b

storeVars == <<kind, content>>

Block == 0 .. DISK_BLOCKS - 1

\* the types of the blocks a client can own
ClientType == {"REC", "IND_INTERNAL", "IND_LEAF"}

BlockType == ClientType \cup {"UNUSED_BLK", "BMAP"}

Owned(b) == kind[b] \in ClientType

Init ==
  /\ kind \in [Block -> BlockType]
  /\ content \in [Block -> Values \cup {NoContent}]
  /\ \A b \in Block : content[b] = NoContent <=> ~Owned(b)

Write(b, v) ==
  /\ Owned(b)
  /\ content' = [content EXCEPT ![b] = v]
  /\ UNCHANGED kind

\* the lowest unused block is given to the client, with content v
Allocate(b, t, v) ==
  /\ kind[b] = "UNUSED_BLK"
  /\ \A c \in Block : c < b => kind[c] # "UNUSED_BLK"
  /\ kind' = [kind EXCEPT ![b] = t]
  /\ content' = [content EXCEPT ![b] = v]

Release(b) ==
  /\ Owned(b)
  /\ kind' = [kind EXCEPT ![b] = "UNUSED_BLK"]
  /\ content' = [content EXCEPT ![b] = NoContent]

Next ==
  \E b \in Block :
    \/ \E v \in Values : Write(b, v)
    \/ \E t \in ClientType, v \in Values : Allocate(b, t, v)
    \/ Release(b)

Spec == Init /\ [][Next]_storeVars
=============================================================================
